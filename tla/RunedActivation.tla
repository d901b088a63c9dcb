-------------------------- MODULE RunedActivation --------------------------
(***************************************************************************)
(* The embedder daemon and the activate calls that bring it up.  Several   *)
(* rune-mcp processes share one runed daemon per host.  activate makes its *)
(* socket reachable, launching it under spawn.lock when needed             *)
(* (internal/spawn), and while runed still downloads its model leaves a    *)
(* bootstrap watcher behind that asks for a boot when runed is ready       *)
(* (internal/service/lifecycle.go).                                        *)
(*                                                                         *)
(* The boot itself is reduced to the gate it moves, see BootGate.  runed   *)
(* and its launcher are external: a launch that succeeded leaves a process *)
(* that is "coming" and binds the socket some time later, exits because    *)
(* another one has it, or dies.                                            *)
(***************************************************************************)
EXTENDS Naturals, FiniteSets

CONSTANTS Procs,      \* rune-mcp processes on the host
          Calls,      \* slots for activate calls in flight at once
          Host,       \* the process a call slot belongs to
          NoCall,     \* spawn.lock is free
          MaxErrors,  \* bootstrapWatcherMaxErrors
          MaxTicks,   \* bootstrapWatcherDeadline in bootstrapWatchIntervals
          MaxComing   \* bound: runed processes that start at the same time

ASSUME ActivationAssumption ==
    /\ Host \in [Calls -> Procs]
    /\ NoCall \notin Calls
    /\ MaxErrors \in Nat \ {0} /\ MaxTicks \in Nat \ {0} /\ MaxComing \in Nat \ {0}

VARIABLES
    runed,      \* what answers on the socket: nothing ("down") or a Health status
    coming,     \* number of launched runed processes that have not bound the socket
    lock,       \* the call that holds spawn.lock
    pc,         \* program counter of each call slot
    alive,      \* the processes that were not killed
    off,        \* config.json, shared by the processes, says dormant
    gate,       \* Manager.state of each process, the transient ones as "booting"
    embedder,   \* an embedder client was injected into the process
    watcher,    \* the watcher goroutine; it counts as running until its deferred
                \* function has cleared bootstrapWatcherRunning
    errors,     \* consecutiveErrors of the watcher
    ticks,      \* ticks of the watcher
    promised,   \* history: the user of a dormant process was told that activation
                \* completes by itself; since then no boot was asked for, the
                \* watcher did not give up and nobody deactivated
    abandoned   \* history: a launcher stopped waiting for a runed still coming, or
                \* its dial to one that is up timed out under the lock

daemon   == <<runed, coming>>
spawning == <<lock, abandoned>>
watching == <<watcher, errors, ticks>>
vars     == <<daemon, spawning, pc, alive, off, gate, embedder, watching, promised>>

\* What Health says.  "OK" stands for IDLE too, "DEGRADED" for SHUTTING_DOWN and
\* UNSPECIFIED, which the watcher treats alike.
Statuses == {"LOADING", "OK", "DEGRADED"}
PCs == {"idle", "probe", "lock", "recheck", "launch", "poll", "health", "watch", "reload"}

TypeOK ==
    /\ runed \in Statuses \union {"down"}
    /\ coming \in 0 .. MaxComing
    /\ lock \in Calls \union {NoCall}
    /\ abandoned \in BOOLEAN
    /\ pc \in [Calls -> PCs]
    /\ alive \in [Procs -> BOOLEAN]
    /\ off \in BOOLEAN
    /\ gate \in [Procs -> {"booting", "active", "dormant"}]
    /\ embedder \in [Procs -> BOOLEAN]
    /\ watcher \in [Procs -> {"none", "polling", "leaving"}]
    /\ errors \in [Procs -> 0 .. MaxErrors]
    /\ ticks \in [Procs -> 0 .. MaxTicks]
    /\ promised \in [Procs -> BOOLEAN]

Init ==
    /\ runed = "down" /\ coming = 0
    /\ lock = NoCall /\ abandoned = FALSE
    /\ pc = [c \in Calls |-> "idle"]
    /\ alive = [p \in Procs |-> TRUE]
    /\ off \in BOOLEAN
    /\ gate = [p \in Procs |-> "booting"]
    /\ embedder = [p \in Procs |-> FALSE]
    /\ watcher = [p \in Procs |-> "none"]
    /\ errors = [p \in Procs |-> 0] /\ ticks = [p \in Procs |-> 0]
    /\ promised = [p \in Procs |-> FALSE]

-----------------------------------------------------------------------------
(* Helpers. *)

Goto(c, to) == pc' = [pc EXCEPT ![c] = to]

\* What probeSocket finds, unless its dial takes longer than it waits.
Reachable == runed # "down"

\* The return of EnsureDaemon closes the lock file.
Unlock(c) == lock' = IF lock = c THEN NoCall ELSE lock

\* Manager.Retrigger.
Retrigger(p) ==
    /\ gate' = [gate EXCEPT ![p] = "booting"]
    /\ promised' = [promised EXCEPT ![p] = FALSE]

NoRetrigger == UNCHANGED <<gate, promised>>

-----------------------------------------------------------------------------
(* EnsureDaemon. *)

\* activate past its check for credentials and for the rune binary: it cleared a
\* deactivation.
Activate(c) ==
    /\ pc[c] = "idle"
    /\ alive[Host[c]]
    /\ off' = FALSE
    /\ Goto(c, "probe")
    /\ UNCHANGED <<daemon, spawning, alive, gate, embedder, watching, promised>>

ProbeSocket(c) ==
    /\ pc[c] = "probe"
    /\ \/ Reachable /\ Goto(c, "health")
       \/ Goto(c, "lock")
    /\ UNCHANGED <<daemon, spawning, alive, off, gate, embedder, watching, promised>>

\* acquireSpawnLock: a non-blocking flock.  The loser only waits for the socket;
\* an error ends the call.
TakeLock(c) ==
    /\ pc[c] = "lock"
    /\ \/ /\ lock = NoCall
          /\ lock' = c
          /\ Goto(c, "recheck")
       \/ /\ lock # NoCall
          /\ Goto(c, "poll")
          /\ UNCHANGED lock
       \/ /\ Goto(c, "idle")
          /\ UNCHANGED lock
    /\ UNCHANGED <<daemon, abandoned, alive, off, gate, embedder, watching, promised>>

\* Fault: no second probe under the lock.
LaunchUnchecked(c) ==
    /\ pc[c] = "recheck"
    /\ Goto(c, "launch")
    /\ UNCHANGED <<daemon, spawning, alive, off, gate, embedder, watching, promised>>

\* The second probe, under the lock.
Recheck(c) ==
    /\ pc[c] = "recheck"
    /\ \/ Reachable /\ Goto(c, "poll") /\ UNCHANGED abandoned
       \/ Goto(c, "launch") /\ abandoned' = (abandoned \/ Reachable)
    /\ UNCHANGED <<daemon, lock, alive, off, gate, embedder, watching, promised>>

\* launchDaemon ran the launcher to its end.
Launch(c) ==
    /\ pc[c] = "launch"
    /\ coming < MaxComing
    /\ coming' = coming + 1
    /\ Goto(c, "poll")
    /\ UNCHANGED <<runed, spawning, alive, off, gate, embedder, watching, promised>>

\* The launcher failed, or was killed with the tool call's context, before or
\* after it started runed.
LaunchFails(c) ==
    /\ pc[c] = "launch"
    /\ \/ UNCHANGED <<coming, abandoned>>
       \/ coming < MaxComing /\ coming' = coming + 1 /\ abandoned' = TRUE
    /\ Unlock(c)
    /\ Goto(c, "idle")
    /\ UNCHANGED <<runed, alive, off, gate, embedder, watching, promised>>

\* waitForSocket finds the socket reachable.
SocketUp(c) ==
    /\ pc[c] = "poll"
    /\ Reachable
    /\ Unlock(c)
    /\ Goto(c, "health")
    /\ UNCHANGED <<daemon, abandoned, alive, off, gate, embedder, watching, promised>>

\* Fault: only the process that launched runed has a deadline.
HolderTimesOut(c) ==
    /\ pc[c] = "poll"
    /\ lock = c
    /\ Unlock(c)
    /\ abandoned' = (abandoned \/ coming > 0)
    /\ Goto(c, "idle")
    /\ UNCHANGED <<daemon, alive, off, gate, embedder, watching, promised>>

\* waitForSocket reaches its deadline, or the context is cancelled.
PollTimesOut(c) ==
    /\ pc[c] = "poll"
    /\ Unlock(c)
    /\ abandoned' = (abandoned \/ (lock = c /\ coming > 0))
    /\ Goto(c, "idle")
    /\ UNCHANGED <<daemon, alive, off, gate, embedder, watching, promised>>

-----------------------------------------------------------------------------
(* probeBootstrap and the watcher. *)

\* Health, if there is a client to ask.  It answers with runed's status, or it
\* fails.  The UnaryRecovery interceptor makes a Retrigger of a failure that may
\* pass (Unavailable, DeadlineExceeded, ResourceExhausted), and of no other.
ProbeBootstrap(c) ==
    /\ pc[c] = "health"
    /\ \/ /\ embedder[Host[c]] /\ Reachable
          /\ Goto(c, IF runed = "LOADING" THEN "watch" ELSE "reload")
          /\ NoRetrigger
       \/ /\ embedder[Host[c]]
          /\ Goto(c, "reload")
          /\ Retrigger(Host[c]) \/ NoRetrigger
       \/ /\ ~embedder[Host[c]]
          /\ Goto(c, "reload")
          /\ NoRetrigger
    /\ UNCHANGED <<daemon, spawning, alive, off, embedder, watching>>

\* startBootstrapWatcher, then the reply waiting_for_bootstrap.
StartWatcher(c) ==
    LET p == Host[c] IN
    /\ pc[c] = "watch"
    /\ watcher' = [watcher EXCEPT ![p] = IF @ = "none" THEN "polling" ELSE @]
    /\ promised' = [promised EXCEPT ![p] = (gate[p] = "dormant" /\ ~off)]
    /\ Goto(c, "idle")
    /\ UNCHANGED <<daemon, spawning, alive, off, gate, embedder, errors, ticks>>

\* ReloadPipelines; its reply is not modelled here.
Reload(c) ==
    /\ pc[c] = "reload"
    /\ Retrigger(Host[c])
    /\ Goto(c, "idle")
    /\ UNCHANGED <<daemon, spawning, alive, off, embedder, watching>>

NoWatcher(p) ==
    /\ watcher' = [watcher EXCEPT ![p] = "none"]
    /\ errors' = [errors EXCEPT ![p] = 0]
    /\ ticks' = [ticks EXCEPT ![p] = 0]

WatcherLeaves(p) == watcher' = [watcher EXCEPT ![p] = "leaving"]
WatcherGivesUp(p) == WatcherLeaves(p) /\ promised' = [promised EXCEPT ![p] = FALSE]

\* A tick past the deadline.
WatcherExpires(p) ==
    /\ watcher[p] = "polling" /\ ticks[p] = MaxTicks
    /\ WatcherGivesUp(p)
    /\ UNCHANGED <<daemon, spawning, pc, alive, off, gate, embedder, errors, ticks>>

\* Fault: a watcher that sees runed ready does not ask for a boot.
WatcherForgets(p) ==
    /\ watcher[p] = "polling" /\ ticks[p] < MaxTicks
    /\ Reachable
    /\ ticks' = [ticks EXCEPT ![p] = @ + 1]
    /\ errors' = [errors EXCEPT ![p] = 0]
    /\ IF runed = "LOADING" THEN UNCHANGED watcher ELSE WatcherLeaves(p)
    /\ NoRetrigger
    /\ UNCHANGED <<daemon, spawning, pc, alive, off, embedder>>

\* A tick on which Health answers.
WatcherSeesStatus(p) ==
    /\ watcher[p] = "polling" /\ ticks[p] < MaxTicks
    /\ Reachable
    /\ ticks' = [ticks EXCEPT ![p] = @ + 1]
    /\ errors' = [errors EXCEPT ![p] = 0]
    /\ \/ runed = "LOADING" /\ NoRetrigger /\ UNCHANGED watcher
       \/ runed = "OK" /\ Retrigger(p) /\ WatcherLeaves(p)
       \/ runed = "DEGRADED" /\ WatcherGivesUp(p) /\ UNCHANGED gate
    /\ UNCHANGED <<daemon, spawning, pc, alive, off, embedder>>

\* A tick on which Health fails.  The watcher counts the failures, whatever the
\* interceptor makes of them, see ProbeBootstrap.  It ends on the last one, without
\* a boot unless a failure brought one about.
WatcherSeesError(p) ==
    /\ watcher[p] = "polling" /\ ticks[p] < MaxTicks
    /\ ticks' = [ticks EXCEPT ![p] = @ + 1]
    /\ errors' = [errors EXCEPT ![p] = @ + 1]
    /\ \/ /\ Retrigger(p)
          /\ IF errors[p] + 1 >= MaxErrors THEN WatcherLeaves(p) ELSE UNCHANGED watcher
       \/ /\ errors[p] + 1 < MaxErrors
          /\ NoRetrigger /\ UNCHANGED watcher
       \/ /\ errors[p] + 1 >= MaxErrors
          /\ WatcherGivesUp(p) /\ UNCHANGED gate
    /\ UNCHANGED <<daemon, spawning, pc, alive, off, embedder>>

\* The deferred function of runBootstrapWatcher.
WatcherEnds(p) ==
    /\ watcher[p] = "leaving"
    /\ NoWatcher(p)
    /\ UNCHANGED <<daemon, spawning, pc, alive, off, gate, embedder, promised>>

-----------------------------------------------------------------------------
(* The rest of a process, and the daemon. *)

\* A boot injects its embedder client, whether or not it succeeds later.
InjectEmbedder(p) ==
    /\ alive[p] /\ gate[p] = "booting"
    /\ embedder' = [embedder EXCEPT ![p] = TRUE]
    /\ UNCHANGED <<daemon, spawning, pc, alive, off, gate, watching, promised>>

\* A boot ends: dormant if the config says so, else active with an embedder client.
BootEnds(p) ==
    /\ alive[p] /\ gate[p] = "booting"
    /\ off \/ embedder[p]
    /\ gate' = [gate EXCEPT ![p] = IF off THEN "dormant" ELSE "active"]
    /\ UNCHANGED <<daemon, spawning, pc, alive, off, embedder, watching, promised>>

\* SIGKILL: what the process held is gone.  The kernel drops the flock; a launcher
\* that was running goes on.
Kill(p) ==
    LET mine == {c \in Calls : Host[c] = p} IN
    /\ alive[p]
    /\ alive' = [alive EXCEPT ![p] = FALSE]
    /\ \/ UNCHANGED coming
       \/ /\ \E c \in mine : pc[c] = "launch"
          /\ coming < MaxComing
          /\ coming' = coming + 1
    /\ lock' = IF lock \in mine THEN NoCall ELSE lock
    /\ abandoned' = (abandoned \/ (lock \in mine /\ coming' > 0))
    /\ pc' = [c \in Calls |-> IF c \in mine THEN "idle" ELSE pc[c]]
    /\ NoWatcher(p)
    /\ gate' = [gate EXCEPT ![p] = "dormant"]
    /\ embedder' = [embedder EXCEPT ![p] = FALSE]
    /\ promised' = [promised EXCEPT ![p] = FALSE]
    /\ UNCHANGED <<runed, off>>

\* /rune:deactivate.
Deactivate ==
    /\ off' = TRUE
    /\ promised' = [p \in Procs |-> FALSE]
    /\ UNCHANGED <<daemon, spawning, pc, alive, gate, embedder, watching>>

\* A runed that was coming binds the socket, or it finds another one there or
\* dies.
RunedComes ==
    /\ coming > 0
    /\ coming' = coming - 1
    /\ \/ runed = "down" /\ runed' \in {"LOADING", "OK"}
       \/ UNCHANGED runed
    /\ UNCHANGED <<spawning, pc, alive, off, gate, embedder, watching, promised>>

\* runed finishes its bootstrap, degrades, recovers or ends.
RunedChanges ==
    /\ runed # "down"
    /\ runed' \in {"OK", "DEGRADED", "down"} \ {runed}
    /\ UNCHANGED <<coming, spawning, pc, alive, off, gate, embedder, watching, promised>>

-----------------------------------------------------------------------------
CallContinues(c) ==
    \/ ProbeSocket(c) \/ TakeLock(c) \/ Recheck(c) \/ Launch(c) \/ LaunchFails(c)
    \/ SocketUp(c) \/ PollTimesOut(c)
    \/ ProbeBootstrap(c) \/ StartWatcher(c) \/ Reload(c)

WatcherStep(p) ==
    \/ WatcherExpires(p) \/ WatcherSeesStatus(p) \/ WatcherSeesError(p)
    \/ WatcherEnds(p)

Next ==
    \/ \E c \in Calls : Activate(c) \/ CallContinues(c)
    \/ \E p \in Procs : WatcherStep(p) \/ InjectEmbedder(p) \/ BootEnds(p) \/ Kill(p)
    \/ Deactivate
    \/ RunedComes
    \/ RunedChanges

Spec == Init /\ [][Next]_vars

\* Calls go on, waits have deadlines, the ticker of a watcher ticks, boots end.
\* Nothing is assumed of runed, but that a Health that notices a restart does not
\* wait for ever for the mutex of the Info cache, see EmbedderClient.
FairSpec ==
    /\ Spec
    /\ \A c \in Calls : WF_vars(CallContinues(c))
    /\ \A p \in Procs : WF_vars(WatcherStep(p)) /\ WF_vars(BootEnds(p))

-----------------------------------------------------------------------------
(* Properties. *)

\* However many processes activate at once, at most one runed runs, starts or is
\* being launched, as long as no launcher walked away from one still starting or
\* took one for dead: the lock and the second probe under it keep a second one from
\* being launched.
NoRedundantLaunch ==
    ~abandoned =>
        /\ coming <= 1
        /\ Reachable => coming = 0
        /\ Cardinality({c \in Calls : pc[c] = "launch"}) + coming <= 1

\* An activate call ends whatever runed does: the processes that lost the lock
\* wait for somebody else's launch no longer than for their own.
ActivateReplies == \A c \in Calls : (pc[c] # "idle") ~> (pc[c] = "idle")

\* A watcher ends whatever runed does, so that a later activate can start one.
WatcherEndsEventually == \A p \in Procs : (watcher[p] # "none") ~> (watcher[p] = "none")

\* Neither a call nor a watcher hangs, whatever runed does and whoever is killed, but for
\* the mutex FairSpec speaks of.
ActivationEnds == ActivateReplies /\ WatcherEndsEventually

\* A dormant process that was promised to be booted and has a watcher polling is
\* booted once runed is ready, unless that watcher gave up since (deadline, a status
\* it cannot wait for, bootstrapWatcherMaxErrors failures of Health in a row none of
\* which called for a boot) or the user deactivated again.  Nothing is said of a
\* promise made while the last watcher is leaving: no watcher keeps that one.
WatchedBootstrapCompletes ==
    \A p \in Procs :
        <>[](runed = "OK") =>
            ((promised[p] /\ watcher[p] = "polling") ~> ~promised[p])
=============================================================================
