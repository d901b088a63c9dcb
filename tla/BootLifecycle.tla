--------------------------- MODULE BootLifecycle ---------------------------
(***************************************************************************)
(* The boot life cycle of one rune-mcp process: the state gate             *)
(* (lifecycle.Manager), the RunBootLoop goroutines, the adapter clients    *)
(* and the Vault bundle they inject into the services (mcp.Deps), the      *)
(* delayed close of replaced clients, and the tool calls that touch any of *)
(* these: configure, activate, reload_pipelines.                           *)
(*                                                                         *)
(* Each goroutine takes one atomic step at a time and the steps of         *)
(* different goroutines interleave freely.  A step ends where the code     *)
(* blocks (RPC, disk, sleep) or makes a change another goroutine can see   *)
(* and react to (the state gate, config.json, the recorded boot error).    *)
(***************************************************************************)
EXTENDS ConfigFile, FiniteSets

CONSTANTS Loops,       \* slots for RunBootLoop goroutines alive at once
          Calls,       \* slots for tool calls in flight at once
          Attempts,    \* identities of the clients one boot attempt dials
          NoAttempt,   \* the nil client
          InitConfigs  \* contents of config.json the process may start on: those the
                 \* user or an earlier process left, "empty" when that process
                 \* was killed between truncating the file and writing it

ASSUME BootAssumption ==
    /\ NoAttempt \notin Attempts
    /\ InitConfigs \subseteq Config
    /\ \A c \in InitConfigs : c.file # "garbled"
    /\ Loops \intersect Calls = {}

VARIABLES
    state,        \* Manager.state
    lastBootErr,  \* Manager.lastBootErr, "none" for nil
    cancelled,    \* the process context was cancelled (signal, stdin EOF)
    config,       \* ~/.rune/config.json
    draft,        \* the bytes a writer of config.json is about to write
    pc,           \* program counter of each boot loop slot
    seen,         \* the config a loop read at the top of its attempt, or the
                  \* one a tool call found when it started
    own,          \* the attempt a loop is making
    madeWith,     \* the credentials an attempt dialled with
    deps,         \* the clients injected into the services
    bundle,       \* the attempt whose Vault bundle the services hold
    open,         \* the gRPC connections not closed yet
    doomed,       \* replaced clients whose delayed Close is pending
    tpc           \* program counter of each tool call slot

gate     == <<state, lastBootErr>>
file     == <<config, draft>>
adapters == <<madeWith, deps, bundle, open, doomed>>
vars     == <<gate, cancelled, file, pc, seen, own, adapters, tpc>>

-----------------------------------------------------------------------------
Kinds  == {"vault", "embedder", "envector"}
States == {"starting", "waiting_for_vault", "active", "dormant"}

\* nil, the classified reason of a dormant exit, the classified error of a failed
\* attempt; which phase failed makes no difference to the life cycle.
BootErrors == {"none", "dormant", "failed"}

\* Where a loop that still decides the outcome of a boot can be, and where one
\* that has published an outcome (dormant or active) is finishing.
DrivingPCs == {"spawned", "load", "decide", "manifest", "keys", "embedder",
               "envector", "openindex", "activate", "backoff"}
TailPCs    == {"note", "mark", "truncate", "write", "clear"}
LoopPCs    == DrivingPCs \union TailPCs \union {"idle"}

CallPCs == {"idle", "conf_truncate", "conf_write", "clear", "clear_truncate",
            "clear_write", "daemon", "reload", "wait"}

Clients == Kinds \X Attempts

Driving(l) == pc[l] \in DrivingPCs
Drivers    == {l \in Loops : Driving(l)}

\* The injected clients, and the connection only the attempt itself holds.
Wired == {<<k, deps[k]>> : k \in {j \in Kinds : deps[j] # NoAttempt}}
Held  == {<<"vault", own[l]>>    : l \in {m \in Loops : pc[m] \in {"manifest", "keys"}}}
    \union
         {<<"envector", own[l]>> : l \in {m \in Loops : pc[m] = "openindex"}}

\* Identities no live client, bundle or attempt carries.
Unused(n) ==
    /\ \A k \in Kinds : deps[k] # n /\ <<k, n>> \notin open
    /\ bundle # n
    /\ \A l \in Loops : own[l] # n

TypeOK ==
    /\ state \in States
    /\ lastBootErr \in BootErrors
    /\ cancelled \in BOOLEAN
    /\ config \in Config
    /\ draft \in [Loops \union Calls -> Config]
    /\ pc \in [Loops -> LoopPCs]
    /\ seen \in [Loops \union Calls -> Config]
    /\ own \in [Loops -> Attempts \union {NoAttempt}]
    /\ madeWith \in [Attempts -> Creds \union {NoCreds}]
    /\ deps \in [Kinds -> Attempts \union {NoAttempt}]
    /\ bundle \in Attempts \union {NoAttempt}
    /\ open \subseteq Clients
    /\ doomed \subseteq Clients
    /\ tpc \in [Calls -> CallPCs]

-----------------------------------------------------------------------------
(* main: the first boot loop is spawned before any request is served. *)
Init ==
    /\ state = "starting"
    /\ lastBootErr = "none"
    /\ cancelled = FALSE
    /\ config \in InitConfigs
    /\ draft = [w \in Loops \union Calls |-> ZeroConfig]
    /\ \E l \in Loops :
          pc = [m \in Loops |-> IF m = l THEN "spawned" ELSE "idle"]
    /\ seen = [w \in Loops \union Calls |-> ZeroConfig]
    /\ own = [l \in Loops |-> NoAttempt]
    /\ madeWith = [n \in Attempts |-> NoCreds]
    /\ deps = [k \in Kinds |-> NoAttempt]
    /\ bundle = NoAttempt
    /\ open = {}
    /\ doomed = {}
    /\ tpc = [c \in Calls |-> "idle"]

-----------------------------------------------------------------------------
(* Helpers shared by the actions. *)

Goto(l, to) == pc' = [pc EXCEPT ![l] = to]
CallGoto(c, to) == tpc' = [tpc EXCEPT ![c] = to]

\* A tool call replies.
Reply(c) ==
    /\ CallGoto(c, "idle")
    /\ seen' = [seen EXCEPT ![c] = ZeroConfig]

\* Fault: Retrigger without the compare-and-swap.
RetriggerUnclaimed ==
    /\ state' = "starting"
    /\ \E l \in Loops : pc[l] = "idle" /\ Goto(l, "spawned")

\* Manager.Retrigger: compare-and-swap Active or Dormant to Starting and spawn
\* a loop; any other state means a loop is running and the call does nothing.
Retrigger ==
    IF state \in {"active", "dormant"}
    THEN /\ state' = "starting"
         /\ \E l \in Loops : pc[l] = "idle" /\ Goto(l, "spawned")
    ELSE UNCHANGED <<state, pc>>

\* Fault: a client that is already there is kept.
InjectOnce(kind, n) ==
    /\ deps' = [deps EXCEPT ![kind] = IF @ = NoAttempt THEN n ELSE @]
    /\ UNCHANGED doomed

\* mcp.Deps.InjectX: publish the new client, leave the previous one to
\* closeAfterInterval.
Inject(kind, n) ==
    /\ deps' = [deps EXCEPT ![kind] = n]
    /\ doomed' = IF deps[kind] = NoAttempt
                 THEN doomed
                 ELSE doomed \union {<<kind, deps[kind]>>}

\* bootOnce returns: its locals are gone.
Forget(l) ==
    /\ own'  = [own  EXCEPT ![l] = NoAttempt]
    /\ seen' = [seen EXCEPT ![l] = ZeroConfig]

\* Fault: RunBootLoop returns after a failed attempt.
FailGivesUp(l) ==
    /\ lastBootErr' = "failed"
    /\ Forget(l)
    /\ Goto(l, "idle")

\* A failed attempt: record the error, return, sleep.
Fail(l) ==
    /\ lastBootErr' = "failed"
    /\ Forget(l)
    /\ Goto(l, "backoff")

-----------------------------------------------------------------------------
(* RunBootLoop and bootOnce. *)

\* RunBootLoop entry.
StartLoop(l) ==
    /\ pc[l] = "spawned"
    /\ state' = "starting"
    /\ Goto(l, "load")
    /\ UNCHANGED <<lastBootErr, cancelled, file, seen, own, adapters, tpc>>

\* Top of the for loop: the context check.
LoopCancelled(l) ==
    /\ pc[l] = "load"
    /\ cancelled
    /\ Goto(l, "idle")
    /\ UNCHANGED <<gate, cancelled, file, seen, own, adapters, tpc>>

\* Fault: the context is not looked at.
LoadConfigAnyway(l) ==
    /\ pc[l] = "load"
    /\ seen' = [seen EXCEPT ![l] = config]
    /\ Goto(l, "decide")
    /\ UNCHANGED <<lastBootErr, own, state, cancelled, file, adapters, tpc>>

\* config.Load at the start of an attempt.  A file that does not parse is
\* retried, a missing one is decided upon like a readable one.
LoadConfig(l) ==
    /\ pc[l] = "load"
    /\ ~cancelled
    /\ \/ /\ config.file \in {"missing", "json"}
          /\ seen' = [seen EXCEPT ![l] = config]
          /\ Goto(l, "decide")
          /\ UNCHANGED <<lastBootErr, own>>
       \/ /\ config.file \in {"empty", "garbled"}
          /\ Fail(l)
    /\ UNCHANGED <<state, cancelled, file, adapters, tpc>>

\* Fault: a dormant exit that does not publish the state.
EnterDormantSilently(l) ==
    /\ pc[l] = "decide"
    /\ BootReason(seen[l]) # ""
    /\ Goto(l, "note")
    /\ UNCHANGED <<gate, cancelled, file, seen, own, adapters, tpc>>

\* The three dormant exits of bootOnce publish the state first ...
EnterDormant(l) ==
    /\ pc[l] = "decide"
    /\ BootReason(seen[l]) # ""
    /\ state' = "dormant"
    /\ Goto(l, "note")
    /\ UNCHANGED <<lastBootErr, cancelled, file, seen, own, adapters, tpc>>

\* ... then the classified error ...
NoteDormant(l) ==
    /\ pc[l] = "note"
    /\ lastBootErr' = "dormant"
    /\ Goto(l, "mark")
    /\ UNCHANGED <<state, cancelled, file, seen, own, adapters, tpc>>

\* ... then MarkDormant persists the reason: it reads config.json again and
\* rewrites it unless it already carries the reason.  Save may fail before it
\* touches the file, which is logged only.
MarkDormant(l) ==
    /\ pc[l] = "mark"
    /\ \/ /\ ~IsMarked(config, BootReason(seen[l]))
          /\ draft' = [draft EXCEPT ![l] = Marked(config, BootReason(seen[l]))]
          /\ Goto(l, "truncate")
          /\ UNCHANGED <<seen, own>>
       \/ /\ Goto(l, "idle")
          /\ Forget(l)
          /\ UNCHANGED draft
    /\ UNCHANGED <<gate, cancelled, config, adapters, tpc>>

TruncateConfig(l) ==
    /\ pc[l] = "truncate"
    /\ config' = Empty
    /\ Goto(l, "write")
    /\ UNCHANGED <<gate, cancelled, draft, seen, own, adapters, tpc>>

\* The write may fail as well, which is logged only.
WriteConfig(l) ==
    /\ pc[l] = "write"
    /\ config' \in WriteOutcomes(config, draft[l]) \union {config}
    /\ draft' = [draft EXCEPT ![l] = ZeroConfig]
    /\ Forget(l)
    /\ Goto(l, "idle")
    /\ UNCHANGED <<gate, cancelled, adapters, tpc>>

\* vault.NewClient with the endpoint and token of the config this attempt read.
DialVault(l) ==
    /\ pc[l] = "decide"
    /\ BootReason(seen[l]) = ""
    /\ \E n \in {m \in Attempts : Unused(m)} :
          /\ own' = [own EXCEPT ![l] = n]
          /\ madeWith' = [madeWith EXCEPT ![n] = seen[l].creds]
          /\ open' = open \union {<<"vault", n>>}
    /\ Goto(l, "manifest")
    /\ UNCHANGED <<gate, cancelled, file, seen, deps, bundle, doomed, tpc>>

DialVaultFails(l) ==
    /\ pc[l] = "decide"
    /\ BootReason(seen[l]) = ""
    /\ state' = "waiting_for_vault"
    /\ Fail(l)
    /\ UNCHANGED <<cancelled, file, adapters, tpc>>

\* GetAgentManifest.
ManifestArrives(l) ==
    /\ pc[l] = "manifest"
    /\ Goto(l, "keys")
    /\ UNCHANGED <<gate, cancelled, file, seen, own, adapters, tpc>>

\* Fault: the Vault connection is not closed.
ManifestFailsUnclosed(l) ==
    /\ pc[l] = "manifest"
    /\ state' = "waiting_for_vault"
    /\ Fail(l)
    /\ UNCHANGED <<cancelled, file, adapters, tpc>>

ManifestFails(l) ==
    /\ pc[l] = "manifest"
    /\ state' = "waiting_for_vault"
    /\ open' = open \ {<<"vault", own[l]>>}
    /\ Fail(l)
    /\ UNCHANGED <<cancelled, file, madeWith, deps, bundle, doomed, tpc>>

\* SaveEncKey, then InjectVault and ApplyVaultBundle.
WireVault(l) ==
    /\ pc[l] = "keys"
    /\ Inject("vault", own[l])
    /\ bundle' = own[l]
    /\ Goto(l, "embedder")
    /\ UNCHANGED <<gate, cancelled, file, seen, own, madeWith, open, tpc>>

SaveKeysFails(l) ==
    /\ pc[l] = "keys"
    /\ open' = open \ {<<"vault", own[l]>>}
    /\ Fail(l)
    /\ UNCHANGED <<state, cancelled, file, madeWith, deps, bundle, doomed, tpc>>

\* embedder.New and InjectEmbedder.
WireEmbedder(l) ==
    /\ pc[l] = "embedder"
    /\ open' = open \union {<<"embedder", own[l]>>}
    /\ Inject("embedder", own[l])
    /\ Goto(l, "envector")
    /\ UNCHANGED <<gate, cancelled, file, seen, own, madeWith, bundle, tpc>>

EmbedderFails(l) ==
    /\ pc[l] = "embedder"
    /\ Fail(l)
    /\ UNCHANGED <<state, cancelled, file, adapters, tpc>>

\* envector.NewClient, then OpenIndex on it.
DialEnvector(l) ==
    /\ pc[l] = "envector"
    /\ open' = open \union {<<"envector", own[l]>>}
    /\ Goto(l, "openindex")
    /\ UNCHANGED <<gate, cancelled, file, seen, own, madeWith, deps, bundle, doomed, tpc>>

DialEnvectorFails(l) ==
    /\ pc[l] = "envector"
    /\ Fail(l)
    /\ UNCHANGED <<state, cancelled, file, adapters, tpc>>

WireEnvector(l) ==
    /\ pc[l] = "openindex"
    /\ Inject("envector", own[l])
    /\ Goto(l, "activate")
    /\ UNCHANGED <<gate, cancelled, file, seen, own, madeWith, bundle, open, tpc>>

\* Fault: an index that does not open is logged only.
OpenIndexFailsQuietly(l) ==
    /\ pc[l] = "openindex"
    /\ open' = open \ {<<"envector", own[l]>>}
    /\ Goto(l, "activate")
    /\ UNCHANGED <<gate, cancelled, file, seen, own, madeWith, deps, bundle, doomed, tpc>>

OpenIndexFails(l) ==
    /\ pc[l] = "openindex"
    /\ open' = open \ {<<"envector", own[l]>>}
    /\ Fail(l)
    /\ UNCHANGED <<state, cancelled, file, madeWith, deps, bundle, doomed, tpc>>

\* RunBootLoop on bootActive: open the gate first, then clear the boot error.
EnterActive(l) ==
    /\ pc[l] = "activate"
    /\ state' = "active"
    /\ Forget(l)
    /\ Goto(l, "clear")
    /\ UNCHANGED <<lastBootErr, cancelled, file, adapters, tpc>>

ClearBootError(l) ==
    /\ pc[l] = "clear"
    /\ lastBootErr' = "none"
    /\ Goto(l, "idle")
    /\ UNCHANGED <<state, cancelled, file, seen, own, adapters, tpc>>

\* sleepBackoff is over, or the context was cancelled during it.
WakeUp(l) ==
    /\ pc[l] = "backoff"
    /\ Goto(l, "load")
    /\ UNCHANGED <<gate, cancelled, file, seen, own, adapters, tpc>>

-----------------------------------------------------------------------------
(* Background work that is not a boot loop. *)

\* The goroutine of closeAfterInterval.
CloseStale(client) ==
    /\ client \in doomed
    /\ doomed' = doomed \ {client}
    /\ open' = open \ {client}
    /\ UNCHANGED <<gate, cancelled, file, pc, seen, own, madeWith, deps, bundle, tpc>>

\* A retryable RPC failure seen by the UnaryRecovery interceptor of any open
\* connection, those of a running attempt included, or a bootstrap watcher that
\* saw the embedder become ready: both call Retrigger.
BackgroundRetrigger ==
    /\ open # {}
    /\ Retrigger
    /\ UNCHANGED <<lastBootErr, cancelled, file, seen, own, adapters, tpc>>

\* SIGINT, SIGTERM or the end of stdin.
Shutdown ==
    /\ ~cancelled
    /\ cancelled' = TRUE
    /\ UNCHANGED <<gate, file, pc, seen, own, adapters, tpc>>

\* /rune:deactivate, run by the CLI in another process.
Deactivate ==
    /\ Loads(config)
    /\ config' = [config EXCEPT !.state = "dormant", !.reason = "user_deactivated"]
    /\ UNCHANGED <<gate, cancelled, draft, pc, seen, own, adapters, tpc>>

-----------------------------------------------------------------------------
(* Tool calls.  "seen" of a call is what config.json held when it began. *)

\* configure: rewrite config.json with new credentials, in two steps.
Configure(c) ==
    /\ tpc[c] = "idle"
    /\ \E k \in Creds : draft' = [draft EXCEPT ![c] = Configured(k)]
    /\ CallGoto(c, "conf_truncate")
    /\ UNCHANGED <<gate, cancelled, config, pc, seen, own, adapters>>

\* activate reads the config and stops with configure_required, changing
\* nothing, unless it has credentials.  Only a deactivation by the user is
\* cleared.
Activate(c) ==
    /\ tpc[c] = "idle"
    /\ Loads(config)
    /\ config.creds # NoCreds
    /\ seen' = [seen EXCEPT ![c] = config]
    /\ CallGoto(c, IF /\ config.state = "dormant"
                      /\ config.reason \in {"", "user_deactivated"}
                   THEN "clear" ELSE "daemon")
    /\ UNCHANGED <<gate, cancelled, file, pc, own, adapters>>

\* ClearDormant reads the file again; an error ends the call.
ClearDormant(c) ==
    /\ tpc[c] = "clear"
    /\ \/ /\ ~Loads(config)
          /\ Reply(c)
          /\ UNCHANGED draft
       \/ /\ Loads(config) /\ IsCleared(config)
          /\ CallGoto(c, "daemon")
          /\ UNCHANGED <<draft, seen>>
       \/ /\ Loads(config) /\ ~IsCleared(config)
          /\ draft' = [draft EXCEPT ![c] = Cleared(config)]
          /\ CallGoto(c, "clear_truncate")
          /\ UNCHANGED seen
    /\ UNCHANGED <<gate, cancelled, config, pc, own, adapters>>

CallTruncates(c) ==
    /\ \/ tpc[c] = "conf_truncate" /\ CallGoto(c, "conf_write")
       \/ tpc[c] = "clear_truncate" /\ CallGoto(c, "clear_write")
    /\ config' = Empty
    /\ UNCHANGED <<gate, cancelled, draft, pc, seen, own, adapters>>

CallWrites(c) ==
    /\ \/ tpc[c] = "conf_write" /\ CallGoto(c, "idle")
       \/ tpc[c] = "clear_write" /\ CallGoto(c, "daemon")
    /\ config' \in WriteOutcomes(config, draft[c])
    /\ draft' = [draft EXCEPT ![c] = ZeroConfig]
    /\ UNCHANGED <<gate, cancelled, pc, seen, own, adapters>>

\* The write fails after the truncation, and the call with it.
CallWriteFails(c) ==
    /\ tpc[c] \in {"conf_write", "clear_write"}
    /\ draft' = [draft EXCEPT ![c] = ZeroConfig]
    /\ Reply(c)
    /\ UNCHANGED <<gate, cancelled, config, pc, own, adapters>>

\* ensureDaemon and probeBootstrap pass, or end the call with install_pending
\* or waiting_for_bootstrap.
DaemonCheck(c) ==
    /\ tpc[c] = "daemon"
    /\ \/ CallGoto(c, "reload") /\ UNCHANGED seen
       \/ Reply(c)
    /\ UNCHANGED <<gate, cancelled, file, pc, own, adapters>>

\* reload_pipelines called by itself.
ReloadPipelines(c) ==
    /\ tpc[c] = "idle"
    /\ seen' = [seen EXCEPT ![c] = config]
    /\ CallGoto(c, "reload")
    /\ UNCHANGED <<gate, cancelled, file, pc, own, adapters>>

\* ReloadPipelines always asks for a fresh boot ...
Reload(c) ==
    /\ tpc[c] = "reload"
    /\ Retrigger
    /\ CallGoto(c, "wait")
    /\ UNCHANGED <<lastBootErr, cancelled, file, seen, own, adapters>>

\* ... and replies with the state it then finds: waitForBootProgress returns on
\* active, on dormant, and in any state after its deadline.
ReloadReplies(c) ==
    /\ tpc[c] = "wait"
    /\ Reply(c)
    /\ UNCHANGED <<gate, cancelled, file, pc, own, adapters>>

-----------------------------------------------------------------------------
\* The steps of a loop that the environment decides in the program's favour, and
\* those it decides against it.
LoopSucceeds(l) ==
    \/ DialVault(l) \/ ManifestArrives(l) \/ WireVault(l)
    \/ WireEmbedder(l) \/ DialEnvector(l) \/ WireEnvector(l)

LoopFails(l) ==
    \/ DialVaultFails(l) \/ ManifestFails(l) \/ SaveKeysFails(l)
    \/ EmbedderFails(l) \/ DialEnvectorFails(l) \/ OpenIndexFails(l)

LoopRuns(l) ==
    \/ StartLoop(l) \/ LoopCancelled(l) \/ LoadConfig(l)
    \/ EnterDormant(l) \/ NoteDormant(l) \/ MarkDormant(l)
    \/ TruncateConfig(l) \/ WriteConfig(l)
    \/ EnterActive(l) \/ ClearBootError(l) \/ WakeUp(l)

LoopStep(l) == LoopSucceeds(l) \/ LoopFails(l) \/ LoopRuns(l)

CallContinues(c) ==
    \/ ClearDormant(c) \/ CallTruncates(c) \/ CallWrites(c) \/ CallWriteFails(c)
    \/ DaemonCheck(c) \/ Reload(c) \/ ReloadReplies(c)

CallStep(c) ==
    \/ Configure(c) \/ Activate(c) \/ ReloadPipelines(c)
    \/ CallContinues(c)

Next ==
    \/ \E l \in Loops : LoopStep(l)
    \/ \E c \in Calls : CallStep(c)
    \/ \E client \in Clients : CloseStale(client)
    \/ BackgroundRetrigger
    \/ Shutdown
    \/ Deactivate

Spec == Init /\ [][Next]_vars

\* Every goroutine keeps running: each RPC and sleep of a boot attempt ends, a
\* tool call that began goes on, a delayed Close happens.
Progress ==
    /\ \A l \in Loops : WF_vars(LoopStep(l))
    /\ \A c \in Calls : WF_vars(CallContinues(c))
    /\ \A client \in Clients : WF_vars(CloseStale(client))

\* The dependencies come back: a boot step that is tried again and again
\* succeeds at some attempt.
DependenciesRecover ==
    \A l \in Loops :
        /\ SF_vars(DialVault(l))    /\ SF_vars(ManifestArrives(l))
        /\ SF_vars(WireVault(l))    /\ SF_vars(WireEmbedder(l))
        /\ SF_vars(DialEnvector(l)) /\ SF_vars(WireEnvector(l))

FairSpec == Spec /\ Progress /\ DependenciesRecover

-----------------------------------------------------------------------------
(* Properties. *)

Transient == {"starting", "waiting_for_vault"}

\* Never two goroutines drive a boot at once: the compare-and-swap of Retrigger
\* claims the right to spawn, and a loop that published an outcome no longer
\* decides one.  Two drivers would inject clients of different attempts.
SingleDriver == \A l, m \in Drivers : l = m

\* The gate says "starting" or "waiting_for_vault" only while some goroutine is
\* working to leave that state, and a driver is never hidden behind another
\* state.  Without the first part every later Retrigger would be a no-op and the
\* process would hang until a restart.  Shutdown is the one exit that leaves the
\* gate as it is.
GateMatchesDriver ==
    /\ Drivers # {} => state \in Transient
    /\ state \in Transient /\ ~cancelled => Drivers # {}

\* Behind an active gate the three services use clients of one and the same boot
\* attempt, together with the Vault bundle that attempt fetched, although
\* bootOnce injects them one at a time and failed attempts leave some behind.
ActiveMeansCoherent ==
    state = "active" =>
        /\ bundle # NoAttempt
        /\ \A k \in Kinds : deps[k] = bundle

\* Every open connection has an owner that will use or close it: it is injected,
\* waiting for its delayed Close, or a local of the attempt that dialled it.
NoConnectionLeak == open = Wired \union doomed \union Held

\* The delayed Close of a replaced client never hits the client that replaced
\* it: whatever the services hold is open and stays so.
WiredStaysOpen == Wired \subseteq open \ doomed

\* No failing attempt, replacement or delayed Close loses a connection, and none
\* closes one in use.
ConnectionsAreKept == NoConnectionLeak /\ WiredStaysOpen

\* Behind an active gate nothing exchanges a client or the bundle, so a tool call
\* that passed the gate and finds it still active used one generation.  Only a
\* claim by Retrigger makes changes possible again.
ActiveIsFrozen ==
    [][state = "active" => UNCHANGED <<deps, bundle>>]_vars

\* With dependencies that recover, every boot ends: the gate reaches active or
\* dormant, unless the process shuts down or config.json cannot be parsed.
BootSettles ==
    (state \in Transient) ~>
        \/ state \in {"active", "dormant"}
        \/ cancelled
        \/ config.file \in {"empty", "garbled"}

\* After shutdown every boot goroutine ends, even one that is retrying against
\* dead dependencies, and none is left once the last Retrigger was absorbed.
ShutdownStopsBoot == cancelled ~> [](\A l \in Loops : pc[l] = "idle")
=============================================================================
