----------------------- MODULE RunedActivationProofs -----------------------
(***************************************************************************)
(* Theorems of RunedActivation, for any number of processes and calls.     *)
(*                                                                         *)
(* NoRedundantLaunch is not inductive: it does not say who may launch next.  *)
(* What keeps the next one from launching is the lock, held from the second *)
(* probe until the launched runed shows.                                   *)
(***************************************************************************)
EXTENDS RunedActivation, FiniteSetTheorems, TLAPS

-----------------------------------------------------------------------------
(* The inductive invariant. *)

\* The lock belongs to a call that is in EnsureDaemon and past the lock.
HolderIsPastLock == lock # NoCall => pc[lock] \in {"recheck", "launch", "poll"}

\* Only the call that holds the lock looks again and launches.
OnlyHolderLaunches == \A c \in Calls : pc[c] \in {"recheck", "launch"} => lock = c

\* As long as nobody walked away: a runed that is coming is alone and somebody
\* waits for it with the lock; a call about to launch finds nothing running.
LaunchIsAwaited ==
    ~abandoned =>
        /\ coming <= 1
        /\ Reachable => coming = 0
        /\ coming > 0 => lock # NoCall /\ pc[lock] = "poll"
        /\ \A c \in Calls : pc[c] = "launch" => ~Reachable /\ coming = 0

\* A watcher that polls has not seen too many errors, and none is counted while
\* there is no watcher.
ErrorsAreCounted ==
    \A p \in Procs :
        /\ watcher[p] = "polling" => errors[p] < MaxErrors
        /\ watcher[p] = "none" => errors[p] = 0

SpawnInv ==
    /\ TypeOK
    /\ ErrorsAreCounted
    /\ HolderIsPastLock
    /\ OnlyHolderLaunches
    /\ LaunchIsAwaited

-----------------------------------------------------------------------------
(* Type correctness. *)

LEMMA InitTypeOK == Init => TypeOK
<1> SUFFICES ASSUME Init PROVE TypeOK
  OBVIOUS
<1> USE ActivationAssumption DEF Init
<1>1. /\ runed \in Statuses \union {"down"}
      /\ coming \in 0 .. MaxComing
      /\ lock \in Calls \union {NoCall}
      /\ pc \in [Calls -> PCs]
      /\ gate \in [Procs -> {"booting", "active", "dormant"}]
      /\ watcher \in [Procs -> {"none", "polling", "leaving"}]
      /\ errors \in [Procs -> 0 .. MaxErrors]
      /\ ticks \in [Procs -> 0 .. MaxTicks]
  BY DEF PCs
<1>2. /\ abandoned \in BOOLEAN /\ off \in BOOLEAN
      /\ alive \in [Procs -> BOOLEAN]
      /\ embedder \in [Procs -> BOOLEAN]
      /\ promised \in [Procs -> BOOLEAN]
  BY Zenon
<1> QED
  BY <1>1, <1>2 DEF TypeOK

\* The steps of a call before and after EnsureDaemon's work under the lock.
LEMMA CallTypeOK ==
    ASSUME TypeOK, NEW c \in Calls, Activate(c) \/ CallContinues(c)
    PROVE  TypeOK'
<1>1. Host[c] \in Procs
  BY ActivationAssumption
<1> USE ActivationAssumption, <1>1 DEF TypeOK, PCs, Statuses, Goto
<1>2. CASE Activate(c)
  BY <1>2 DEF Activate, daemon, spawning, watching
<1>3. CASE ProbeSocket(c)
  BY <1>3 DEF ProbeSocket, daemon, spawning, watching
<1>4. CASE TakeLock(c)
  BY <1>4 DEF TakeLock, daemon, watching
<1>5. CASE Recheck(c)
  <2>1. pc' \in [Calls -> PCs]
    BY <1>5 DEF Recheck
  <2>2. abandoned' \in BOOLEAN
    BY <1>5, Zenon DEF Recheck
  <2> QED
    BY <1>5, <2>1, <2>2 DEF Recheck, daemon, watching
<1>6. CASE Launch(c)
  BY <1>6 DEF Launch, spawning, watching
<1>7. CASE LaunchFails(c)
  <2>1. /\ pc' \in [Calls -> PCs]
        /\ lock' \in Calls \union {NoCall}
        /\ coming' \in 0 .. MaxComing
    BY <1>7 DEF LaunchFails, Unlock
  <2>2. abandoned' \in BOOLEAN
    BY <1>7, Zenon DEF LaunchFails
  <2> QED
    BY <1>7, <2>1, <2>2 DEF LaunchFails, watching
<1>8. CASE SocketUp(c)
  BY <1>8 DEF SocketUp, Unlock, daemon, watching
<1>9. CASE PollTimesOut(c)
  BY <1>9 DEF PollTimesOut, Unlock, daemon, watching
<1>10. CASE ProbeBootstrap(c)
  <2>1. pc' \in [Calls -> PCs]
    BY <1>10 DEF ProbeBootstrap
  <2>2. Retrigger(Host[c]) \/ NoRetrigger
    BY <1>10 DEF ProbeBootstrap
  <2>3. /\ gate' \in [Procs -> {"booting", "active", "dormant"}]
        /\ promised' \in [Procs -> BOOLEAN]
    BY <2>2 DEF Retrigger, NoRetrigger
  <2> QED
    BY <1>10, <2>1, <2>3 DEF ProbeBootstrap, daemon, spawning, watching
<1>11. CASE StartWatcher(c)
  BY <1>11 DEF StartWatcher, daemon, spawning
<1>12. CASE Reload(c)
  BY <1>12 DEF Reload, Retrigger, daemon, spawning, watching
<1> QED
  BY <1>2, <1>3, <1>4, <1>5, <1>6, <1>7, <1>8, <1>9, <1>10, <1>11, <1>12
     DEF CallContinues

LEMMA WatcherTypeOK ==
    ASSUME TypeOK, ErrorsAreCounted, NEW p \in Procs, WatcherStep(p)
    PROVE  TypeOK'
<1> USE ActivationAssumption DEF TypeOK, PCs, Statuses, WatcherLeaves
<1>1. CASE WatcherExpires(p)
  BY <1>1 DEF WatcherExpires, WatcherGivesUp, daemon, spawning
<1>2. CASE WatcherSeesStatus(p)
  <2>1. /\ ticks' \in [Procs -> 0 .. MaxTicks]
        /\ errors' \in [Procs -> 0 .. MaxErrors]
    BY <1>2 DEF WatcherSeesStatus
  <2>2. /\ watcher' \in [Procs -> {"none", "polling", "leaving"}]
        /\ gate' \in [Procs -> {"booting", "active", "dormant"}]
        /\ promised' \in [Procs -> BOOLEAN]
    <3>1. CASE NoRetrigger /\ UNCHANGED watcher
      BY <3>1 DEF NoRetrigger
    <3>2. CASE Retrigger(p) /\ WatcherLeaves(p)
      BY <3>2 DEF Retrigger
    <3>3. CASE WatcherGivesUp(p) /\ UNCHANGED gate
      BY <3>3 DEF WatcherGivesUp
    <3> QED
      BY <1>2, <3>1, <3>2, <3>3 DEF WatcherSeesStatus
  <2> QED
    BY <1>2, <2>1, <2>2 DEF WatcherSeesStatus, daemon, spawning
<1>3. CASE WatcherSeesError(p)
  <2>1. errors[p] < MaxErrors
    BY <1>3 DEF WatcherSeesError, ErrorsAreCounted
  <2>2. /\ ticks' \in [Procs -> 0 .. MaxTicks]
        /\ errors' \in [Procs -> 0 .. MaxErrors]
    BY <1>3, <2>1 DEF WatcherSeesError
  <2>3. /\ watcher' \in [Procs -> {"none", "polling", "leaving"}]
        /\ gate' \in [Procs -> {"booting", "active", "dormant"}]
        /\ promised' \in [Procs -> BOOLEAN]
    <3>1. watcher' = watcher \/ WatcherLeaves(p)
      BY <1>3 DEF WatcherSeesError, WatcherGivesUp
    <3>2. \/ Retrigger(p) \/ NoRetrigger
          \/ WatcherGivesUp(p) /\ UNCHANGED gate
      BY <1>3 DEF WatcherSeesError
    <3> QED
      BY <3>1, <3>2 DEF Retrigger, NoRetrigger, WatcherGivesUp
  <2> QED
    BY <1>3, <2>2, <2>3 DEF WatcherSeesError, daemon, spawning
<1>4. CASE WatcherEnds(p)
  BY <1>4 DEF WatcherEnds, NoWatcher, daemon, spawning
<1> QED
  BY <1>1, <1>2, <1>3, <1>4 DEF WatcherStep

LEMMA KillTypeOK ==
    ASSUME TypeOK, NEW p \in Procs, Kill(p)
    PROVE  TypeOK'
<1> USE ActivationAssumption DEF TypeOK, Kill, NoWatcher, PCs
<1>1. pc' \in [Calls -> PCs] /\ lock' \in Calls \union {NoCall}
  OBVIOUS
<1>2. coming' \in 0 .. MaxComing /\ runed' \in Statuses \union {"down"}
  OBVIOUS
<1>3. abandoned' \in BOOLEAN
  BY Zenon
<1> QED
  BY <1>1, <1>2, <1>3

LEMMA NextTypeOK == TypeOK /\ ErrorsAreCounted /\ [Next]_vars => TypeOK'
<1> SUFFICES ASSUME TypeOK, ErrorsAreCounted, [Next]_vars PROVE TypeOK'
  OBVIOUS
<1>1. ASSUME NEW c \in Calls, Activate(c) \/ CallContinues(c) PROVE TypeOK'
  BY <1>1, CallTypeOK
<1>2. ASSUME NEW p \in Procs, WatcherStep(p) PROVE TypeOK'
  BY <1>2, WatcherTypeOK
<1>3. ASSUME NEW p \in Procs, InjectEmbedder(p) \/ BootEnds(p) PROVE TypeOK'
  BY <1>3 DEF TypeOK, InjectEmbedder, BootEnds, daemon, spawning, watching
<1>4. ASSUME NEW p \in Procs, Kill(p) PROVE TypeOK'
  BY <1>4, KillTypeOK
<1>5. CASE Deactivate
  BY <1>5 DEF TypeOK, Deactivate, daemon, spawning, watching
<1>6. CASE RunedComes
  BY <1>6, ActivationAssumption DEF TypeOK, RunedComes, Statuses, spawning, watching
<1>7. CASE RunedChanges
  BY <1>7 DEF TypeOK, RunedChanges, Statuses, spawning, watching
<1>8. CASE UNCHANGED vars
  BY <1>8 DEF TypeOK, vars, daemon, spawning, watching
<1> QED
  BY <1>1, <1>2, <1>3, <1>4, <1>5, <1>6, <1>7, <1>8 DEF Next

-----------------------------------------------------------------------------
(* The watcher's errors. *)

LEMMA NextErrorsAreCounted == TypeOK /\ ErrorsAreCounted /\ [Next]_vars => ErrorsAreCounted'
<1> SUFFICES ASSUME TypeOK, ErrorsAreCounted, [Next]_vars PROVE ErrorsAreCounted'
  OBVIOUS
<1> USE ActivationAssumption DEF TypeOK, ErrorsAreCounted
<1>1. CASE UNCHANGED watching
  BY <1>1 DEF watching
<1>2. ASSUME NEW c \in Calls, StartWatcher(c) PROVE ErrorsAreCounted'
  BY <1>2 DEF StartWatcher
<1>3. ASSUME NEW p \in Procs, WatcherExpires(p) \/ WatcherSeesStatus(p) PROVE ErrorsAreCounted'
  <2>1. /\ errors' = errors \/ errors' = [errors EXCEPT ![p] = 0]
        /\ watcher' = watcher \/ watcher' = [watcher EXCEPT ![p] = "leaving"]
        /\ watcher[p] = "polling"
    BY <1>3 DEF WatcherExpires, WatcherSeesStatus, WatcherGivesUp, WatcherLeaves
  <2> QED BY <2>1
<1>4. ASSUME NEW p \in Procs, WatcherSeesError(p) PROVE ErrorsAreCounted'
  <2>1. /\ errors' = [errors EXCEPT ![p] = @ + 1]
        /\ watcher[p] = "polling"
        /\ \/ watcher' = [watcher EXCEPT ![p] = "leaving"]
           \/ watcher' = watcher /\ errors[p] + 1 < MaxErrors
    BY <1>4 DEF WatcherSeesError, WatcherGivesUp, WatcherLeaves
  <2> QED BY <2>1
<1>5. ASSUME NEW p \in Procs, WatcherEnds(p) \/ Kill(p) PROVE ErrorsAreCounted'
  BY <1>5 DEF WatcherEnds, Kill, NoWatcher
<1>6. ASSUME NEW c \in Calls, Activate(c) \/ CallContinues(c), ~StartWatcher(c)
      PROVE  UNCHANGED watching
  BY <1>6 DEF CallContinues, Activate, ProbeSocket, TakeLock, Recheck, Launch, LaunchFails,
      SocketUp, PollTimesOut, ProbeBootstrap, Reload
<1>7. ASSUME NEW p \in Procs, InjectEmbedder(p) \/ BootEnds(p) PROVE UNCHANGED watching
  BY <1>7 DEF InjectEmbedder, BootEnds
<1>8. ASSUME Deactivate \/ RunedComes \/ RunedChanges \/ UNCHANGED vars
      PROVE  UNCHANGED watching
  BY <1>8 DEF Deactivate, RunedComes, RunedChanges, vars
<1> QED
  BY <1>1, <1>2, <1>3, <1>4, <1>5, <1>6, <1>7, <1>8 DEF Next, WatcherStep

-----------------------------------------------------------------------------
(* The launch. *)

\* What the rest of the system does to the launch: nothing.
LEMMA OthersDoNotSpawn ==
    ASSUME NEW p \in Procs,
           WatcherStep(p) \/ InjectEmbedder(p) \/ BootEnds(p) \/ Deactivate \/ UNCHANGED vars
    PROVE  UNCHANGED <<daemon, spawning, pc>>
BY DEF WatcherStep, WatcherExpires, WatcherSeesStatus, WatcherSeesError, WatcherEnds,
    InjectEmbedder, BootEnds, Deactivate, vars

\* A call that is not under way in EnsureDaemon, or only gets near it.
LEMMA OutsideLock ==
    ASSUME TypeOK, HolderIsPastLock, OnlyHolderLaunches, LaunchIsAwaited,
           NEW c \in Calls, UNCHANGED <<daemon, spawning>>,
           pc[c] \notin {"recheck", "launch", "poll"},
           NEW to \in PCs \ {"recheck", "launch"}, Goto(c, to)
    PROVE  HolderIsPastLock' /\ OnlyHolderLaunches' /\ LaunchIsAwaited'
<1> USE DEF TypeOK, Goto, daemon, spawning, HolderIsPastLock, OnlyHolderLaunches
<1>1. lock # c
  BY ActivationAssumption
<1>2. \A d \in Calls \ {c} : pc'[d] = pc[d]
  OBVIOUS
<1>3. HolderIsPastLock' /\ OnlyHolderLaunches'
  BY <1>1, <1>2
<1>4. LaunchIsAwaited'
  BY <1>1, <1>2 DEF LaunchIsAwaited, Reachable
<1> QED
  BY <1>3, <1>4

LEMMA CallSpawns ==
    ASSUME TypeOK, HolderIsPastLock, OnlyHolderLaunches, LaunchIsAwaited,
           NEW c \in Calls, Activate(c) \/ CallContinues(c)
    PROVE  HolderIsPastLock' /\ OnlyHolderLaunches' /\ LaunchIsAwaited'
<1> DEFINE Safe == HolderIsPastLock /\ OnlyHolderLaunches /\ LaunchIsAwaited
<1> SUFFICES Safe'
  OBVIOUS
<1>1. CASE Activate(c) \/ ProbeSocket(c) \/ ProbeBootstrap(c) \/ StartWatcher(c) \/ Reload(c)
  <2>1. /\ UNCHANGED <<daemon, spawning>>
        /\ pc[c] \in {"idle", "probe", "health", "watch", "reload"}
        /\ \E to \in PCs \ {"recheck", "launch"} : Goto(c, to)
    BY <1>1 DEF Activate, ProbeSocket, ProbeBootstrap, StartWatcher, Reload, PCs
  <2> QED
    BY <2>1, OutsideLock
<1>2. CASE TakeLock(c)
  <2>1. CASE lock = NoCall /\ lock' = c /\ Goto(c, "recheck")
    <3>1. ~abandoned => coming = 0
      BY <2>1 DEF LaunchIsAwaited, TypeOK
    <3>2. \A d \in Calls : pc[d] \notin {"recheck", "launch"}
      BY <2>1, ActivationAssumption DEF OnlyHolderLaunches
    <3> QED
      BY <1>2, <2>1, <3>1, <3>2 DEF TakeLock, TypeOK, Goto, daemon, HolderIsPastLock,
          OnlyHolderLaunches, LaunchIsAwaited, Reachable
  <2>2. CASE UNCHANGED lock /\ \E to \in {"poll", "idle"} : Goto(c, to)
    BY <1>2, <2>2, OutsideLock DEF TakeLock, PCs, spawning
  <2> QED
    BY <1>2, <2>1, <2>2 DEF TakeLock
<1>3. CASE Recheck(c)
  <2>1. lock = c /\ UNCHANGED <<daemon, lock>> /\ pc[c] = "recheck"
    BY <1>3 DEF Recheck, OnlyHolderLaunches
  <2>2. ~abandoned => coming = 0
    BY <2>1 DEF LaunchIsAwaited, TypeOK
  <2>3. PICK to \in {"poll", "launch"} : Goto(c, to)
    BY <1>3 DEF Recheck
  <2>4. ~abandoned' => ~abandoned
    BY <1>3, Zenon DEF Recheck
  <2>5. ~abandoned' => to = "poll" \/ ~Reachable
    <3>1. CASE Goto(c, "poll")
      BY <2>3, <3>1 DEF Goto, TypeOK
    <3>2. CASE abandoned' = (abandoned \/ Reachable)
      BY <3>2, Zenon
    <3> QED
      BY <1>3, <3>1, <3>2 DEF Recheck
  <2>6. HolderIsPastLock' /\ OnlyHolderLaunches'
    BY <2>1, <2>3 DEF TypeOK, Goto, HolderIsPastLock, OnlyHolderLaunches
  <2>7. LaunchIsAwaited'
    BY <2>1, <2>2, <2>3, <2>4, <2>5 DEF TypeOK, Goto, daemon, OnlyHolderLaunches,
       LaunchIsAwaited, Reachable
  <2> QED
    BY <2>6, <2>7
<1>4. CASE Launch(c)
  <2>1. lock = c /\ \A d \in Calls \ {c} : pc[d] \notin {"recheck", "launch"}
    BY <1>4 DEF Launch, OnlyHolderLaunches
  <2> QED
    BY <1>4, <2>1, ActivationAssumption DEF Launch, TypeOK, Goto, spawning,
        HolderIsPastLock, OnlyHolderLaunches, LaunchIsAwaited, Reachable
<1>5. CASE LaunchFails(c)
  <2>1. lock = c /\ \A d \in Calls \ {c} : pc[d] \notin {"recheck", "launch"}
    BY <1>5 DEF LaunchFails, OnlyHolderLaunches
  <2> QED
    BY <1>5, <2>1 DEF LaunchFails, Unlock, TypeOK, Goto, HolderIsPastLock,
        OnlyHolderLaunches, LaunchIsAwaited, Reachable
<1>6. CASE SocketUp(c) \/ PollTimesOut(c)
  <2>1. /\ pc[c] = "poll"
        /\ UNCHANGED daemon
        /\ Unlock(c)
        /\ \E to \in {"health", "idle"} : Goto(c, to)
    BY <1>6 DEF SocketUp, PollTimesOut
  <2>2. ~abandoned' => ~abandoned
    BY <1>6, Zenon DEF SocketUp, PollTimesOut
  <2>3. ~abandoned' /\ lock = c => coming = 0
    <3>1. CASE SocketUp(c)
      BY <2>2, <3>1 DEF SocketUp, LaunchIsAwaited
    <3>2. CASE PollTimesOut(c)
      <4>1. ~abandoned' /\ lock = c => ~(coming > 0)
        BY <3>2, Zenon DEF PollTimesOut
      <4> QED
        BY <4>1 DEF TypeOK
    <3> QED
      BY <1>6, <3>1, <3>2
  <2>4. \A d \in Calls : pc'[d] \in {"recheck", "launch", "poll"} => d # c /\ pc'[d] = pc[d]
    BY <2>1 DEF Goto, TypeOK
  <2>5. \A d \in Calls \ {c} : pc'[d] = pc[d]
    BY <2>1 DEF Goto, TypeOK
  <2>6. HolderIsPastLock' /\ OnlyHolderLaunches'
    BY <2>1, <2>4, <2>5 DEF Unlock, HolderIsPastLock, OnlyHolderLaunches, TypeOK
  <2>7. LaunchIsAwaited'
    BY <2>1, <2>4, <2>5, <2>2, <2>3 DEF Unlock, LaunchIsAwaited, Reachable, daemon, TypeOK
  <2> QED
    BY <2>6, <2>7
<1> QED
  BY <1>1, <1>2, <1>3, <1>4, <1>5, <1>6 DEF CallContinues

\* A killed process drops the lock; the runed it was waiting for is abandoned.
LEMMA KillSpawns ==
    ASSUME TypeOK, HolderIsPastLock, OnlyHolderLaunches, LaunchIsAwaited,
           NEW p \in Procs, Kill(p)
    PROVE  HolderIsPastLock' /\ OnlyHolderLaunches' /\ LaunchIsAwaited'
<1> DEFINE mine == {c \in Calls : Host[c] = p}
<1>1. /\ lock' = IF lock \in mine THEN NoCall ELSE lock
      /\ pc' = [c \in Calls |-> IF c \in mine THEN "idle" ELSE pc[c]]
      /\ runed' = runed
      /\ \/ coming' = coming
         \/ coming' = coming + 1 /\ \E c \in mine : pc[c] = "launch"
  BY DEF Kill
<1>2. abandoned' = (abandoned \/ (lock \in mine /\ coming' > 0))
  BY Zenon DEF Kill
<1>3. ~abandoned' => ~abandoned /\ (lock \in mine => ~(coming' > 0))
  BY <1>2, Zenon
<1>4. lock \notin mine => coming' = coming
  BY <1>1 DEF OnlyHolderLaunches
<1>5. lock \in mine /\ ~abandoned' => coming' = 0
  BY <1>1, <1>3 DEF TypeOK
<1> HIDE DEF mine
<1>6. \A c \in Calls : pc'[c] \in {"recheck", "launch", "poll"} => c \notin mine /\ pc'[c] = pc[c]
  BY <1>1
<1>7. \A c \in Calls \ mine : pc'[c] = pc[c]
  BY <1>1
<1>8. HolderIsPastLock'
  BY <1>1, <1>7 DEF HolderIsPastLock, TypeOK
<1>9. OnlyHolderLaunches'
  BY <1>1, <1>6 DEF OnlyHolderLaunches
<1>10. LaunchIsAwaited'
  <2> SUFFICES ASSUME ~abandoned' PROVE LaunchIsAwaited'
    BY DEF LaunchIsAwaited
  <2>1. CASE lock \in mine
    <3>1. \A c \in Calls : pc'[c] # "launch"
      BY <1>6, <2>1 DEF OnlyHolderLaunches
    <3> QED
      BY <1>5, <2>1, <3>1 DEF LaunchIsAwaited
  <2>2. CASE lock \notin mine
    BY <1>1, <1>3, <1>4, <1>6, <1>7, <2>2 DEF LaunchIsAwaited, Reachable, TypeOK
  <2> QED
    BY <2>1, <2>2
<1> QED
  BY <1>8, <1>9, <1>10

\* runed binds the socket, dies or changes.
LEMMA RunedSpawns ==
    ASSUME TypeOK, HolderIsPastLock, OnlyHolderLaunches, LaunchIsAwaited,
           RunedComes \/ RunedChanges
    PROVE  HolderIsPastLock' /\ OnlyHolderLaunches' /\ LaunchIsAwaited'
<1>1. UNCHANGED <<spawning, pc>>
  BY DEF RunedComes, RunedChanges
<1>2. HolderIsPastLock' /\ OnlyHolderLaunches'
  BY <1>1 DEF spawning, HolderIsPastLock, OnlyHolderLaunches
<1>3. ASSUME RunedComes PROVE LaunchIsAwaited'
  BY <1>1, <1>3 DEF RunedComes, spawning, LaunchIsAwaited, Reachable, TypeOK
<1>4. ASSUME RunedChanges PROVE LaunchIsAwaited'
  BY <1>1, <1>4 DEF RunedChanges, spawning, LaunchIsAwaited, Reachable, TypeOK
<1> QED
  BY <1>2, <1>3, <1>4

LEMMA InitSpawnInv == Init => SpawnInv
<1> SUFFICES ASSUME Init PROVE SpawnInv
  OBVIOUS
<1>1. TypeOK
  BY InitTypeOK
<1>2. ErrorsAreCounted
  BY ActivationAssumption DEF Init, ErrorsAreCounted
<1>3. HolderIsPastLock /\ OnlyHolderLaunches
  BY DEF Init, HolderIsPastLock, OnlyHolderLaunches
<1>4. LaunchIsAwaited
  BY DEF Init, LaunchIsAwaited, Reachable
<1> QED
  BY <1>1, <1>2, <1>3, <1>4 DEF SpawnInv

LEMMA NextSpawnInv == SpawnInv /\ [Next]_vars => SpawnInv'
<1> SUFFICES ASSUME SpawnInv, [Next]_vars PROVE SpawnInv'
  OBVIOUS
<1>1. TypeOK' /\ ErrorsAreCounted'
  BY NextTypeOK, NextErrorsAreCounted DEF SpawnInv
<1> DEFINE Safe == HolderIsPastLock /\ OnlyHolderLaunches /\ LaunchIsAwaited
<1>2. TypeOK /\ Safe
  BY DEF SpawnInv
<1>3. ASSUME NEW c \in Calls, Activate(c) \/ CallContinues(c) PROVE Safe'
  BY <1>2, <1>3, CallSpawns
<1>4. ASSUME NEW p \in Procs, Kill(p) PROVE Safe'
  BY <1>2, <1>4, KillSpawns
<1>5. ASSUME RunedComes \/ RunedChanges PROVE Safe'
  BY <1>2, <1>5, RunedSpawns
<1>6. ASSUME UNCHANGED <<daemon, spawning, pc>> PROVE Safe'
  BY <1>2, <1>6 DEF daemon, spawning, HolderIsPastLock, OnlyHolderLaunches,
     LaunchIsAwaited, Reachable
<1>7. ASSUME NEW p \in Procs, WatcherStep(p) \/ InjectEmbedder(p) \/ BootEnds(p) PROVE Safe'
  BY <1>6, <1>7, OthersDoNotSpawn
<1>8. ASSUME Deactivate \/ UNCHANGED vars PROVE Safe'
  BY <1>6, <1>8 DEF Deactivate, vars
<1>9. Safe'
  BY <1>3, <1>4, <1>5, <1>7, <1>8 DEF Next
<1> QED
  BY <1>1, <1>9 DEF SpawnInv

-----------------------------------------------------------------------------
(* The theorems. *)

\* The invariant keeps launches apart: who launches holds the lock, and nothing
\* is coming then.
LEMMA SpawnInvSuffices == SpawnInv => NoRedundantLaunch
<1> SUFFICES ASSUME SpawnInv, ~abandoned
             PROVE  /\ coming <= 1
                    /\ Reachable => coming = 0
                    /\ Cardinality({c \in Calls : pc[c] = "launch"}) + coming <= 1
  BY DEF NoRedundantLaunch
<1> DEFINE launching == {c \in Calls : pc[c] = "launch"}
<1>1. coming \in {0, 1} /\ (Reachable => coming = 0)
  BY ActivationAssumption DEF SpawnInv, LaunchIsAwaited, TypeOK
<1>2. CASE launching = {}
  BY <1>1, <1>2, FS_EmptySet
<1>3. CASE launching # {}
  <2>1. PICK c \in Calls : pc[c] = "launch"
    BY <1>3
  <2>2. launching = {c} /\ coming = 0
    BY <2>1 DEF SpawnInv, OnlyHolderLaunches, LaunchIsAwaited
  <2>3. Cardinality(launching) = 1
    BY <2>2, FS_Singleton
  <2> QED
    BY <1>1, <2>2, <2>3
<1> QED
  BY <1>2, <1>3

\* TypeOK holds in every reachable state: in particular a watcher never counts
\* past bootstrapWatcherMaxErrors or its deadline.
THEOREM ActivationTypeCorrect == Spec => []TypeOK
<1>1. SpawnInv => TypeOK
  BY DEF SpawnInv
<1> QED
  BY <1>1, InitSpawnInv, NextSpawnInv, PTL DEF Spec

\* EnsureDaemon launches no second runed while one runs, starts or is being
\* launched, as long as no launcher walked away from one that is still starting or
\* took one that is up for dead.
THEOREM LaunchIsNotRedundant == Spec => []NoRedundantLaunch
BY InitSpawnInv, NextSpawnInv, SpawnInvSuffices, PTL DEF Spec

=============================================================================
