------------------------ MODULE BootLifecycleProofs ------------------------
(* Theorems of BootLifecycle, for any number of loops, calls and attempts. *)
EXTENDS BootInvariants, TLAPS

-----------------------------------------------------------------------------
(* The contents of config.json. *)

LEMMA ConfigValues ==
    /\ ZeroConfig \in Config
    /\ Empty \in Config
    /\ Garbled \in Config
    /\ Missing \in Config
BY DEF ZeroConfig, Empty, Garbled, Missing, Config, FileKind, FileState, Reason

\* What a writer of config.json prepares from a readable or unreadable content is
\* a content again.
LEMMA DraftsAreConfigs ==
    ASSUME NEW c \in Config
    PROVE  /\ LoadOrFresh(c) \in Config
           /\ \A r \in Reason : Marked(c, r) \in Config
           /\ Cleared(c) \in Config
           /\ BootReason(c) \in Reason
<1>1. LoadOrFresh(c) \in Config
  BY ConfigValues DEF LoadOrFresh
<1>2. ASSUME NEW r \in Reason PROVE Marked(c, r) \in Config
  BY <1>1 DEF Marked, Config, FileState
<1>3. Cleared(c) \in Config
  BY DEF Cleared, Config, FileState, Reason
<1>4. BootReason(c) \in Reason
  BY DEF BootReason, Config, Reason, FileKind, FileState
<1> QED BY <1>1, <1>2, <1>3, <1>4

LEMMA ConfiguredIsConfig ==
    ASSUME NEW k \in Creds
    PROVE  Configured(k) \in Config
BY DEF Configured, ZeroConfig, Config, FileKind, FileState, Reason

-----------------------------------------------------------------------------
(* Type correctness. *)

LEMMA InitTypeOK == Init => TypeOK
<1> SUFFICES ASSUME Init PROVE TypeOK
  OBVIOUS
<1> USE DEF Init
<1>1. config \in Config /\ ZeroConfig \in Config
  BY BootAssumption, ConfigValues
<1>2. pc \in [Loops -> LoopPCs]
  BY DEF LoopPCs, DrivingPCs
<1>3. tpc \in [Calls -> CallPCs]
  BY DEF CallPCs
<1> QED
  BY <1>1, <1>2, <1>3 DEF TypeOK, States, BootErrors, Clients

\* DialVault without the set of unused identities.
LEMMA DialVaultEffect ==
    ASSUME NEW l \in Loops, DialVault(l)
    PROVE  /\ pc[l] = "decide"
           /\ pc' = [pc EXCEPT ![l] = "manifest"]
           /\ UNCHANGED <<state, lastBootErr, cancelled, config, draft, seen,
                          deps, bundle, doomed, tpc>>
           /\ \E n \in Attempts :
                 /\ Unused(n)
                 /\ own' = [own EXCEPT ![l] = n]
                 /\ madeWith' = [madeWith EXCEPT ![n] = seen[l].creds]
                 /\ open' = open \union {<<"vault", n>>}
<1>1. /\ pc[l] = "decide"
      /\ pc' = [pc EXCEPT ![l] = "manifest"]
      /\ UNCHANGED <<state, lastBootErr, cancelled, config, draft, seen,
                     deps, bundle, doomed, tpc>>
  BY Zenon DEF DialVault, Goto, gate, file
<1>2. PICK n \in {m \in Attempts : Unused(m)} :
          /\ own' = [own EXCEPT ![l] = n]
          /\ madeWith' = [madeWith EXCEPT ![n] = seen[l].creds]
          /\ open' = open \union {<<"vault", n>>}
  BY Zenon DEF DialVault
<1>3. n \in Attempts /\ Unused(n)
  BY Zenon
<1> QED
  BY <1>1, <1>2, <1>3, Zenon

LEMMA NextTypeOK == TypeOK /\ OwnsAttempt /\ [Next]_vars => TypeOK'
<1> SUFFICES ASSUME TypeOK, OwnsAttempt, [Next]_vars PROVE TypeOK'
  OBVIOUS
<1> USE DEF TypeOK, gate, file, adapters
<1>1. ASSUME NEW l \in Loops, StartLoop(l) PROVE TypeOK'
  BY <1>1 DEF StartLoop, Goto, LoopPCs, DrivingPCs, States
<1>2. ASSUME NEW l \in Loops, LoopCancelled(l) PROVE TypeOK'
  BY <1>2 DEF LoopCancelled, Goto, LoopPCs
<1>3. ASSUME NEW l \in Loops, LoadConfig(l) PROVE TypeOK'
  BY <1>3, ConfigValues DEF LoadConfig, Goto, Fail, Forget, LoopPCs, DrivingPCs,
      BootErrors
<1>4. ASSUME NEW l \in Loops, EnterDormant(l) PROVE TypeOK'
  BY <1>4 DEF EnterDormant, Goto, LoopPCs, DrivingPCs, TailPCs, States
<1>5. ASSUME NEW l \in Loops, NoteDormant(l) PROVE TypeOK'
  BY <1>5 DEF NoteDormant, Goto, LoopPCs, TailPCs, BootErrors
<1>6. ASSUME NEW l \in Loops, MarkDormant(l) PROVE TypeOK'
  <2>1. Marked(config, BootReason(seen[l])) \in Config
    BY DraftsAreConfigs
  <2> QED
    BY <1>6, <2>1, ConfigValues DEF MarkDormant, Goto, Forget, LoopPCs, TailPCs
<1>7. ASSUME NEW l \in Loops, TruncateConfig(l) PROVE TypeOK'
  BY <1>7, ConfigValues DEF TruncateConfig, Goto, LoopPCs, TailPCs
<1>8. ASSUME NEW l \in Loops, WriteConfig(l) PROVE TypeOK'
  BY <1>8, ConfigValues DEF WriteConfig, Goto, Forget, LoopPCs, WriteOutcomes
<1>9. ASSUME NEW l \in Loops, DialVault(l) PROVE TypeOK'
  <2>1. PICK n \in Attempts :
            /\ own' = [own EXCEPT ![l] = n]
            /\ madeWith' = [madeWith EXCEPT ![n] = seen[l].creds]
            /\ open' = open \union {<<"vault", n>>}
    BY <1>9, DialVaultEffect
  <2>2. seen[l].creds \in Creds \union {NoCreds}
    BY DEF Config
  <2>3. open' \subseteq Clients
    BY <2>1 DEF Clients, Kinds
  <2> QED
    BY <1>9, DialVaultEffect, <2>1, <2>2, <2>3 DEF LoopPCs, DrivingPCs
<1>10. ASSUME NEW l \in Loops, DialVaultFails(l) PROVE TypeOK'
  BY <1>10, ConfigValues DEF DialVaultFails, Goto, Fail, Forget, LoopPCs, DrivingPCs, TailPCs, States, BootErrors
<1>11. ASSUME NEW l \in Loops, ManifestArrives(l) PROVE TypeOK'
  BY <1>11 DEF ManifestArrives, Goto, LoopPCs, DrivingPCs
<1>12. ASSUME NEW l \in Loops, ManifestFails(l) PROVE TypeOK'
  BY <1>12, ConfigValues DEF ManifestFails, Goto, Fail, Forget, LoopPCs, DrivingPCs,
      States, BootErrors
<1>13. ASSUME NEW l \in Loops, WireVault(l) PROVE TypeOK'
  BY <1>13 DEF WireVault, Goto, Inject, LoopPCs, DrivingPCs, Clients, Kinds
<1>14. ASSUME NEW l \in Loops, SaveKeysFails(l) PROVE TypeOK'
  BY <1>14, ConfigValues DEF SaveKeysFails, Goto, Fail, Forget, LoopPCs, DrivingPCs,
      BootErrors
<1>15. ASSUME NEW l \in Loops, WireEmbedder(l) PROVE TypeOK'
  BY <1>15 DEF WireEmbedder, Goto, Inject, LoopPCs, DrivingPCs, Clients, Kinds,
      OwnsAttempt, AttemptPCs
<1>16. ASSUME NEW l \in Loops, EmbedderFails(l) PROVE TypeOK'
  BY <1>16, ConfigValues DEF EmbedderFails, Goto, Fail, Forget, LoopPCs, DrivingPCs,
      BootErrors
<1>17. ASSUME NEW l \in Loops, DialEnvector(l) PROVE TypeOK'
  BY <1>17 DEF DialEnvector, Goto, LoopPCs, DrivingPCs, Clients, Kinds, OwnsAttempt,
      AttemptPCs
<1>18. ASSUME NEW l \in Loops, DialEnvectorFails(l) PROVE TypeOK'
  BY <1>18, ConfigValues DEF DialEnvectorFails, Goto, Fail, Forget, LoopPCs,
      DrivingPCs, BootErrors
<1>19. ASSUME NEW l \in Loops, WireEnvector(l) PROVE TypeOK'
  BY <1>19 DEF WireEnvector, Goto, Inject, LoopPCs, DrivingPCs, Clients, Kinds
<1>20. ASSUME NEW l \in Loops, OpenIndexFails(l) PROVE TypeOK'
  BY <1>20, ConfigValues DEF OpenIndexFails, Goto, Fail, Forget, LoopPCs,
      DrivingPCs, BootErrors
<1>21. ASSUME NEW l \in Loops, EnterActive(l) PROVE TypeOK'
  BY <1>21, ConfigValues DEF EnterActive, Goto, Forget, LoopPCs, TailPCs, States
<1>22. ASSUME NEW l \in Loops, ClearBootError(l) PROVE TypeOK'
  BY <1>22 DEF ClearBootError, Goto, LoopPCs, BootErrors
<1>23. ASSUME NEW l \in Loops, WakeUp(l) PROVE TypeOK'
  BY <1>23 DEF WakeUp, Goto, LoopPCs, DrivingPCs
<1>24. ASSUME NEW c \in Calls, Configure(c) PROVE TypeOK'
  BY <1>24, ConfiguredIsConfig DEF Configure, CallGoto, CallPCs
<1>25. ASSUME NEW c \in Calls, Activate(c) PROVE TypeOK'
  BY <1>25 DEF Activate, CallGoto, CallPCs
<1>26. ASSUME NEW c \in Calls, ClearDormant(c) PROVE TypeOK'
  BY <1>26, ConfigValues, DraftsAreConfigs DEF ClearDormant, CallGoto, Reply,
      CallPCs
<1>27. ASSUME NEW c \in Calls, CallTruncates(c) PROVE TypeOK'
  BY <1>27, ConfigValues DEF CallTruncates, CallGoto, CallPCs
<1>28. ASSUME NEW c \in Calls, CallWrites(c) \/ CallWriteFails(c) PROVE TypeOK'
  BY <1>28, ConfigValues DEF CallWrites, CallWriteFails, CallGoto, Reply, CallPCs, WriteOutcomes
<1>29. ASSUME NEW c \in Calls, DaemonCheck(c) PROVE TypeOK'
  BY <1>29, ConfigValues DEF DaemonCheck, CallGoto, Reply, CallPCs
<1>30. ASSUME NEW c \in Calls, ReloadPipelines(c) PROVE TypeOK'
  BY <1>30 DEF ReloadPipelines, CallGoto, CallPCs
<1>31. ASSUME NEW c \in Calls, Reload(c) PROVE TypeOK'
  BY <1>31 DEF Reload, CallGoto, Retrigger, CallPCs, Goto, LoopPCs, DrivingPCs,
      States
<1>32. ASSUME NEW c \in Calls, ReloadReplies(c) PROVE TypeOK'
  BY <1>32, ConfigValues DEF ReloadReplies, CallGoto, Reply, CallPCs
<1>33. ASSUME NEW client \in Clients, CloseStale(client) PROVE TypeOK'
  BY <1>33 DEF CloseStale
<1>34. CASE BackgroundRetrigger
  BY <1>34 DEF BackgroundRetrigger, Retrigger, Goto, LoopPCs, DrivingPCs, States
<1>35. CASE Shutdown
  BY <1>35 DEF Shutdown
<1>36. CASE Deactivate
  BY <1>36 DEF Deactivate, Config, FileState, Reason
<1>37. CASE UNCHANGED vars
  BY <1>37 DEF vars
<1> QED
  BY <1>1, <1>2, <1>3, <1>4, <1>5, <1>6, <1>7, <1>8, <1>9, <1>10, <1>11, <1>12,
      <1>13, <1>14, <1>15, <1>16, <1>17, <1>18, <1>19, <1>20, <1>21, <1>22, <1>23,
      <1>24, <1>25, <1>26, <1>27, <1>28, <1>29, <1>30, <1>31, <1>32, <1>33, <1>34,
      <1>35, <1>36, <1>37 DEF Next, LoopStep, LoopSucceeds, LoopFails, LoopRuns,
      CallStep, CallContinues

-----------------------------------------------------------------------------
(* What steps do to the attempts. *)

\* A tool call step that is not a retrigger touches neither gate nor clients.
CallKeepsGate(c) ==
    \/ Configure(c) \/ Activate(c) \/ ReloadPipelines(c) \/ ClearDormant(c)
    \/ CallTruncates(c) \/ CallWrites(c) \/ CallWriteFails(c) \/ DaemonCheck(c)
    \/ ReloadReplies(c)

LEMMA CallSteps ==
    ASSUME NEW c \in Calls, CallStep(c)
    PROVE  CallKeepsGate(c) \/ Reload(c)
BY Zenon DEF CallStep, CallContinues, CallKeepsGate

LEMMA CallKeepsGateEffect ==
    ASSUME NEW c \in Calls, CallKeepsGate(c)
    PROVE  UNCHANGED <<state, lastBootErr, cancelled, pc, own, madeWith, deps, bundle, open, doomed>>
<1> USE Zenon DEF gate, adapters
<1>1. CASE Configure(c)
  BY <1>1 DEF Configure
<1>2. CASE Activate(c)
  BY <1>2 DEF Activate
<1>3. CASE ReloadPipelines(c)
  BY <1>3 DEF ReloadPipelines
<1>4. CASE ClearDormant(c)
  BY <1>4 DEF ClearDormant
<1>5. CASE CallTruncates(c)
  BY <1>5 DEF CallTruncates
<1>6. CASE CallWrites(c) \/ CallWriteFails(c)
  BY <1>6 DEF CallWrites, CallWriteFails
<1>7. CASE DaemonCheck(c)
  BY <1>7 DEF DaemonCheck
<1>8. CASE ReloadReplies(c)
  BY <1>8 DEF ReloadReplies
<1> QED
  BY <1>1, <1>2, <1>3, <1>4, <1>5, <1>6, <1>7, <1>8 DEF CallKeepsGate

\* No attempt, client or connection is touched.
AttemptsRest == UNCHANGED <<pc, own, deps, bundle, open, doomed>>

\* A loop that makes no attempt goes on without making one.
OutsideAttempt(l) ==
    /\ pc[l] \notin AttemptPCs
    /\ \E to \in LoopPCs \ AttemptPCs : pc' = [pc EXCEPT ![l] = to]
    /\ own' = own \/ own' = [own EXCEPT ![l] = NoAttempt]
    /\ UNCHANGED <<deps, bundle, open, doomed>>

\* The steps of an attempt.
AttemptStep(l) ==
    \/ DialVault(l) \/ ManifestArrives(l) \/ ManifestFails(l)
    \/ WireVault(l) \/ SaveKeysFails(l)
    \/ WireEmbedder(l) \/ EmbedderFails(l)
    \/ DialEnvector(l) \/ DialEnvectorFails(l) \/ WireEnvector(l) \/ OpenIndexFails(l)
    \/ EnterActive(l)

LEMMA RetriggerEffect ==
    ASSUME Retrigger, UNCHANGED <<own, deps, bundle, open, doomed>>
    PROVE  AttemptsRest \/ \E l \in Loops : OutsideAttempt(l)
<1>1. CASE state \in {"active", "dormant"}
  <2>1. PICK l \in Loops : pc[l] = "idle" /\ pc' = [pc EXCEPT ![l] = "spawned"]
    BY <1>1 DEF Retrigger, Goto
  <2>2. OutsideAttempt(l)
    BY <2>1 DEF OutsideAttempt, AttemptPCs, LoopPCs, DrivingPCs
  <2> QED
    BY <2>2
<1>2. CASE state \notin {"active", "dormant"}
  BY <1>2 DEF Retrigger, AttemptsRest
<1> QED
  BY <1>1, <1>2

LEMMA StepCases ==
    ASSUME [Next]_vars
    PROVE  \/ AttemptsRest
           \/ \E l \in Loops : OutsideAttempt(l) \/ AttemptStep(l)
           \/ \E client \in Clients : CloseStale(client)
<1> USE DEF gate, file, adapters
<1>1. ASSUME NEW l \in Loops, StartLoop(l) PROVE OutsideAttempt(l)
  BY <1>1 DEF StartLoop, Goto, OutsideAttempt, AttemptPCs, LoopPCs, DrivingPCs, TailPCs
<1>2. ASSUME NEW l \in Loops, LoopCancelled(l) PROVE OutsideAttempt(l)
  BY <1>2 DEF LoopCancelled, Goto, OutsideAttempt, AttemptPCs, LoopPCs, DrivingPCs, TailPCs
<1>3. ASSUME NEW l \in Loops, LoadConfig(l) PROVE OutsideAttempt(l)
  BY <1>3 DEF LoadConfig, Goto, Fail, Forget, OutsideAttempt, AttemptPCs, LoopPCs,
      DrivingPCs
<1>4. ASSUME NEW l \in Loops, EnterDormant(l) PROVE OutsideAttempt(l)
  BY <1>4 DEF EnterDormant, Goto, OutsideAttempt, AttemptPCs, LoopPCs, DrivingPCs, TailPCs
<1>5. ASSUME NEW l \in Loops, NoteDormant(l) PROVE OutsideAttempt(l)
  BY <1>5 DEF NoteDormant, Goto, OutsideAttempt, AttemptPCs, LoopPCs, DrivingPCs, TailPCs
<1>6. ASSUME NEW l \in Loops, MarkDormant(l) PROVE OutsideAttempt(l)
  BY <1>6 DEF MarkDormant, Goto, Forget, OutsideAttempt, AttemptPCs, LoopPCs,
      TailPCs
<1>7. ASSUME NEW l \in Loops, TruncateConfig(l) PROVE OutsideAttempt(l)
  BY <1>7 DEF TruncateConfig, Goto, OutsideAttempt, AttemptPCs, LoopPCs, DrivingPCs, TailPCs
<1>8. ASSUME NEW l \in Loops, WriteConfig(l) PROVE OutsideAttempt(l)
  BY <1>8 DEF WriteConfig, Goto, Forget, OutsideAttempt, AttemptPCs, LoopPCs, DrivingPCs, TailPCs
<1>9. ASSUME NEW l \in Loops, DialVaultFails(l) PROVE OutsideAttempt(l)
  BY <1>9 DEF DialVaultFails, Goto, Fail, Forget, OutsideAttempt, AttemptPCs, LoopPCs, DrivingPCs, TailPCs
<1>10. ASSUME NEW l \in Loops, ClearBootError(l) PROVE OutsideAttempt(l)
  BY <1>10 DEF ClearBootError, Goto, OutsideAttempt, AttemptPCs, LoopPCs, DrivingPCs, TailPCs
<1>11. ASSUME NEW l \in Loops, WakeUp(l) PROVE OutsideAttempt(l)
  BY <1>11 DEF WakeUp, Goto, OutsideAttempt, AttemptPCs, LoopPCs, DrivingPCs, TailPCs
<1>12. ASSUME NEW c \in Calls, CallStep(c)
      PROVE  AttemptsRest \/ \E l \in Loops : OutsideAttempt(l)
  <2>1. CASE CallKeepsGate(c)
    BY <2>1, CallKeepsGateEffect DEF AttemptsRest
  <2>2. CASE Reload(c)
    BY <2>2, RetriggerEffect DEF Reload
  <2> QED
    BY <1>12, <2>1, <2>2, CallSteps
<1>13. CASE BackgroundRetrigger
  BY <1>13, RetriggerEffect DEF BackgroundRetrigger
<1>14. CASE Shutdown \/ Deactivate \/ UNCHANGED vars
  BY <1>14 DEF Shutdown, Deactivate, AttemptsRest, vars
<1> QED
  BY <1>1, <1>2, <1>3, <1>4, <1>5, <1>6, <1>7, <1>8, <1>9, <1>10, <1>11, <1>12,
      <1>13, <1>14 DEF Next, LoopStep, LoopSucceeds, LoopFails, LoopRuns,
      AttemptStep

-----------------------------------------------------------------------------
(* Attempts and what they injected. *)

LEMMA NextOwnsAttempt ==
    TypeOK /\ OwnsAttempt /\ [Next]_vars => OwnsAttempt'
<1> SUFFICES ASSUME TypeOK, OwnsAttempt, [Next]_vars PROVE OwnsAttempt'
  OBVIOUS
<1>1. CASE AttemptsRest
  BY <1>1 DEF AttemptsRest, OwnsAttempt
<1>2. ASSUME NEW l \in Loops, OutsideAttempt(l) PROVE OwnsAttempt'
  BY <1>2 DEF OutsideAttempt, TypeOK, OwnsAttempt
<1>3. ASSUME NEW l \in Loops, DialVault(l) PROVE OwnsAttempt'
  BY <1>3, DialVaultEffect DEF TypeOK, OwnsAttempt, AttemptPCs
<1>4. ASSUME NEW l \in Loops, ManifestArrives(l) PROVE OwnsAttempt'
  BY <1>4 DEF ManifestArrives, Goto, OwnsAttempt, AttemptPCs
<1>5. ASSUME NEW l \in Loops, ManifestFails(l) PROVE OwnsAttempt'
  BY <1>5, BootAssumption DEF ManifestFails, Goto, Fail, Forget, TypeOK,
      OwnsAttempt, AttemptPCs
<1>6. ASSUME NEW l \in Loops, WireVault(l) PROVE OwnsAttempt'
  BY <1>6 DEF WireVault, Goto, OwnsAttempt, AttemptPCs
<1>7. ASSUME NEW l \in Loops, SaveKeysFails(l) PROVE OwnsAttempt'
  BY <1>7, BootAssumption DEF SaveKeysFails, Goto, Fail, Forget, TypeOK,
      OwnsAttempt, AttemptPCs
<1>8. ASSUME NEW l \in Loops, WireEmbedder(l) PROVE OwnsAttempt'
  BY <1>8 DEF WireEmbedder, Goto, OwnsAttempt, AttemptPCs
<1>9. ASSUME NEW l \in Loops, EmbedderFails(l) PROVE OwnsAttempt'
  BY <1>9, BootAssumption DEF EmbedderFails, Goto, Fail, Forget, TypeOK,
      OwnsAttempt, AttemptPCs
<1>10. ASSUME NEW l \in Loops, DialEnvector(l) PROVE OwnsAttempt'
  BY <1>10 DEF DialEnvector, Goto, OwnsAttempt, AttemptPCs
<1>11. ASSUME NEW l \in Loops, DialEnvectorFails(l) PROVE OwnsAttempt'
  BY <1>11, BootAssumption DEF DialEnvectorFails, Goto, Fail, Forget, TypeOK,
      OwnsAttempt, AttemptPCs
<1>12. ASSUME NEW l \in Loops, WireEnvector(l) PROVE OwnsAttempt'
  BY <1>12 DEF WireEnvector, Goto, OwnsAttempt, AttemptPCs
<1>13. ASSUME NEW l \in Loops, OpenIndexFails(l) PROVE OwnsAttempt'
  BY <1>13, BootAssumption DEF OpenIndexFails, Goto, Fail, Forget, TypeOK,
      OwnsAttempt, AttemptPCs
<1>14. ASSUME NEW l \in Loops, EnterActive(l) PROVE OwnsAttempt'
  BY <1>14, BootAssumption DEF EnterActive, Goto, Forget, TypeOK, OwnsAttempt,
      AttemptPCs
<1>15. ASSUME NEW client \in Clients, CloseStale(client) PROVE OwnsAttempt'
  BY <1>15 DEF CloseStale, OwnsAttempt
<1> QED
  BY <1>1, <1>2, <1>3, <1>4, <1>5, <1>6, <1>7, <1>8, <1>9, <1>10, <1>11, <1>12,
      <1>13, <1>14, <1>15, StepCases DEF AttemptStep

LEMMA NextInjectedStays ==
    TypeOK /\ OwnsAttempt /\ SingleDriver /\ InjectedStays /\ [Next]_vars =>
        InjectedStays'
<1> SUFFICES ASSUME TypeOK, OwnsAttempt, SingleDriver, InjectedStays, [Next]_vars
    PROVE InjectedStays'
  OBVIOUS
<1>1. CASE AttemptsRest
  BY <1>1 DEF AttemptsRest, InjectedStays
<1>2. ASSUME NEW l \in Loops, OutsideAttempt(l) PROVE InjectedStays'
  BY <1>2 DEF OutsideAttempt, InjectedStays, TypeOK
<1>3. ASSUME NEW l \in Loops, DialVault(l) PROVE InjectedStays'
  BY <1>3, DialVaultEffect DEF TypeOK, InjectedStays
<1>4. ASSUME NEW l \in Loops, ManifestArrives(l) PROVE InjectedStays'
  BY <1>4 DEF ManifestArrives, Goto, SingleDriver, Drivers, Driving, DrivingPCs,
      AttemptPCs, InjectedStays
<1>5. ASSUME NEW l \in Loops, ManifestFails(l) PROVE InjectedStays'
  BY <1>5 DEF ManifestFails, Goto, Fail, Forget, AttemptPCs, InjectedStays
<1>6. ASSUME NEW l \in Loops, WireVault(l) PROVE InjectedStays'
  BY <1>6 DEF WireVault, Goto, Inject, TypeOK, SingleDriver, Drivers, Driving,
      DrivingPCs, AttemptPCs, InjectedStays, ToInject, Kinds
<1>7. ASSUME NEW l \in Loops, SaveKeysFails(l) PROVE InjectedStays'
  BY <1>7 DEF SaveKeysFails, Goto, Fail, Forget, AttemptPCs, InjectedStays
<1>8. ASSUME NEW l \in Loops, WireEmbedder(l) PROVE InjectedStays'
  BY <1>8 DEF WireEmbedder, Goto, Inject, TypeOK, AttemptPCs, InjectedStays,
      ToInject
<1>9. ASSUME NEW l \in Loops, EmbedderFails(l) PROVE InjectedStays'
  BY <1>9 DEF EmbedderFails, Goto, Fail, TypeOK, SingleDriver, Drivers, Driving,
      DrivingPCs, AttemptPCs, InjectedStays
<1>10. ASSUME NEW l \in Loops, DialEnvector(l) PROVE InjectedStays'
  BY <1>10 DEF DialEnvector, Goto, AttemptPCs, InjectedStays, ToInject
<1>11. ASSUME NEW l \in Loops, DialEnvectorFails(l) PROVE InjectedStays'
  BY <1>11 DEF DialEnvectorFails, Goto, Fail, TypeOK, SingleDriver, Drivers,
      Driving, DrivingPCs, AttemptPCs, InjectedStays
<1>12. ASSUME NEW l \in Loops, WireEnvector(l) PROVE InjectedStays'
  BY <1>12 DEF WireEnvector, Goto, Inject, TypeOK, AttemptPCs, InjectedStays,
      ToInject
<1>13. ASSUME NEW l \in Loops, OpenIndexFails(l) PROVE InjectedStays'
  BY <1>13 DEF OpenIndexFails, Goto, Fail, Forget, TypeOK, AttemptPCs, InjectedStays
<1>14. ASSUME NEW l \in Loops, EnterActive(l) PROVE InjectedStays'
  BY <1>14 DEF EnterActive, Goto, TypeOK, SingleDriver, Drivers, Driving,
      DrivingPCs, AttemptPCs, InjectedStays
<1>15. ASSUME NEW client \in Clients, CloseStale(client) PROVE InjectedStays'
  BY <1>15 DEF CloseStale, InjectedStays
<1> QED
  BY <1>1, <1>2, <1>3, <1>4, <1>5, <1>6, <1>7, <1>8, <1>9, <1>10, <1>11, <1>12,
      <1>13, <1>14, <1>15, StepCases DEF AttemptStep

-----------------------------------------------------------------------------
(* Who drives, and what the gate says of it. *)

GateDriven == SingleDriver /\ GateMatchesDriver

LEMMA NextGateDriven ==
    TypeOK /\ GateDriven /\ [Next]_vars => GateDriven'
<1> SUFFICES ASSUME TypeOK, GateDriven, [Next]_vars PROVE GateDriven'
  OBVIOUS
<1>1. ASSUME NEW l \in Loops, StartLoop(l) PROVE GateDriven'
  BY <1>1 DEF StartLoop, Goto, GateDriven, SingleDriver, GateMatchesDriver, Drivers,
      Driving, DrivingPCs, Transient
<1>2. ASSUME NEW l \in Loops, LoopCancelled(l) PROVE GateDriven'
  BY <1>2 DEF LoopCancelled, Goto, TypeOK, GateDriven, SingleDriver,
      GateMatchesDriver, Drivers, Driving, DrivingPCs
<1>3. ASSUME NEW l \in Loops, LoadConfig(l) PROVE GateDriven'
  BY <1>3 DEF LoadConfig, Goto, Fail, TypeOK, GateDriven, SingleDriver,
      GateMatchesDriver, Drivers, Driving, DrivingPCs
<1>4. ASSUME NEW l \in Loops, EnterDormant(l) PROVE GateDriven'
  BY <1>4 DEF EnterDormant, Goto, TypeOK, GateDriven, SingleDriver,
      GateMatchesDriver, Drivers, Driving, DrivingPCs, Transient, States, gate,
      file, adapters
<1>5. ASSUME NEW l \in Loops, NoteDormant(l) PROVE GateDriven'
  BY <1>5 DEF NoteDormant, Goto, GateDriven, SingleDriver, GateMatchesDriver,
      Drivers, Driving, DrivingPCs
<1>6. ASSUME NEW l \in Loops, MarkDormant(l) PROVE GateDriven'
  BY <1>6 DEF MarkDormant, Goto, TypeOK, GateDriven, SingleDriver,
      GateMatchesDriver, Drivers, Driving, DrivingPCs, gate
<1>7. ASSUME NEW l \in Loops, TruncateConfig(l) PROVE GateDriven'
  BY <1>7 DEF TruncateConfig, Goto, GateDriven, SingleDriver, GateMatchesDriver,
      Drivers, Driving, DrivingPCs, gate
<1>8. ASSUME NEW l \in Loops, WriteConfig(l) PROVE GateDriven'
  BY <1>8 DEF WriteConfig, Goto, GateDriven, SingleDriver, GateMatchesDriver,
      Drivers, Driving, DrivingPCs, gate
<1>9. ASSUME NEW l \in Loops, DialVault(l) PROVE GateDriven'
  BY <1>9, DialVaultEffect DEF TypeOK, GateDriven, SingleDriver, GateMatchesDriver,
      Drivers, Driving, DrivingPCs
<1>10. ASSUME NEW l \in Loops, DialVaultFails(l) PROVE GateDriven'
  BY <1>10 DEF DialVaultFails, Goto, Fail, Forget, TypeOK, GateDriven, SingleDriver,
      GateMatchesDriver, Drivers, Driving, DrivingPCs, Transient, States, gate,
      file, adapters
<1>11. ASSUME NEW l \in Loops, ManifestArrives(l) PROVE GateDriven'
  BY <1>11 DEF ManifestArrives, Goto, GateDriven, SingleDriver, GateMatchesDriver,
      Drivers, Driving, DrivingPCs, gate
<1>12. ASSUME NEW l \in Loops, ManifestFails(l) PROVE GateDriven'
  BY <1>12 DEF ManifestFails, Goto, Fail, GateDriven, SingleDriver,
      GateMatchesDriver, Drivers, Driving, DrivingPCs, Transient
<1>13. ASSUME NEW l \in Loops, WireVault(l) PROVE GateDriven'
  BY <1>13 DEF WireVault, Goto, GateDriven, SingleDriver, GateMatchesDriver,
      Drivers, Driving, DrivingPCs, gate
<1>14. ASSUME NEW l \in Loops, SaveKeysFails(l) PROVE GateDriven'
  BY <1>14 DEF SaveKeysFails, Goto, Fail, GateDriven, SingleDriver,
      GateMatchesDriver, Drivers, Driving, DrivingPCs
<1>15. ASSUME NEW l \in Loops, WireEmbedder(l) PROVE GateDriven'
  BY <1>15 DEF WireEmbedder, Goto, GateDriven, SingleDriver, GateMatchesDriver,
      Drivers, Driving, DrivingPCs, gate
<1>16. ASSUME NEW l \in Loops, EmbedderFails(l) PROVE GateDriven'
  BY <1>16 DEF EmbedderFails, Goto, Fail, GateDriven, SingleDriver,
      GateMatchesDriver, Drivers, Driving, DrivingPCs
<1>17. ASSUME NEW l \in Loops, DialEnvector(l) PROVE GateDriven'
  BY <1>17 DEF DialEnvector, Goto, GateDriven, SingleDriver, GateMatchesDriver,
      Drivers, Driving, DrivingPCs, gate
<1>18. ASSUME NEW l \in Loops, DialEnvectorFails(l) PROVE GateDriven'
  BY <1>18 DEF DialEnvectorFails, Goto, Fail, GateDriven, SingleDriver,
      GateMatchesDriver, Drivers, Driving, DrivingPCs
<1>19. ASSUME NEW l \in Loops, WireEnvector(l) PROVE GateDriven'
  BY <1>19 DEF WireEnvector, Goto, GateDriven, SingleDriver, GateMatchesDriver,
      Drivers, Driving, DrivingPCs, gate
<1>20. ASSUME NEW l \in Loops, OpenIndexFails(l) PROVE GateDriven'
  BY <1>20 DEF OpenIndexFails, Goto, Fail, GateDriven, SingleDriver,
      GateMatchesDriver, Drivers, Driving, DrivingPCs
<1>21. ASSUME NEW l \in Loops, EnterActive(l) PROVE GateDriven'
  BY <1>21 DEF EnterActive, Goto, TypeOK, GateDriven, SingleDriver,
      GateMatchesDriver, Drivers, Driving, DrivingPCs, Transient
<1>22. ASSUME NEW l \in Loops, ClearBootError(l) PROVE GateDriven'
  BY <1>22 DEF ClearBootError, Goto, GateDriven, SingleDriver, GateMatchesDriver,
      Drivers, Driving, DrivingPCs
<1>23. ASSUME NEW l \in Loops, WakeUp(l) PROVE GateDriven'
  BY <1>23 DEF WakeUp, Goto, GateDriven, SingleDriver, GateMatchesDriver, Drivers,
      Driving, DrivingPCs, gate
<1>24. ASSUME NEW c \in Calls, CallKeepsGate(c) PROVE GateDriven'
  BY <1>24, CallKeepsGateEffect DEF GateDriven, SingleDriver, GateMatchesDriver,
      Drivers, Driving
<1>25. ASSUME NEW c \in Calls, Reload(c) PROVE GateDriven'
  BY <1>25 DEF Reload, Retrigger, Goto, TypeOK, GateDriven, SingleDriver,
      GateMatchesDriver, Drivers, Driving, DrivingPCs, Transient
<1>26. ASSUME NEW client \in Clients, CloseStale(client) PROVE GateDriven'
  BY <1>26 DEF CloseStale, GateDriven, SingleDriver, GateMatchesDriver, Drivers,
      Driving, gate
<1>27. CASE BackgroundRetrigger
  BY <1>27 DEF BackgroundRetrigger, Retrigger, Goto, TypeOK, GateDriven,
      SingleDriver, GateMatchesDriver, Drivers, Driving, DrivingPCs, Transient
<1>28. CASE Shutdown
  BY <1>28 DEF Shutdown, GateDriven, SingleDriver, GateMatchesDriver, Drivers,
      Driving, gate
<1>29. CASE Deactivate
  BY <1>29 DEF Deactivate, GateDriven, SingleDriver, GateMatchesDriver, Drivers,
      Driving, gate
<1>30. CASE UNCHANGED vars
  BY <1>30 DEF vars, GateDriven, SingleDriver, GateMatchesDriver, Drivers, Driving,
      gate
<1> QED
  BY <1>1, <1>2, <1>3, <1>4, <1>5, <1>6, <1>7, <1>8, <1>9, <1>10, <1>11, <1>12,
      <1>13, <1>14, <1>15, <1>16, <1>17, <1>18, <1>19, <1>20, <1>21, <1>22, <1>23,
      <1>24, <1>25, <1>26, <1>27, <1>28, <1>29, <1>30, CallSteps
  DEF Next, LoopStep, LoopSucceeds, LoopFails, LoopRuns

\* What a step can do to the gate and to the clients behind it.
StepShape ==
    \/ state \in Transient /\ state' \in Transient
    \/ /\ UNCHANGED <<deps, bundle>>
       /\ \/ state' = state
          \/ /\ state \in Transient
             /\ state' = "active"
             /\ bundle \in Attempts
             /\ \A k \in Kinds : deps[k] = bundle
          \/ state \in Transient /\ state' = "dormant"
          \/ state \in {"active", "dormant"} /\ state' = "starting"

LEMMA NextStepShape ==
    TypeOK /\ OwnsAttempt /\ GateMatchesDriver /\ InjectedStays /\ [Next]_vars =>
        StepShape
<1> SUFFICES ASSUME TypeOK, OwnsAttempt, GateMatchesDriver, InjectedStays,
    [Next]_vars PROVE StepShape
  OBVIOUS
<1>1. ASSUME NEW l \in Loops, StartLoop(l) PROVE StepShape
  BY <1>1 DEF StartLoop, GateMatchesDriver, Drivers, Driving, DrivingPCs, Transient,
      StepShape
<1>2. ASSUME NEW l \in Loops, LoopCancelled(l) PROVE StepShape
  BY <1>2 DEF LoopCancelled, GateMatchesDriver, Drivers, Driving, DrivingPCs,
      StepShape, gate
<1>3. ASSUME NEW l \in Loops, LoadConfig(l) PROVE StepShape
  BY <1>3 DEF LoadConfig, GateMatchesDriver, Drivers, Driving, DrivingPCs, StepShape
<1>4. ASSUME NEW l \in Loops, EnterDormant(l) PROVE StepShape
  BY <1>4 DEF EnterDormant, Goto, TypeOK, OwnsAttempt, GateMatchesDriver, Drivers,
      Driving, DrivingPCs, Transient, States, AttemptPCs, InjectedStays, ToInject,
      StepShape, gate, file, adapters
<1>5. ASSUME NEW l \in Loops, NoteDormant(l) PROVE StepShape
  BY <1>5 DEF NoteDormant, StepShape, adapters
<1>6. ASSUME NEW l \in Loops, MarkDormant(l) PROVE StepShape
  BY <1>6 DEF MarkDormant, StepShape, gate, adapters
<1>7. ASSUME NEW l \in Loops, TruncateConfig(l) PROVE StepShape
  BY <1>7 DEF TruncateConfig, StepShape, gate, adapters
<1>8. ASSUME NEW l \in Loops, WriteConfig(l) PROVE StepShape
  BY <1>8 DEF WriteConfig, StepShape, gate, adapters
<1>9. ASSUME NEW l \in Loops, DialVault(l) PROVE StepShape
  BY <1>9, DialVaultEffect DEF TypeOK, StepShape
<1>10. ASSUME NEW l \in Loops, DialVaultFails(l) PROVE StepShape
  BY <1>10 DEF DialVaultFails, Goto, Fail, Forget, TypeOK, OwnsAttempt,
      GateMatchesDriver, Drivers, Driving, DrivingPCs, Transient, States,
      AttemptPCs, InjectedStays, ToInject, StepShape, gate, file, adapters
<1>11. ASSUME NEW l \in Loops, ManifestArrives(l) PROVE StepShape
  BY <1>11 DEF ManifestArrives, GateMatchesDriver, Drivers, Driving, DrivingPCs,
      StepShape, gate
<1>12. ASSUME NEW l \in Loops, ManifestFails(l) PROVE StepShape
  BY <1>12 DEF ManifestFails, GateMatchesDriver, Drivers, Driving, DrivingPCs,
      Transient, StepShape
<1>13. ASSUME NEW l \in Loops, WireVault(l) PROVE StepShape
  BY <1>13 DEF WireVault, GateMatchesDriver, Drivers, Driving, DrivingPCs,
      StepShape, gate
<1>14. ASSUME NEW l \in Loops, SaveKeysFails(l) PROVE StepShape
  BY <1>14 DEF SaveKeysFails, StepShape
<1>15. ASSUME NEW l \in Loops, WireEmbedder(l) PROVE StepShape
  BY <1>15 DEF WireEmbedder, GateMatchesDriver, Drivers, Driving, DrivingPCs,
      StepShape, gate
<1>16. ASSUME NEW l \in Loops, EmbedderFails(l) PROVE StepShape
  BY <1>16 DEF EmbedderFails, GateMatchesDriver, Drivers, Driving, DrivingPCs,
      StepShape
<1>17. ASSUME NEW l \in Loops, DialEnvector(l) PROVE StepShape
  BY <1>17 DEF DialEnvector, StepShape, gate
<1>18. ASSUME NEW l \in Loops, DialEnvectorFails(l) PROVE StepShape
  BY <1>18 DEF DialEnvectorFails, GateMatchesDriver, Drivers, Driving, DrivingPCs,
      StepShape
<1>19. ASSUME NEW l \in Loops, WireEnvector(l) PROVE StepShape
  BY <1>19 DEF WireEnvector, GateMatchesDriver, Drivers, Driving, DrivingPCs,
      StepShape, gate
<1>20. ASSUME NEW l \in Loops, OpenIndexFails(l) PROVE StepShape
  BY <1>20 DEF OpenIndexFails, StepShape
<1>21. ASSUME NEW l \in Loops, EnterActive(l) PROVE StepShape
  BY <1>21 DEF EnterActive, OwnsAttempt, GateMatchesDriver, Drivers, Driving,
      DrivingPCs, AttemptPCs, InjectedStays, ToInject, StepShape, adapters
<1>22. ASSUME NEW l \in Loops, ClearBootError(l) PROVE StepShape
  BY <1>22 DEF ClearBootError, StepShape, adapters
<1>23. ASSUME NEW l \in Loops, WakeUp(l) PROVE StepShape
  BY <1>23 DEF WakeUp, GateMatchesDriver, Drivers, Driving, DrivingPCs, StepShape,
      gate
<1>24. ASSUME NEW c \in Calls, CallKeepsGate(c) PROVE StepShape
  BY <1>24, CallKeepsGateEffect DEF StepShape
<1>25. ASSUME NEW c \in Calls, Reload(c) PROVE StepShape
  BY <1>25 DEF Reload, Retrigger, StepShape, adapters
<1>26. ASSUME NEW client \in Clients, CloseStale(client) PROVE StepShape
  BY <1>26 DEF CloseStale, StepShape, gate
<1>27. CASE BackgroundRetrigger
  BY <1>27 DEF BackgroundRetrigger, Retrigger, StepShape, adapters
<1>28. CASE Shutdown
  BY <1>28 DEF Shutdown, StepShape, gate, adapters
<1>29. CASE Deactivate
  BY <1>29 DEF Deactivate, StepShape, gate, adapters
<1>30. CASE UNCHANGED vars
  BY <1>30 DEF vars, StepShape, gate, adapters
<1> QED
  BY <1>1, <1>2, <1>3, <1>4, <1>5, <1>6, <1>7, <1>8, <1>9, <1>10, <1>11, <1>12,
      <1>13, <1>14, <1>15, <1>16, <1>17, <1>18, <1>19, <1>20, <1>21, <1>22, <1>23,
      <1>24, <1>25, <1>26, <1>27, <1>28, <1>29, <1>30, CallSteps
  DEF Next, LoopStep, LoopSucceeds, LoopFails, LoopRuns

LEMMA NextActiveMeansCoherent ==
    StepShape /\ TypeOK /\ ActiveMeansCoherent => ActiveMeansCoherent'
BY BootAssumption DEF StepShape, ActiveMeansCoherent, Transient

-----------------------------------------------------------------------------
(* Connections. *)

LEMMA NextFreshAttempt ==
    TypeOK /\ OwnsAttempt /\ SingleDriver /\ NoConnectionLeak /\ FreshAttempt /\
        [Next]_vars => FreshAttempt'
<1> SUFFICES ASSUME TypeOK, OwnsAttempt, SingleDriver, NoConnectionLeak,
    FreshAttempt, [Next]_vars PROVE FreshAttempt'
  OBVIOUS
<1>1. CASE AttemptsRest
  BY <1>1 DEF AttemptsRest, FreshAttempt
<1>2. ASSUME NEW l \in Loops, OutsideAttempt(l) PROVE FreshAttempt'
  BY <1>2 DEF OutsideAttempt, FreshAttempt, TypeOK
<1>3. ASSUME NEW l \in Loops, DialVault(l) PROVE FreshAttempt'
  <2>1. PICK n \in Attempts : Unused(n) /\ own' = [own EXCEPT ![l] = n]
    BY <1>3, DialVaultEffect
  <2>2. /\ pc[l] = "decide"
        /\ pc' = [pc EXCEPT ![l] = "manifest"]
        /\ UNCHANGED <<deps, doomed>>
    BY <1>3, DialVaultEffect
  <2>3. \A k \in Kinds : deps[k] # n /\ <<k, n>> \notin doomed
    BY <2>1 DEF Unused, NoConnectionLeak
  <2>4. pc'[l] = "manifest" /\ own'[l] = n
    BY <2>1, <2>2 DEF TypeOK
  <2>5. ASSUME NEW m \in Loops, m # l
        PROVE  pc'[m] = pc[m] /\ own'[m] = own[m]
    BY <2>1, <2>2, <2>5 DEF TypeOK
  <2>6. ToInject("manifest") = Kinds
    BY DEF ToInject
  <2> QED
    BY <2>2, <2>3, <2>4, <2>5, <2>6 DEF FreshAttempt
<1>4. ASSUME NEW l \in Loops, ManifestArrives(l) PROVE FreshAttempt'
  BY <1>4 DEF ManifestArrives, Goto, AttemptPCs, ToInject, adapters, FreshAttempt
<1>5. ASSUME NEW l \in Loops, ManifestFails(l) PROVE FreshAttempt'
  BY <1>5 DEF ManifestFails, Goto, Fail, Forget, TypeOK, AttemptPCs, FreshAttempt
<1>6. ASSUME NEW l \in Loops, WireVault(l) PROVE FreshAttempt'
  BY <1>6 DEF WireVault, Goto, Inject, TypeOK, SingleDriver, Drivers, Driving,
      DrivingPCs, AttemptPCs, ToInject, Kinds, FreshAttempt
<1>7. ASSUME NEW l \in Loops, SaveKeysFails(l) PROVE FreshAttempt'
  BY <1>7 DEF SaveKeysFails, Goto, Fail, Forget, TypeOK, AttemptPCs, FreshAttempt
<1>8. ASSUME NEW l \in Loops, WireEmbedder(l) PROVE FreshAttempt'
  BY <1>8 DEF WireEmbedder, Goto, Inject, TypeOK, SingleDriver, Drivers, Driving,
      DrivingPCs, AttemptPCs, ToInject, FreshAttempt
<1>9. ASSUME NEW l \in Loops, EmbedderFails(l) PROVE FreshAttempt'
  BY <1>9 DEF EmbedderFails, Goto, Fail, TypeOK, SingleDriver, Drivers, Driving,
      DrivingPCs, AttemptPCs, FreshAttempt
<1>10. ASSUME NEW l \in Loops, DialEnvector(l) PROVE FreshAttempt'
  BY <1>10 DEF DialEnvector, Goto, AttemptPCs, ToInject, FreshAttempt
<1>11. ASSUME NEW l \in Loops, DialEnvectorFails(l) PROVE FreshAttempt'
  BY <1>11 DEF DialEnvectorFails, Goto, Fail, TypeOK, SingleDriver, Drivers,
      Driving, DrivingPCs, AttemptPCs, FreshAttempt
<1>12. ASSUME NEW l \in Loops, WireEnvector(l) PROVE FreshAttempt'
  BY <1>12 DEF WireEnvector, Goto, TypeOK, SingleDriver, Drivers, Driving,
      DrivingPCs, ToInject, FreshAttempt
<1>13. ASSUME NEW l \in Loops, OpenIndexFails(l) PROVE FreshAttempt'
  BY <1>13 DEF OpenIndexFails, Goto, Fail, Forget, TypeOK, AttemptPCs, FreshAttempt
<1>14. ASSUME NEW l \in Loops, EnterActive(l) PROVE FreshAttempt'
  BY <1>14 DEF EnterActive, Goto, TypeOK, SingleDriver, Drivers, Driving,
      DrivingPCs, AttemptPCs, FreshAttempt
<1>15. ASSUME NEW client \in Clients, CloseStale(client) PROVE FreshAttempt'
  BY <1>15 DEF CloseStale, FreshAttempt
<1> QED
  BY <1>1, <1>2, <1>3, <1>4, <1>5, <1>6, <1>7, <1>8, <1>9, <1>10, <1>11, <1>12,
      <1>13, <1>14, <1>15, StepCases DEF AttemptStep

LEMMA NextWiredStaysOpen ==
    TypeOK /\ OwnsAttempt /\ SingleDriver /\ NoConnectionLeak /\ FreshAttempt /\
        WiredStaysOpen /\ [Next]_vars => WiredStaysOpen'
<1> SUFFICES ASSUME TypeOK, OwnsAttempt, SingleDriver, NoConnectionLeak,
    FreshAttempt, WiredStaysOpen, [Next]_vars PROVE WiredStaysOpen'
  OBVIOUS
<1>1. CASE AttemptsRest
  BY <1>1 DEF AttemptsRest, WiredStaysOpen, Wired
<1>2. ASSUME NEW l \in Loops, OutsideAttempt(l) PROVE WiredStaysOpen'
  BY <1>2 DEF OutsideAttempt, WiredStaysOpen, Wired
<1>3. ASSUME NEW l \in Loops, DialVault(l) PROVE WiredStaysOpen'
  BY <1>3, DialVaultEffect DEF TypeOK, WiredStaysOpen, Wired
<1>4. ASSUME NEW l \in Loops, ManifestArrives(l) PROVE WiredStaysOpen'
  BY <1>4 DEF ManifestArrives, adapters, WiredStaysOpen, Wired
<1>5. ASSUME NEW l \in Loops, ManifestFails(l) PROVE WiredStaysOpen'
  BY <1>5 DEF ManifestFails, TypeOK, OwnsAttempt, ToInject, FreshAttempt,
      WiredStaysOpen, Wired
<1>6. ASSUME NEW l \in Loops, WireVault(l) PROVE WiredStaysOpen'
  BY <1>6 DEF WireVault, Inject, TypeOK, OwnsAttempt, ToInject, NoConnectionLeak,
      FreshAttempt, WiredStaysOpen, Wired, Held
<1>7. ASSUME NEW l \in Loops, SaveKeysFails(l) PROVE WiredStaysOpen'
  BY <1>7 DEF SaveKeysFails, TypeOK, OwnsAttempt, ToInject, FreshAttempt,
      WiredStaysOpen, Wired
<1>8. ASSUME NEW l \in Loops, WireEmbedder(l) PROVE WiredStaysOpen'
  BY <1>8 DEF WireEmbedder, Inject, TypeOK, OwnsAttempt, ToInject, FreshAttempt,
      WiredStaysOpen, Wired
<1>9. ASSUME NEW l \in Loops, EmbedderFails(l) PROVE WiredStaysOpen'
  BY <1>9 DEF EmbedderFails, adapters, WiredStaysOpen, Wired
<1>10. ASSUME NEW l \in Loops, DialEnvector(l) PROVE WiredStaysOpen'
  BY <1>10 DEF DialEnvector, WiredStaysOpen, Wired
<1>11. ASSUME NEW l \in Loops, DialEnvectorFails(l) PROVE WiredStaysOpen'
  BY <1>11 DEF DialEnvectorFails, adapters, WiredStaysOpen, Wired
<1>12. ASSUME NEW l \in Loops, WireEnvector(l) PROVE WiredStaysOpen'
  BY <1>12 DEF WireEnvector, Inject, TypeOK, OwnsAttempt, ToInject,
      NoConnectionLeak, FreshAttempt, WiredStaysOpen, Wired, Held
<1>13. ASSUME NEW l \in Loops, OpenIndexFails(l) PROVE WiredStaysOpen'
  BY <1>13 DEF OpenIndexFails, TypeOK, OwnsAttempt, ToInject, FreshAttempt,
      WiredStaysOpen, Wired
<1>14. ASSUME NEW l \in Loops, EnterActive(l) PROVE WiredStaysOpen'
  BY <1>14 DEF EnterActive, adapters, WiredStaysOpen, Wired
<1>15. ASSUME NEW client \in Clients, CloseStale(client) PROVE WiredStaysOpen'
  BY <1>15 DEF CloseStale, WiredStaysOpen, Wired
<1> QED
  BY <1>1, <1>2, <1>3, <1>4, <1>5, <1>6, <1>7, <1>8, <1>9, <1>10, <1>11, <1>12,
      <1>13, <1>14, <1>15, StepCases DEF AttemptStep

LEMMA NextNoConnectionLeak ==
    TypeOK /\ OwnsAttempt /\ SingleDriver /\ FreshAttempt /\ WiredStaysOpen /\
        NoConnectionLeak /\ [Next]_vars => NoConnectionLeak'
<1> SUFFICES ASSUME TypeOK, OwnsAttempt, SingleDriver, FreshAttempt, WiredStaysOpen,
    NoConnectionLeak, [Next]_vars PROVE NoConnectionLeak'
  OBVIOUS
<1>1. CASE AttemptsRest
  BY <1>1 DEF AttemptsRest, NoConnectionLeak, Wired, Held
<1>2. ASSUME NEW l \in Loops, OutsideAttempt(l) PROVE NoConnectionLeak'
  BY <1>2 DEF OutsideAttempt, NoConnectionLeak, Wired, Held, TypeOK, AttemptPCs
<1>3. ASSUME NEW l \in Loops, DialVault(l) PROVE NoConnectionLeak'
  BY <1>3, DialVaultEffect DEF TypeOK, WiredStaysOpen, NoConnectionLeak, Wired, Held
<1>4. ASSUME NEW l \in Loops, ManifestArrives(l) PROVE NoConnectionLeak'
  BY <1>4 DEF ManifestArrives, Goto, adapters, NoConnectionLeak, Wired, Held
<1>5. ASSUME NEW l \in Loops, ManifestFails(l) PROVE NoConnectionLeak'
  BY <1>5 DEF ManifestFails, Goto, Fail, TypeOK, SingleDriver, Drivers, Driving,
      DrivingPCs, AttemptPCs, ToInject, Kinds, FreshAttempt, NoConnectionLeak,
      Wired, Held
<1>6. ASSUME NEW l \in Loops, WireVault(l) PROVE NoConnectionLeak'
  BY <1>6, BootAssumption DEF WireVault, Goto, Inject, TypeOK, OwnsAttempt,
      AttemptPCs, Kinds, NoConnectionLeak, Wired, Held
<1>7. ASSUME NEW l \in Loops, SaveKeysFails(l) PROVE NoConnectionLeak'
  BY <1>7 DEF SaveKeysFails, Goto, Fail, TypeOK, SingleDriver, Drivers, Driving,
      DrivingPCs, AttemptPCs, ToInject, Kinds, FreshAttempt, NoConnectionLeak,
      Wired, Held
<1>8. ASSUME NEW l \in Loops, WireEmbedder(l) PROVE NoConnectionLeak'
  BY <1>8, BootAssumption DEF WireEmbedder, Goto, Inject, TypeOK, OwnsAttempt,
      AttemptPCs, Kinds, NoConnectionLeak, Wired, Held
<1>9. ASSUME NEW l \in Loops, EmbedderFails(l) PROVE NoConnectionLeak'
  BY <1>9 DEF EmbedderFails, Goto, Fail, Forget, adapters, NoConnectionLeak, Wired,
      Held
<1>10. ASSUME NEW l \in Loops, DialEnvector(l) PROVE NoConnectionLeak'
  BY <1>10 DEF DialEnvector, Goto, TypeOK, NoConnectionLeak, Wired, Held
<1>11. ASSUME NEW l \in Loops, DialEnvectorFails(l) PROVE NoConnectionLeak'
  BY <1>11 DEF DialEnvectorFails, Goto, Fail, Forget, adapters, NoConnectionLeak,
      Wired, Held
<1>12. ASSUME NEW l \in Loops, WireEnvector(l) PROVE NoConnectionLeak'
  BY <1>12, BootAssumption DEF WireEnvector, Goto, Inject, TypeOK, OwnsAttempt,
      AttemptPCs, Kinds, NoConnectionLeak, Wired, Held
<1>13. ASSUME NEW l \in Loops, OpenIndexFails(l) PROVE NoConnectionLeak'
  BY <1>13 DEF OpenIndexFails, Goto, Fail, TypeOK, SingleDriver, Drivers, Driving,
      DrivingPCs, AttemptPCs, ToInject, FreshAttempt, NoConnectionLeak, Wired, Held
<1>14. ASSUME NEW l \in Loops, EnterActive(l) PROVE NoConnectionLeak'
  BY <1>14 DEF EnterActive, Goto, Forget, adapters, NoConnectionLeak, Wired, Held
<1>15. ASSUME NEW client \in Clients, CloseStale(client) PROVE NoConnectionLeak'
  BY <1>15 DEF CloseStale, AttemptPCs, ToInject, Kinds, FreshAttempt,
      WiredStaysOpen, NoConnectionLeak, Wired, Held
<1> QED
  BY <1>1, <1>2, <1>3, <1>4, <1>5, <1>6, <1>7, <1>8, <1>9, <1>10, <1>11, <1>12,
      <1>13, <1>14, <1>15, StepCases DEF AttemptStep

-----------------------------------------------------------------------------
(* The invariants. *)

LEMMA InitGateInv == Init => GateInv
<1> SUFFICES ASSUME Init PROVE GateInv
  OBVIOUS
<1>1. PICK l \in Loops : pc = [m \in Loops |-> IF m = l THEN "spawned" ELSE "idle"]
  BY DEF Init
<1>2. Drivers = {l}
  BY <1>1 DEF Drivers, Driving, DrivingPCs
<1>3. SingleDriver /\ GateMatchesDriver
  BY <1>2 DEF Init, SingleDriver, GateMatchesDriver, Transient
<1>4. OwnsAttempt /\ InjectedStays
  BY <1>1, BootAssumption DEF Init, OwnsAttempt, InjectedStays, AttemptPCs
<1>5. ActiveMeansCoherent
  BY DEF Init, ActiveMeansCoherent
<1> QED
  BY <1>3, <1>4, <1>5, InitTypeOK DEF GateInv

LEMMA NextGateInv == GateInv /\ [Next]_vars => GateInv'
<1> SUFFICES ASSUME GateInv, [Next]_vars PROVE GateInv'
  OBVIOUS
<1>1. GateDriven'
  BY NextGateDriven DEF GateInv, GateDriven
<1>2. ActiveMeansCoherent'
  BY NextStepShape, NextActiveMeansCoherent DEF GateInv
<1> QED
  BY <1>1, <1>2, NextTypeOK, NextOwnsAttempt, NextInjectedStays DEF GateInv, GateDriven

LEMMA SpecGateInv == Spec => []GateInv
BY InitGateInv, NextGateInv, PTL DEF Spec

LEMMA InitConnectionInv == Init => ConnectionInv
<1> SUFFICES ASSUME Init PROVE ConnectionInv
  OBVIOUS
<1>1. \A l \in Loops : pc[l] \in {"spawned", "idle"}
  BY DEF Init
<1>2. Wired = {} /\ Held = {}
  BY <1>1 DEF Init, Wired, Held
<1> QED
  BY <1>1, <1>2 DEF Init, ConnectionInv, NoConnectionLeak, WiredStaysOpen,
      FreshAttempt, AttemptPCs

LEMMA NextConnectionInv ==
    GateInv /\ ConnectionInv /\ [Next]_vars => ConnectionInv'
BY NextFreshAttempt, NextWiredStaysOpen, NextNoConnectionLeak DEF GateInv, ConnectionInv

-----------------------------------------------------------------------------
(* The theorems. *)

\* Every variable keeps its type, whatever loops, calls and faults do.
THEOREM TypeCorrect == Spec => []TypeOK
<1>1. GateInv => TypeOK
  BY DEF GateInv
<1> QED
  BY <1>1, SpecGateInv, PTL

\* The compare-and-swap of Retrigger and the hand-over at the end of RunBootLoop
\* keep boots apart, for any number of concurrent retriggers.
THEOREM BootsNeverOverlap == Spec => []SingleDriver
<1>1. GateInv => SingleDriver
  BY DEF GateInv
<1> QED
  BY <1>1, SpecGateInv, PTL

\* The gate never says that a boot is running when none is, shutdown excepted,
\* and never hides one.
THEOREM GateIsHonest == Spec => []GateMatchesDriver
<1>1. GateInv => GateMatchesDriver
  BY DEF GateInv
<1> QED
  BY <1>1, SpecGateInv, PTL

\* Behind an active gate the clients and the Vault bundle are of one attempt.
THEOREM ActiveIsCoherent == Spec => []ActiveMeansCoherent
<1>1. GateInv => ActiveMeansCoherent
  BY DEF GateInv
<1> QED
  BY <1>1, SpecGateInv, PTL

\* No connection is left open without an owner, and the delayed Close never hits
\* a client in use.
THEOREM ConnectionsAccounted == Spec => []ConnectionsAreKept
<1>1. ConnectionInv => ConnectionsAreKept
  BY DEF ConnectionInv, ConnectionsAreKept
<1> QED
  BY <1>1, SpecGateInv, InitConnectionInv, NextConnectionInv, PTL DEF Spec

-----------------------------------------------------------------------------
(* The gate as its users see it. *)

\* Nothing exchanges a client or the bundle behind an active gate.
THEOREM ActiveNeverRewired == Spec => ActiveIsFrozen
<1>1. GateInv /\ [Next]_vars => [state = "active" => UNCHANGED <<deps, bundle>>]_vars
  BY NextStepShape DEF StepShape, Transient, GateInv
<1> QED
  BY <1>1, SpecGateInv, PTL DEF Spec, ActiveIsFrozen

LEMMA InitRefines == Init => Promise!Init
<1> SUFFICES ASSUME Init PROVE Promise!Init
  OBVIOUS
<1>1. CommonAttempt = NoAttempt
  BY DEF Init, CommonAttempt
<1> QED
  BY <1>1 DEF Init, Promise!Init

\* A step of the boot life cycle is a step of the abstract gate or changes
\* nothing its users see.
LEMMA StepRefines ==
    ASSUME GateInv, GateInv', [Next]_vars
    PROVE  [Promise!Next]_<<CASE state = "active"  -> "open"
                              [] state = "dormant" -> "closed"
                              [] OTHER             -> "booting", CommonAttempt>>
<1> DEFINE Gate == CASE state = "active"  -> "open"
                     [] state = "dormant" -> "closed"
                     [] OTHER             -> "booting"
<1>1. CommonAttempt \in Attempts \union {NoAttempt}
      /\ CommonAttempt' \in Attempts \union {NoAttempt}
  BY DEF GateInv, TypeOK, CommonAttempt
<1>2. UNCHANGED <<deps, bundle>> => CommonAttempt' = CommonAttempt
  BY DEF CommonAttempt
<1>3. CASE state \in Transient /\ state' \in Transient
  <2>1. Gate = "booting" /\ Gate' = "booting"
    BY <1>3 DEF Transient
  <2> QED
    BY <1>1, <2>1 DEF Promise!Next, Promise!Rewire
<1>4. CASE UNCHANGED <<deps, bundle>> /\ state' = state
  BY <1>2, <1>4
<1>5. CASE /\ UNCHANGED <<deps, bundle>>
           /\ state \in Transient /\ state' = "active"
           /\ bundle \in Attempts /\ \A k \in Kinds : deps[k] = bundle
  <2>1. Gate = "booting" /\ Gate' = "open"
    BY <1>5 DEF Transient
  <2>2. CommonAttempt # NoAttempt
    BY <1>5, BootAssumption DEF CommonAttempt
  <2> QED
    BY <1>2, <1>5, <2>1, <2>2 DEF Promise!Next, Promise!Open
<1>6. CASE UNCHANGED <<deps, bundle>> /\ state \in Transient /\ state' = "dormant"
  <2>1. Gate = "booting" /\ Gate' = "closed"
    BY <1>6 DEF Transient
  <2> QED
    BY <1>2, <1>6, <2>1 DEF Promise!Next, Promise!Close
<1>7. CASE /\ UNCHANGED <<deps, bundle>>
           /\ state \in {"active", "dormant"} /\ state' = "starting"
  <2>1. Gate \in {"open", "closed"} /\ Gate' = "booting"
    BY <1>7
  <2> QED
    BY <1>2, <1>7, <2>1 DEF Promise!Next, Promise!Claim
<1> QED
  BY <1>3, <1>4, <1>5, <1>6, <1>7, NextStepShape DEF StepShape, GateInv

\* The boot life cycle implements the abstract gate.
THEOREM BootImplementsGate == Spec => ImplementsGate
<1>1. Init => Promise!Init
  BY InitRefines
<1>2. GateInv /\ GateInv' /\ [Next]_vars =>
        [Promise!Next]_<<CASE state = "active"  -> "open"
                           [] state = "dormant" -> "closed"
                           [] OTHER             -> "booting", CommonAttempt>>
  BY StepRefines
<1> QED
  BY <1>1, <1>2, SpecGateInv, PTL DEF Spec, ImplementsGate, Promise!Spec
=============================================================================
