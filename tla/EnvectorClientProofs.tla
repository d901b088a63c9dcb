------------------------ MODULE EnvectorClientProofs ------------------------
(***************************************************************************)
(* Theorems of EnvectorClient, for any calls, deadlines and delay, any     *)
(* number of exchanges of the client and any time.                         *)
(*                                                                         *)
(* BriefCallsAreDrained does not say why a client is still whole under a   *)
(* call.  Either a service still holds it, or it was replaced under the    *)
(* call, and then its Close is at least as far away as the end of the      *)
(* call's context: both timers run at the same pace.                       *)
(***************************************************************************)
EXTENDS EnvectorClient, TLAPS

-----------------------------------------------------------------------------
(* The inductive invariant. *)

\* Clients somebody can have read.
Published(g) == g \in doomed \/ \E s \in Services : wired[s] = g

\* What services hold is whole and not about to be closed.
WiredIsWhole == \A s \in Services : wired[s] \notin doomed /\ phase[wired[s]] = "open"

\* Clients are numbered as they are dialled, and nobody sees one that is being opened.
UnopenedIsPrivate ==
    /\ \A g \in Gens : Published(g) => g <= gen
    /\ stage \in {"open", "capture"} => ~Published(gen)
    /\ stage = "capture" => phase[gen] = "open"

\* Between boots all services hold one client, during an injection the new one as far
\* as it has come and the replaced one behind.
Exchange ==
    /\ stage \in {"dial", "open", "capture"} =>
          \A s \in Services : wired[s] = wired["lifecycle"]
    /\ stage \in {"recall", "lifecycle"} => wired["capture"] = gen /\ wired["lifecycle"] # gen
    /\ stage = "recall" => wired["recall"] = wired["lifecycle"]
    /\ stage = "lifecycle" => wired["recall"] = gen
    /\ stage = "activate" => \A s \in Services : wired[s] = gen

\* A call holds a client that was published, and the delayed Close of a replaced one
\* is no nearer than the deadline.
CallsAreCovered ==
    \A c \in Calls : Using(c) =>
        /\ Published(using[c])
        /\ Brief(c) /\ left[c] > 0 /\ using[c] \in doomed =>
              left[c] <= delay[using[c]] /\ phase[using[c]] = "open"

\* A call that will call the SDK again has done so at most once.
AttemptsCounted ==
    \A c \in Calls :
        /\ pc[c] = "idle" => tries[c] = 0
        /\ pc[c] # "rpc" => tries[c] <= 1

ClientInv ==
    /\ TypeOK
    /\ AttemptsCounted
    /\ WiredIsWhole
    /\ UnopenedIsPrivate
    /\ Exchange
    /\ CallsAreCovered
    /\ OnlyOverstayersPanic

\* What the invariant says of a call in time.
LEMMA CoveredIsWhole ==
    ASSUME ClientInv, NEW c \in Calls, Using(c), Brief(c), left[c] > 0
    PROVE  phase[using[c]] = "open"
  BY DEF ClientInv, CallsAreCovered, WiredIsWhole, Published

-----------------------------------------------------------------------------
(* Type correctness. *)

LEMMA InitTypeOK == Init => TypeOK
  BY ClientAssumption DEF Init, TypeOK, Gens, Services, Stages, Phases, PCs

LEMMA ServiceOfType == \A c \in Calls : ServiceOf(c) \in Services
  BY ClientAssumption DEF ServiceOf, Services, Methods

LEMMA ReturnTypeOK ==
    ASSUME TypeOK, AttemptsCounted, NEW c \in Calls, Return(c), UNCHANGED <<boot, life, crashed>>
    PROVE  TypeOK' /\ AttemptsCounted'
<1>1. /\ pc' = [pc EXCEPT ![c] = "idle"]
      /\ using' = [using EXCEPT ![c] = 1]
      /\ left' = [left EXCEPT ![c] = 0]
      /\ tries' = [tries EXCEPT ![c] = 0]
  BY DEF Return, Goto
<1>2. UNCHANGED <<gate, stage, gen, wired, phase, delay, doomed, crashed>>
  BY DEF boot, life
<1>3. 1 \in Gens /\ CloseAfter \in Nat /\ \A d \in Calls : Timeout[d] \in Nat
  BY ClientAssumption DEF Gens
<1>4. /\ pc' \in [Calls -> PCs]
      /\ using' \in [Calls -> Gens]
      /\ left' \in [Calls -> Nat]
      /\ tries' \in [Calls -> 0 .. 2]
      /\ \A d \in Calls : left'[d] <= Timeout[d]
  BY <1>1, <1>3 DEF TypeOK, PCs
<1>5. TypeOK'
  BY <1>2, <1>4 DEF TypeOK
<1>6. AttemptsCounted'
  BY <1>1 DEF TypeOK, AttemptsCounted
<1> QED
  BY <1>5, <1>6

LEMMA GotoTypeOK ==
    ASSUME TypeOK, AttemptsCounted, NEW c \in Calls, NEW to \in PCs \ {"idle"},
           to = "rpc" \/ tries[c] <= 1, Goto(c, to),
           UNCHANGED <<boot, life, using, left, tries, crashed>>
    PROVE  TypeOK' /\ AttemptsCounted'
<1>1. pc' = [pc EXCEPT ![c] = to] /\ UNCHANGED <<using, left, tries>>
  BY DEF Goto
<1>2. UNCHANGED <<gate, stage, gen, wired, phase, delay, doomed, crashed>>
  BY DEF boot, life
<1>3. pc' \in [Calls -> PCs]
  BY <1>1 DEF TypeOK
<1>4. TypeOK'
  BY <1>1, <1>2, <1>3 DEF TypeOK
<1>5. AttemptsCounted'
  BY <1>1 DEF TypeOK, AttemptsCounted
<1> QED
  BY <1>4, <1>5

LEMMA CallTypeOK ==
    ASSUME TypeOK, AttemptsCounted, NEW c \in Calls, CallStep(c)
    PROVE  TypeOK' /\ AttemptsCounted'
<1>1. CASE Begin(c)
  <2>1. /\ pc' = [pc EXCEPT ![c] = "read"]
        /\ left' = [left EXCEPT ![c] = Timeout[c]]
        /\ UNCHANGED <<gate, stage, gen, wired, phase, delay, doomed, using, tries, crashed>>
    BY <1>1 DEF Begin, Goto, boot, life
  <2>2. pc' \in [Calls -> PCs] /\ left' \in [Calls -> Nat]
    BY <2>1, ClientAssumption DEF TypeOK, PCs
  <2>3. ASSUME NEW d \in Calls PROVE left'[d] <= Timeout[d]
    <3>1. Timeout[d] \in Nat /\ left \in [Calls -> Nat] /\ left[d] <= Timeout[d]
      BY ClientAssumption DEF TypeOK
    <3> QED
      BY <2>1, <3>1
  <2>4. tries[c] = 0
    BY <1>1 DEF Begin, AttemptsCounted
  <2>5. TypeOK'
    BY <2>1, <2>2, <2>3 DEF TypeOK
  <2> QED
    BY <2>1, <2>4, <2>5 DEF TypeOK, AttemptsCounted
<1>2. CASE ReadClient(c)
  <2> DEFINE to == IF Method[c] = "GetIndexList" THEN "use" ELSE "check"
  <2>1. to \in {"use", "check"} /\ pc' = [pc EXCEPT ![c] = to]
    BY <1>2 DEF ReadClient, Goto
  <2> HIDE DEF to
  <2>2. /\ using' = [using EXCEPT ![c] = wired[ServiceOf(c)]]
        /\ UNCHANGED <<gate, stage, gen, wired, phase, delay, doomed, left, tries, crashed>>
    BY <1>2 DEF ReadClient, boot, life
  <2>3. pc' \in [Calls -> PCs] /\ using' \in [Calls -> Gens]
    BY <2>1, <2>2, ServiceOfType DEF TypeOK, PCs
  <2>4. tries[c] <= 1
    BY <1>2 DEF ReadClient, AttemptsCounted
  <2>5. TypeOK'
    BY <2>2, <2>3 DEF TypeOK
  <2> QED
    BY <2>1, <2>2, <2>4, <2>5 DEF TypeOK, AttemptsCounted
<1>3. CASE CheckIndex(c)
  <2>1. \/ Return(c)
        \/ Goto(c, "use") /\ UNCHANGED <<using, left, tries>>
    BY <1>3 DEF CheckIndex
  <2>2. UNCHANGED <<boot, life, crashed>> /\ tries[c] <= 1
    BY <1>3 DEF CheckIndex, AttemptsCounted
  <2> QED
    BY <2>1, <2>2, ReturnTypeOK, GotoTypeOK DEF PCs
<1>4. CASE UsePointer(c)
  <2>1. /\ pc' = [pc EXCEPT ![c] = "rpc"]
        /\ tries' = [tries EXCEPT ![c] = @ + 1]
        /\ UNCHANGED <<gate, stage, gen, wired, phase, delay, doomed, using, left, crashed>>
    BY <1>4 DEF UsePointer, Goto, boot, life
  <2>2. tries[c] \in 0 .. 1
    BY <1>4 DEF UsePointer, AttemptsCounted, TypeOK
  <2>3. pc' \in [Calls -> PCs] /\ tries' \in [Calls -> 0 .. 2]
    BY <2>1, <2>2 DEF TypeOK, PCs
  <2>4. TypeOK'
    BY <2>1, <2>3 DEF TypeOK
  <2> QED
    BY <2>1, <2>4 DEF TypeOK, AttemptsCounted
<1>5. CASE Panic(c)
  <2>1. UNCHANGED <<gate, stage, gen, wired, phase, delay, doomed, pc, using, left, tries>>
    BY <1>5 DEF Panic, boot, life, call
  <2>2. crashed' \in Calls \union {NoCall}
    BY <1>5 DEF Panic
  <2> QED
    BY <2>1, <2>2 DEF TypeOK, AttemptsCounted
<1>6. CASE Answers(c)
  BY <1>6, ReturnTypeOK DEF Answers
<1>7. CASE Fails(c)
  <2>1. \/ Return(c)
        \/ tries[c] = 1 /\ Goto(c, "wait") /\ UNCHANGED <<using, left, tries>>
    BY <1>7 DEF Fails
  <2>2. UNCHANGED <<boot, life, crashed>>
    BY <1>7 DEF Fails
  <2> QED
    BY <2>1, <2>2, ReturnTypeOK, GotoTypeOK DEF PCs
<1>8. CASE Recovered(c)
  <2>1. \/ Return(c)
        \/ Goto(c, "check") /\ UNCHANGED <<using, left, tries>>
    BY <1>8 DEF Recovered
  <2>2. UNCHANGED <<boot, life, crashed>> /\ tries[c] <= 1
    BY <1>8 DEF Recovered, AttemptsCounted
  <2> QED
    BY <2>1, <2>2, ReturnTypeOK, GotoTypeOK DEF PCs
<1> QED
  BY <1>1, <1>2, <1>3, <1>4, <1>5, <1>6, <1>7, <1>8 DEF CallStep

LEMMA BootTypeOK ==
    ASSUME TypeOK, BootStep
    PROVE  TypeOK'
<1> USE ClientAssumption DEF TypeOK, Gens, Stages, Services, Phases, call, life, boot
<1>1. CASE Retrigger
  BY <1>1 DEF Retrigger
<1>2. CASE GoDormant
  BY <1>2 DEF GoDormant
<1>3. CASE NewClient
  <2>1. gen + 1 \in Gens
    BY <1>3 DEF NewClient
  <2>2. phase' \in [Gens -> Phases]
    BY <1>3, <2>1 DEF NewClient
  <2> QED
    BY <1>3, <2>1, <2>2 DEF NewClient
<1>4. CASE OpenIndex
  BY <1>4 DEF OpenIndex
<1>5. CASE OpenIndexFails
  BY <1>5 DEF OpenIndexFails
<1>6. CASE InjectEnvector
  <2>1. wired' \in [Services -> Gens] /\ stage' \in Stages
    BY <1>6 DEF InjectEnvector, AfterInject
  <2>2. wired[stage] \in Gens /\ CloseAfter \in 0 .. CloseAfter
    BY <1>6 DEF InjectEnvector
  <2>3. \/ UNCHANGED <<doomed, delay>>
        \/ /\ doomed' = doomed \union {wired[stage]}
           /\ delay' = [delay EXCEPT ![wired[stage]] = CloseAfter]
    BY <1>6 DEF InjectEnvector
  <2>4. delay' \in [Gens -> 0 .. CloseAfter]
    BY <2>2, <2>3
  <2>5. doomed' \subseteq Gens
    BY <2>2, <2>3
  <2> QED
    BY <1>6, <2>1, <2>4, <2>5 DEF InjectEnvector
<1>7. CASE EnterActive
  BY <1>7 DEF EnterActive
<1> QED
  BY <1>1, <1>2, <1>3, <1>4, <1>5, <1>6, <1>7 DEF BootStep

LEMMA CloseTypeOK ==
    ASSUME TypeOK, NEW g \in Gens, CloseStep(g)
    PROVE  TypeOK'
<1>1. AfterClose[phase[g]] \in Phases
  BY DEF CloseStep, AfterClose, Phases
<1>2. phase' \in [Gens -> Phases]
  BY <1>1 DEF CloseStep, TypeOK
<1> QED
  BY <1>2 DEF CloseStep, TypeOK, boot, call

LEMMA TickTypeOK ==
    ASSUME TypeOK, Tick
    PROVE  TypeOK'
<1>1. delay' \in [Gens -> 0 .. CloseAfter]
  BY ClientAssumption DEF Tick, TypeOK, Less
<1>2. left' \in [Calls -> Nat] /\ \A c \in Calls : left'[c] <= Timeout[c]
  BY ClientAssumption DEF Tick, TypeOK, Less
<1> QED
  BY <1>1, <1>2 DEF Tick, TypeOK, boot

-----------------------------------------------------------------------------
(* Preservation. *)

\* What does not touch clients and boots keeps what is said of them.
LEMMA ClientsUntouched ==
    ASSUME WiredIsWhole, UnopenedIsPrivate, Exchange, UNCHANGED <<boot, life>>
    PROVE  WiredIsWhole' /\ UnopenedIsPrivate' /\ Exchange'
<1>1. UNCHANGED <<stage, gen, wired, phase, doomed>>
  BY DEF boot, life
<1> QED
  BY <1>1 DEF WiredIsWhole, UnopenedIsPrivate, Exchange, Published

\* A step of a call goes on with the same client and the same deadline, reads a client
\* a service holds, or is not a use of one.
LEMMA CallStepShape ==
    ASSUME TypeOK, NEW c \in Calls, CallStep(c)
    PROVE  /\ UNCHANGED <<boot, life>>
           /\ \A d \in Calls \ {c} : Using(d)' = Using(d) /\ using'[d] = using[d] /\ left'[d] = left[d]
           /\ \/ ~Using(c)'
              \/ Using(c) /\ using'[c] = using[c] /\ left'[c] = left[c]
              \/ \E s \in Services : using'[c] = wired[s]
<1> USE DEF TypeOK, Goto, Return, Using
<1>1. CASE Begin(c)
  BY <1>1 DEF Begin
<1>2. CASE ReadClient(c)
  <2>1. pc' = [pc EXCEPT ![c] = IF Method[c] = "GetIndexList" THEN "use" ELSE "check"]
    BY <1>2 DEF ReadClient
  <2>2. \A d \in Calls \ {c} : pc'[d] = pc[d]
    BY <2>1
  <2> QED
    BY <1>2, <2>2, ServiceOfType DEF ReadClient
<1>3. CASE CheckIndex(c)
  BY <1>3 DEF CheckIndex
<1>4. CASE UsePointer(c)
  BY <1>4 DEF UsePointer
<1>5. CASE Panic(c)
  BY <1>5 DEF Panic, call
<1>6. CASE Answers(c)
  BY <1>6 DEF Answers
<1>7. CASE Fails(c)
  <2>1. \/ Return(c)
        \/ Goto(c, "wait") /\ UNCHANGED <<using, left, tries>>
    BY <1>7 DEF Fails
  <2> QED
    BY <1>7, <2>1 DEF Fails
<1>8. CASE Recovered(c)
  BY <1>8 DEF Recovered
<1> QED
  BY <1>1, <1>2, <1>3, <1>4, <1>5, <1>6, <1>7, <1>8 DEF CallStep

LEMMA CallInv ==
    ASSUME ClientInv, NEW c \in Calls, CallStep(c)
    PROVE  ClientInv'
<1>1. TypeOK' /\ AttemptsCounted'
  BY CallTypeOK DEF ClientInv
<1>2. UNCHANGED <<wired, phase, delay, doomed>>
  BY CallStepShape DEF ClientInv, boot, life
<1>3. WiredIsWhole' /\ UnopenedIsPrivate' /\ Exchange'
  BY CallStepShape, ClientsUntouched DEF ClientInv
<1>4. CallsAreCovered'
  <2> SUFFICES ASSUME NEW d \in Calls, Using(d)'
               PROVE  /\ Published(using[d])'
                      /\ Brief(d) /\ left'[d] > 0 /\ using'[d] \in doomed' =>
                            left'[d] <= delay'[using'[d]] /\ phase'[using'[d]] = "open"
    BY DEF CallsAreCovered, Brief
  <2>1. CASE Using(d) /\ using'[d] = using[d] /\ left'[d] = left[d]
    BY <1>2, <2>1 DEF ClientInv, CallsAreCovered, Published
  <2>2. CASE \E s \in Services : using'[d] = wired[s]
    BY <1>2, <2>2 DEF ClientInv, WiredIsWhole, Published
  <2> QED
    BY <2>1, <2>2, CallStepShape DEF ClientInv
<1>5. OnlyOverstayersPanic'
  <2>1. CASE Panic(c)
    <3>1. Using(c) /\ phase[using[c]] # "open" /\ crashed' = c /\ left' = left
      BY <2>1 DEF Panic, Using, Present, HasSdk, HasIndex, call
    <3>2. ~Brief(c) \/ ~(left[c] > 0)
      BY <3>1, CoveredIsWhole
    <3>3. left[c] \in Nat
      BY DEF ClientInv, TypeOK
    <3> QED
      BY <3>1, <3>2, <3>3 DEF OnlyOverstayersPanic, Brief
  <2>2. CASE ~Panic(c)
    <3>1. crashed' = NoCall
      BY <2>2 DEF CallStep, Begin, ReadClient, CheckIndex, UsePointer, Answers, Fails,
                  Recovered, Alive
    <3> QED
      BY <3>1 DEF OnlyOverstayersPanic
  <2> QED
    BY <2>1, <2>2
<1> QED
  BY <1>1, <1>3, <1>4, <1>5 DEF ClientInv

\* A step of a boot, a Close or the clock leaves the calls where they are.
LEMMA NotACall ==
    ASSUME ClientInv, TypeOK', UNCHANGED <<pc, tries, crashed>>, crashed = NoCall,
           WiredIsWhole', UnopenedIsPrivate', Exchange', CallsAreCovered'
    PROVE  ClientInv'
<1>1. AttemptsCounted' /\ OnlyOverstayersPanic'
  BY DEF ClientInv, AttemptsCounted, OnlyOverstayersPanic
<1> QED
  BY <1>1 DEF ClientInv

LEMMA InjectInv ==
    ASSUME ClientInv, InjectEnvector
    PROVE  WiredIsWhole' /\ UnopenedIsPrivate' /\ Exchange' /\ CallsAreCovered'
<1> DEFINE old == wired["lifecycle"]
<1>1. /\ wired \in [Services -> Gens] /\ stage \in Services
      /\ old \in Gens /\ gen \in Gens /\ delay \in [Gens -> 0 .. CloseAfter]
      /\ doomed \subseteq Gens
  BY DEF ClientInv, TypeOK, InjectEnvector, Services
<1>2. /\ wired' = [wired EXCEPT ![stage] = gen]
      /\ UNCHANGED <<gen, phase, pc, using, left>>
  BY DEF InjectEnvector, call
<1>3. gen \notin doomed /\ phase[gen] = "open" /\ old # gen
  BY <1>1 DEF ClientInv, WiredIsWhole, UnopenedIsPrivate, Exchange, Published, Services
<1>4. old \notin doomed /\ phase[old] = "open"
  BY DEF ClientInv, WiredIsWhole, Services
<1>5. \A g \in Gens : Published(g) => Published(g)'
  BY <1>1, <1>2 DEF InjectEnvector, ClientInv, Exchange, Published, Services
<1>6. \A g \in Gens : Published(g)' => Published(g) \/ g = gen
  BY <1>1, <1>2 DEF InjectEnvector, Published, Services
<1>7. \A g \in Gens : Published(g)' => g <= gen
  <2>1. gen <= gen
    BY <1>1, ClientAssumption DEF Gens
  <2>2. \A g \in Gens : Published(g) => g <= gen
    BY DEF ClientInv, UnopenedIsPrivate
  <2> QED
    BY <1>6, <2>1, <2>2
<1>8. \A s \in Services : wired'[s] = gen \/ wired'[s] = wired[s]
  BY <1>1, <1>2
<1>9. CASE stage # "lifecycle"
  <2>1. UNCHANGED <<delay, doomed>>
    BY <1>9 DEF InjectEnvector
  <2>2. WiredIsWhole'
    BY <1>2, <1>3, <1>8, <2>1 DEF ClientInv, WiredIsWhole
  <2>3. stage' \in {"recall", "lifecycle"} /\ stage' = AfterInject
    BY <1>1, <1>9 DEF InjectEnvector, AfterInject, Services
  <2>4. UnopenedIsPrivate'
    BY <1>2, <1>7, <2>3 DEF UnopenedIsPrivate
  <2>5. Exchange'
    BY <1>1, <1>2, <1>3, <1>9, <2>3 DEF ClientInv, Exchange, AfterInject, Services
  <2>6. CallsAreCovered'
    <3> SUFFICES ASSUME NEW d \in Calls, Using(d)
                 PROVE  /\ Published(using[d])'
                        /\ Brief(d) /\ left[d] > 0 /\ using[d] \in doomed =>
                              left[d] <= delay[using[d]] /\ phase[using[d]] = "open"
      BY <1>2, <2>1 DEF CallsAreCovered, Using, Brief
    <3>1. using[d] \in Gens
      BY DEF ClientInv, TypeOK
    <3> QED
      BY <1>2, <1>5, <3>1 DEF ClientInv, CallsAreCovered
  <2> QED
    BY <2>2, <2>4, <2>5, <2>6
<1>10. CASE stage = "lifecycle"
  <2>1. /\ doomed' = doomed \union {old}
        /\ delay' = [delay EXCEPT ![old] = CloseAfter]
        /\ stage' = "activate"
    BY <1>10 DEF InjectEnvector, AfterInject
  <2>2. \A s \in Services : wired'[s] = gen
    BY <1>1, <1>2, <1>10 DEF ClientInv, Exchange, Services
  <2>3. WiredIsWhole'
    BY <1>2, <1>3, <2>1, <2>2 DEF WiredIsWhole
  <2>4. UnopenedIsPrivate'
    BY <1>2, <1>7, <2>1 DEF UnopenedIsPrivate
  <2>5. Exchange'
    BY <1>2, <2>1, <2>2 DEF Exchange
  <2>6. CallsAreCovered'
    <3> SUFFICES ASSUME NEW d \in Calls, Using(d)
                 PROVE  /\ Published(using[d])'
                        /\ Brief(d) /\ left[d] > 0 /\ using[d] \in doomed' =>
                              left[d] <= delay'[using[d]] /\ phase[using[d]] = "open"
      BY <1>2 DEF CallsAreCovered, Using, Brief
    <3>1. using[d] \in Gens
      BY DEF ClientInv, TypeOK
    <3>2. Published(using[d])'
      BY <1>2, <1>5, <3>1 DEF ClientInv, CallsAreCovered
    <3>3. CASE using[d] = old
      <4>1. left[d] \in Nat /\ left[d] <= Timeout[d] /\ Timeout[d] \in Nat /\ CloseAfter \in Nat
        BY ClientAssumption DEF ClientInv, TypeOK
      <4>2. Brief(d) => left[d] <= CloseAfter
        BY <4>1 DEF Brief
      <4>3. delay'[old] = CloseAfter
        BY <1>1, <2>1
      <4> QED
        BY <1>4, <3>2, <3>3, <4>2, <4>3
    <3>4. CASE using[d] # old
      BY <1>1, <2>1, <3>1, <3>2, <3>4 DEF ClientInv, CallsAreCovered
    <3> QED
      BY <3>3, <3>4
  <2> QED
    BY <2>3, <2>4, <2>5, <2>6
<1> QED
  BY <1>9, <1>10

LEMMA BootInv ==
    ASSUME ClientInv, BootStep
    PROVE  ClientInv'
<1>1. TypeOK'
  BY BootTypeOK DEF ClientInv
<1>2. UNCHANGED <<pc, using, left, tries, crashed>> /\ crashed = NoCall
  BY DEF BootStep, Retrigger, GoDormant, NewClient, OpenIndex, OpenIndexFails, InjectEnvector,
         EnterActive, call, Alive
<1>3. gen \in Gens /\ phase \in [Gens -> Phases] /\ \A d \in Calls : using[d] \in Gens
  BY DEF ClientInv, TypeOK
<1>4. \A s \in Services : wired[s] \in Gens /\ Published(wired[s])
  BY DEF ClientInv, TypeOK, Published
<1>5. WiredIsWhole' /\ UnopenedIsPrivate' /\ Exchange' /\ CallsAreCovered'
  <2>1. CASE Retrigger \/ GoDormant
    <3>1. UNCHANGED <<stage, gen, wired, phase, delay, doomed>>
      BY <2>1 DEF Retrigger, GoDormant, life
    <3> QED
      BY <1>2, <3>1 DEF ClientInv, WiredIsWhole, UnopenedIsPrivate, Exchange, CallsAreCovered,
                        Published, Using
  <2>2. CASE NewClient
    <3>1. /\ gen' = gen + 1 /\ stage' = "open"
          /\ phase' = [phase EXCEPT ![gen + 1] = "dialled"]
          /\ UNCHANGED <<wired, delay, doomed>> /\ stage = "dial"
      BY <2>2 DEF NewClient
    <3>2. \A g \in Gens : Published(g) => g # gen + 1 /\ g <= gen + 1
      BY <1>3 DEF ClientInv, UnopenedIsPrivate, Gens
    <3>3. \A g \in Gens : Published(g)' <=> Published(g)
      BY <3>1 DEF Published
    <3>4. \A g \in Gens : Published(g) => phase'[g] = phase[g]
      BY <1>3, <3>1, <3>2
    <3>5. WiredIsWhole'
      BY <1>4, <3>1, <3>4 DEF ClientInv, WiredIsWhole
    <3>6. gen + 1 \in Gens
      BY <1>1, <3>1 DEF TypeOK
    <3>7. UnopenedIsPrivate'
      BY <3>1, <3>2, <3>3, <3>6 DEF UnopenedIsPrivate
    <3>8. Exchange'
      BY <3>1 DEF ClientInv, Exchange
    <3>9. CallsAreCovered'
      BY <1>2, <1>3, <3>1, <3>3, <3>4 DEF ClientInv, CallsAreCovered, Using
    <3> QED
      BY <3>5, <3>7, <3>8, <3>9
  <2>3. CASE OpenIndex \/ OpenIndexFails
    <3>1. PICK to \in {"open", "closed"} : phase' = [phase EXCEPT ![gen] = to]
      BY <2>3 DEF OpenIndex, OpenIndexFails
    <3>2. /\ UNCHANGED <<gen, wired, delay, doomed>> /\ stage = "open"
          /\ stage' \in {"capture", "dial"}
          /\ stage' = "capture" => phase'[gen] = "open"
      BY <1>3, <2>3 DEF OpenIndex, OpenIndexFails
    <3>3. ~Published(gen)
      BY <3>2 DEF ClientInv, UnopenedIsPrivate
    <3>4. \A g \in Gens : Published(g)' <=> Published(g)
      BY <3>2 DEF Published
    <3>5. \A g \in Gens : Published(g) => phase'[g] = phase[g]
      BY <1>3, <3>1, <3>3
    <3>6. WiredIsWhole'
      BY <1>4, <3>2, <3>5 DEF ClientInv, WiredIsWhole
    <3>7. UnopenedIsPrivate'
      BY <1>3, <3>2, <3>3, <3>4 DEF ClientInv, UnopenedIsPrivate
    <3>8. Exchange'
      BY <3>2 DEF ClientInv, Exchange
    <3>9. CallsAreCovered'
      BY <1>2, <1>3, <3>2, <3>4, <3>5 DEF ClientInv, CallsAreCovered, Using
    <3> QED
      BY <3>6, <3>7, <3>8, <3>9
  <2>4. CASE InjectEnvector
    BY <2>4, InjectInv
  <2>5. CASE EnterActive
    <3>1. stage = "activate" /\ stage' = "dial" /\ UNCHANGED <<gen, wired, phase, delay, doomed>>
      BY <2>5 DEF EnterActive, life
    <3>2. Exchange'
      BY <3>1 DEF ClientInv, Exchange, Services
    <3> QED
      BY <1>2, <3>1, <3>2 DEF ClientInv, WiredIsWhole, UnopenedIsPrivate, CallsAreCovered,
                              Published, Using
  <2> QED
    BY <2>1, <2>2, <2>3, <2>4, <2>5 DEF BootStep
<1> QED
  BY <1>1, <1>2, <1>5, NotACall

LEMMA CloseInv ==
    ASSUME ClientInv, NEW g \in Gens, CloseStep(g)
    PROVE  ClientInv'
<1>1. TypeOK'
  BY CloseTypeOK DEF ClientInv
<1>2. /\ g \in doomed /\ delay[g] = 0 /\ phase' = [phase EXCEPT ![g] = AfterClose[@]]
      /\ UNCHANGED <<stage, gen, wired, delay, doomed, pc, using, left, tries, crashed>>
      /\ crashed = NoCall
  BY DEF CloseStep, boot, call, Alive
<1>3. phase \in [Gens -> Phases] /\ gen \in Gens /\ \A s \in Services : wired[s] \in Gens
  BY DEF ClientInv, TypeOK
<1>4. \A h \in Gens \ {g} : phase'[h] = phase[h]
  BY <1>2, <1>3
<1>5. WiredIsWhole'
  BY <1>2, <1>3, <1>4 DEF ClientInv, WiredIsWhole
<1>6. UnopenedIsPrivate' /\ Exchange'
  BY <1>2, <1>3, <1>4 DEF ClientInv, UnopenedIsPrivate, Exchange, Published
<1>7. CallsAreCovered'
  <2> SUFFICES ASSUME NEW d \in Calls, Using(d)
               PROVE  /\ Published(using[d])
                      /\ Brief(d) /\ left[d] > 0 /\ using[d] \in doomed =>
                            left[d] <= delay[using[d]] /\ phase'[using[d]] = "open"
    BY <1>2 DEF CallsAreCovered, Using, Brief, Published
  <2>1. using[d] \in Gens /\ left[d] \in Nat
    BY DEF ClientInv, TypeOK
  <2> QED
    BY <1>2, <1>4, <2>1 DEF ClientInv, CallsAreCovered
<1> QED
  BY <1>1, <1>2, <1>5, <1>6, <1>7, NotACall

LEMMA TickInv ==
    ASSUME ClientInv, Tick
    PROVE  ClientInv'
<1>1. TypeOK'
  BY TickTypeOK DEF ClientInv
<1>2. /\ left' = [c \in Calls |-> Less(left[c])]
      /\ delay' = [g \in Gens |-> Less(delay[g])]
      /\ UNCHANGED <<boot, phase, doomed, pc, using, tries, crashed>>
      /\ crashed = NoCall
  BY DEF Tick, Alive
<1>3. UNCHANGED <<stage, gen, wired>>
  BY <1>2 DEF boot
<1>4. WiredIsWhole' /\ UnopenedIsPrivate' /\ Exchange'
  BY <1>2, <1>3 DEF ClientInv, WiredIsWhole, UnopenedIsPrivate, Exchange, Published
<1>5. CallsAreCovered'
  <2> SUFFICES ASSUME NEW d \in Calls, Using(d)
               PROVE  /\ Published(using[d])
                      /\ Brief(d) /\ left'[d] > 0 /\ using[d] \in doomed =>
                            left'[d] <= delay'[using[d]] /\ phase[using[d]] = "open"
    BY <1>2, <1>3 DEF CallsAreCovered, Using, Brief, Published
  <2>1. using[d] \in Gens /\ left[d] \in Nat /\ delay[using[d]] \in Nat
    BY ClientAssumption DEF ClientInv, TypeOK
  <2>2. left'[d] = Less(left[d]) /\ delay'[using[d]] = Less(delay[using[d]])
    BY <1>2, <2>1
  <2>3. left'[d] > 0 => left[d] > 0
    BY <2>1, <2>2 DEF Less
  <2>4. left[d] > 0 /\ left[d] <= delay[using[d]] => left'[d] <= delay'[using[d]]
    BY <2>1, <2>2 DEF Less
  <2> QED
    BY <2>3, <2>4 DEF ClientInv, CallsAreCovered
<1> QED
  BY <1>1, <1>2, <1>4, <1>5, NotACall

LEMMA ClientInvHolds == Spec => []ClientInv
<1>1. Init => ClientInv
  <2> SUFFICES ASSUME Init PROVE ClientInv
    OBVIOUS
  <2>1. \A c \in Calls : ~Using(c) /\ tries[c] = 0
    BY DEF Init, Using
  <2>2. \A g \in Gens : Published(g) <=> g = 1
    BY DEF Init, Published, Services
  <2>3. 1 \in Gens
    BY ClientAssumption DEF Gens
  <2>4. WiredIsWhole
    BY <2>3 DEF Init, WiredIsWhole
  <2>5. UnopenedIsPrivate
    <3>1. \A g \in Gens : g = 1 => g <= 1
      OBVIOUS
    <3> QED
      BY <2>2, <3>1 DEF Init, UnopenedIsPrivate
  <2>6. Exchange
    BY DEF Init, Exchange, Services
  <2> QED
    BY <2>1, <2>4, <2>5, <2>6, InitTypeOK DEF Init, ClientInv, AttemptsCounted, CallsAreCovered,
                                  OnlyOverstayersPanic
<1>2. ClientInv /\ [Next]_vars => ClientInv'
  <2> SUFFICES ASSUME ClientInv, [Next]_vars PROVE ClientInv'
    OBVIOUS
  <2>1. CASE Next
    BY <2>1, CallInv, BootInv, CloseInv, TickInv DEF Next
  <2>2. CASE UNCHANGED vars
    BY <2>2 DEF vars, boot, life, call, ClientInv, TypeOK, AttemptsCounted, WiredIsWhole,
                UnopenedIsPrivate, Exchange, CallsAreCovered, OnlyOverstayersPanic, Published, Using
  <2> QED
    BY <2>1, <2>2
<1> QED
  BY <1>1, <1>2, PTL DEF Spec

-----------------------------------------------------------------------------
(* Theorems. *)

\* Every variable of the clients and their calls keeps its type; no call is repeated
\* more than once and no context outlives its timeout.
THEOREM ClientTypeCorrect == Spec => []TypeOK
<1>1. ClientInv => TypeOK
  BY DEF ClientInv
<1> QED
  BY <1>1, ClientInvHolds, PTL

\* A service never holds a client that is not open, or that is being closed.
THEOREM InjectedStaysUsable == Spec => []InjectedIsUsable
<1>1. ClientInv => InjectedIsUsable
  BY DEF ClientInv, WiredIsWhole, InjectedIsUsable
<1> QED
  BY <1>1, ClientInvHolds, PTL

\* Whatever deadlines the callers set, one that is no longer than the delay protects
\* its call from the delayed Close.
THEOREM DelayDrainsBriefCalls == Spec => []BriefCallsAreDrained
<1>1. ClientInv => BriefCallsAreDrained
  BY CoveredIsWhole DEF BriefCallsAreDrained
<1> QED
  BY <1>1, ClientInvHolds, PTL

\* Only calls that may outlast the delay can end the process.
THEOREM PanicsAreOverstayers == Spec => []OnlyOverstayersPanic
<1>1. ClientInv => OnlyOverstayersPanic
  BY DEF ClientInv
<1> QED
  BY <1>1, ClientInvHolds, PTL
=============================================================================
