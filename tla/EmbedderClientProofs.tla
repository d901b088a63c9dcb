------------------------ MODULE EmbedderClientProofs ------------------------
(***************************************************************************)
(* Theorems of EmbedderClient, for any calls, Health calls and limits of   *)
(* any number of daemons.                                                  *)
(*                                                                         *)
(* What a call has is always the beginning of its texts (GotIsPrefix), and *)
(* nobody knows of a daemon that is still to come (NobodyIsAhead).  That   *)
(* Info of an older daemon does not come back needs the mutex: a call      *)
(* between the answer and the store holds it (RpcHoldsMutex), Invalidate   *)
(* waits for it, so what will be stored was asked for after the last one.  *)
(***************************************************************************)
EXTENDS EmbedderClient, SequenceTheorems, TLAPS

\* TypeOK without got, in two halves.
CallTypes ==
    /\ info \in Daemons \union {0} /\ cooling \in BOOLEAN
    /\ mutex \in Calls \union {NoCall}
    /\ pc \in [Calls -> {"idle", "lock", "info", "store", "reply", "backoff",
                         "done", "failed", "oversize"}]
    /\ plan \in [Calls -> Daemons \union {0}]
    /\ tries \in [Calls -> 0 .. Attempts - 1]

OtherTypes ==
    /\ daemon \in Daemons /\ up \in 0 .. MaxUptime
    /\ serving \in {"ok", "hung", "down"}
    /\ lastUptime \in 0 .. MaxUptime
    /\ hpc \in [Checks -> {"idle", "compare", "invalidate", "store", "done"}]
    /\ answer \in [Checks -> (Daemons \union {0}) \X (0 .. MaxUptime)]
    /\ outdated \in Daemons \union {0}

RpcHoldsMutex == \A c \in Calls : pc[c] \in {"info", "store"} => mutex = c

InOrder(vectors) == vectors = [k \in 1 .. Len(vectors) |-> k]

\* got as a function, which typing leaves open.
GotIsPrefix ==
    /\ got \in [Calls -> Seq(Nat)]
    /\ \A c \in Calls :
          /\ InOrder(got[c])
          /\ pc[c] \in {"idle", "lock", "info", "store"} => got[c] = <<>>
          /\ pc[c] = "done" => Len(got[c]) = Size[c]

NobodyIsAhead ==
    /\ info <= daemon /\ outdated <= daemon
    /\ \A c \in Calls : plan[c] <= daemon
    /\ \A h \in Checks : answer[h][1] <= daemon

\* What a call goes by, and what it is about to store.
PlansAreSound ==
    /\ \A c \in Calls : pc[c] = "store" => plan[c] # 0 /\ plan[c] >= outdated
    /\ \A c \in Calls : pc[c] \in {"reply", "backoff"} /\ plan[c] = 0 => Size[c] = 1

ClientInv ==
    /\ TypeOK
    /\ RpcHoldsMutex
    /\ GotIsPrefix
    /\ NobodyIsAhead
    /\ PlansAreSound
    /\ OversizeMeansRestart
    /\ RegressionOutdatesInfo

-----------------------------------------------------------------------------
(* Chunks. *)

LEMMA GotFacts ==
    ASSUME TypeOK, NEW c \in Calls
    PROVE  /\ Size[c] \in Nat /\ Len(got[c]) \in Nat /\ Len(got[c]) <= Size[c]
           /\ plan[c] \in Nat /\ (plan[c] # 0 => plan[c] \in Daemons /\ Limit[plan[c]] \in Nat)
BY EmbedderAssumption DEF TypeOK, Daemons

LEMMA TypesApart == TypeOK => CallTypes /\ OtherTypes
BY DEF TypeOK, CallTypes, OtherTypes

\* A chunk is not longer than what is left, nor than the limit the call knows.
LEMMA ChunkFits ==
    ASSUME TypeOK, NEW c \in Calls
    PROVE  /\ Chunk(c) = [k \in 1 .. Len(Chunk(c)) |-> Len(got[c]) + k]
           /\ Len(Chunk(c)) \in 0 .. Size[c] - Len(got[c])
           /\ plan[c] # 0 /\ Limit[plan[c]] # 0 => Len(Chunk(c)) <= Limit[plan[c]]
<1> DEFINE left == Size[c] - Len(got[c])
           most == IF plan[c] = 0 \/ Limit[plan[c]] = 0 THEN left ELSE Limit[plan[c]]
           n == IF most < left THEN most ELSE left
           base == Len(got[c])
<1>1. n \in 0 .. left /\ (plan[c] # 0 /\ Limit[plan[c]] # 0 => n <= Limit[plan[c]])
  BY GotFacts
<1>2. Chunk(c) = [k \in 1 .. n |-> base + k]
  BY DEF Chunk
<1>3. n \in Nat
  BY <1>1, GotFacts
<1> HIDE DEF n, base
<1>4. Len([k \in 1 .. n |-> base + k]) = n
  BY <1>3
<1> QED
  BY <1>1, <1>2, <1>4 DEF base

\* The vectors a call has after an answer are those of its first texts, in order.
LEMMA AllFacts ==
    ASSUME TypeOK, GotIsPrefix, NEW c \in Calls
    PROVE  LET all == got[c] \o Chunk(c)
           IN  /\ all \in Seq(1 .. Size[c]) /\ all \in Seq(Nat)
               /\ Len(all) \in Nat /\ Len(all) <= Size[c]
               /\ InOrder(all)
<1> DEFINE m == Len(got[c])
           n == Len(Chunk(c))
           size == Size[c]
           front == [k \in 1 .. m |-> k]
           back == [k \in 1 .. n |-> m + k]
<1>1. m \in Nat /\ n \in Nat /\ size \in Nat /\ m + n <= size
  BY GotFacts, ChunkFits
<1>2. got[c] = front /\ Chunk(c) = back
  BY ChunkFits DEF GotIsPrefix, InOrder
<1> HIDE DEF m, n, size
<1>3. /\ front \in Seq(1 .. size) /\ Len(front) = m
      /\ back \in Seq(1 .. size) /\ Len(back) = n
  BY <1>1
<1>4. /\ front \o back \in Seq(1 .. size) /\ Len(front \o back) = m + n
      /\ \A k \in 1 .. m + n : (front \o back)[k] = IF k <= m THEN front[k] ELSE back[k - m]
  BY <1>1, <1>3, ConcatProperties
<1>5. \A k \in 1 .. m + n : (front \o back)[k] = k
  BY <1>1, <1>4
<1>6. front \o back = [k \in 1 .. m + n |-> k]
  BY <1>1, <1>4, <1>5
<1>7. front \o back \in Seq(Nat)
  BY <1>1, <1>6
<1> QED
  BY <1>1, <1>2, <1>4, <1>6, <1>7 DEF size, InOrder

-----------------------------------------------------------------------------
(* The shapes of the steps. *)

CallStep(c) == Begin(c) \/ CallContinues(c) \/ Interrupted(c)

\* Health and the daemon leave the calls and the mutex alone.
LEMMA OtherSteps ==
    ASSUME [Next]_vars
    PROVE  \/ \E c \in Calls : CallStep(c)
           \/ /\ UNCHANGED <<calls, mutex>>
              /\ info' \in {info, 0} /\ cooling' \in {cooling, FALSE}
BY DEF Next, CallStep, HealthAnswered, HealthContinues, CompareUptime, Invalidate, StoreUptime,
       CooldownPasses, Tick, ServingChanges, Restart, vars, cache

\* A call neither starts a daemon nor clears the cache.
LEMMA CallsLeaveRest ==
    ASSUME NEW c \in Calls, CallStep(c)
    PROVE  UNCHANGED <<runed, checks>>
BY DEF CallStep, CallContinues, Begin, Get, InfoAnswered, InfoStored, InfoFails, ChunkAnswered,
       ChunkRejected, ChunkFails, BackoffEnds, Interrupted

\* What a call has stays, is dropped by an error, or grows by an answer.
LEMMA GotShapes ==
    ASSUME TypeOK, GotIsPrefix, NEW c \in Calls, CallStep(c)
    PROVE  \E to \in {"lock", "info", "store", "reply", "backoff", "done", "failed", "oversize"} :
              /\ pc' = [pc EXCEPT ![c] = to]
              /\ \/ /\ got' = got
                    /\ to \in {"lock", "info", "store"}
                          => pc[c] \in {"idle", "lock", "info", "store"}
                    /\ to = "done" => pc[c] \in {"lock", "store"} /\ Size[c] = 0
                 \/ got' = [got EXCEPT ![c] = <<>>] /\ to = "failed"
                 \/ /\ got' = [got EXCEPT ![c] = got[c] \o Chunk(c)]
                    /\ to \in {"reply", "done"}
                    /\ to = "done" => Len(got[c] \o Chunk(c)) = Size[c]
<1>1. CASE Begin(c)
  BY <1>1 DEF Begin, Goto, calls, cache
<1>2. CASE Get(c)
  BY <1>2 DEF Get, Goto, Fail, Informed, calls
<1>3. CASE InfoAnswered(c) \/ InfoStored(c)
  BY <1>3 DEF InfoAnswered, InfoStored, Goto, Informed
<1>4. CASE InfoFails(c) \/ Interrupted(c)
  BY <1>4 DEF InfoFails, Interrupted, InfoError, Fail, Goto
<1>5. CASE ChunkAnswered(c)
  BY <1>5 DEF ChunkAnswered, Goto
<1>6. CASE ChunkRejected(c) \/ ChunkFails(c) \/ BackoffEnds(c)
  BY <1>6 DEF ChunkRejected, ChunkFails, BackoffEnds, Fail, Goto
<1> QED
  BY <1>1, <1>2, <1>3, <1>4, <1>5, <1>6 DEF CallStep, CallContinues

\* What a call goes by is the snapshot or the answer, what it stores is what it goes by.
LEMMA PlanShapes ==
    ASSUME NEW c \in Calls, CallStep(c)
    PROVE  /\ \/ plan' = plan
              \/ \E p \in {0, info, daemon} : plan' = [plan EXCEPT ![c] = p]
           /\ info' \in {info, plan[c]}
<1>1. CASE Get(c) \/ InfoAnswered(c) \/ InfoStored(c)
  BY <1>1 DEF Get, Fail, InfoAnswered, InfoStored, cache
<1>2. CASE ~(Get(c) \/ InfoAnswered(c) \/ InfoStored(c))
  BY <1>2 DEF CallStep, CallContinues, Begin, InfoFails, ChunkAnswered, ChunkRejected, ChunkFails,
              BackoffEnds, Interrupted, InfoError, Fail, cache
<1> QED
  BY <1>1, <1>2

\* What Health and the daemon do: the daemon only grows, and what they remember of it
\* is of one that was.
LEMMA OtherDaemons ==
    ASSUME OtherTypes, [Next]_vars
    PROVE  /\ daemon' >= daemon
           /\ outdated' = outdated \/ \E h \in Checks : outdated' = answer[h][1]
           /\ \A h \in Checks : answer'[h] \in {answer[h], <<daemon, up>>, <<0, 0>>}
<1> USE EmbedderAssumption DEF OtherTypes, Daemons
<1>1. ASSUME NEW c \in Calls, CallStep(c)
      PROVE  UNCHANGED <<daemon, outdated, answer>>
  BY <1>1, CallsLeaveRest DEF runed, checks
<1>2. ASSUME NEW h \in Checks, HealthAnswered(h)
      PROVE  UNCHANGED <<daemon, outdated>> /\ answer' = [answer EXCEPT ![h] = <<daemon, up>>]
  BY <1>2 DEF HealthAnswered, runed
<1>3. ASSUME NEW h \in Checks, CompareUptime(h) \/ Invalidate(h)
      PROVE  /\ UNCHANGED <<daemon, answer>>
             /\ outdated' \in {outdated, answer[h][1]}
  BY <1>3 DEF CompareUptime, Invalidate, runed
<1>4. ASSUME NEW h \in Checks, StoreUptime(h)
      PROVE  UNCHANGED <<daemon, outdated>> /\ answer' = [answer EXCEPT ![h] = <<0, 0>>]
  BY <1>4 DEF StoreUptime, runed
<1>5. CASE Restart
  BY <1>5 DEF Restart, checks
<1>6. CASE CooldownPasses \/ Tick \/ ServingChanges \/ UNCHANGED vars
  BY <1>6 DEF CooldownPasses, Tick, ServingChanges, vars, runed, checks
<1> QED
  BY <1>1, <1>2, <1>3, <1>4, <1>5, <1>6 DEF Next, CallStep, HealthContinues

-----------------------------------------------------------------------------
(* The invariant is kept. *)

LEMMA StepGot ==
    ASSUME ClientInv, [Next]_vars
    PROVE  /\ GotIsPrefix'
           /\ \A c \in Calls : got'[c] \in Seq(1 .. Size[c]) /\ Len(got'[c]) <= Size[c]
<1> USE DEF ClientInv
<1>1. ASSUME NEW c \in Calls, CallStep(c)
      PROVE  /\ GotIsPrefix'
             /\ \A d \in Calls : got'[d] \in Seq(1 .. Size[d]) /\ Len(got'[d]) <= Size[d]
  <2> DEFINE all == got[c] \o Chunk(c)
             Good(x) == /\ x \in Seq(1 .. Size[c]) /\ x \in Seq(Nat)
                        /\ Len(x) <= Size[c] /\ InOrder(x)
  <2>1. PICK to, g :
           /\ pc' = [pc EXCEPT ![c] = to] /\ got' = [got EXCEPT ![c] = g]
           /\ g \in {got[c], <<>>, all}
           /\ to \in {"lock", "info", "store"} =>
                 g = got[c] /\ pc[c] \in {"idle", "lock", "info", "store"}
           /\ to # "idle"
           /\ to = "done" => \/ g = got[c] /\ pc[c] \in {"lock", "store"} /\ Size[c] = 0
                             \/ g = all /\ Len(all) = Size[c]
    <3>1. got = [got EXCEPT ![c] = got[c]]
      BY DEF GotIsPrefix
    <3> HIDE DEF all
    <3> QED
      BY <1>1, <3>1, GotShapes DEF all
  <2>2. Good(g)
    <3>1. Good(<<>>)
      <4>1. <<>> \in Seq(1 .. Size[c]) /\ <<>> \in Seq(Nat) /\ Len(<<>>) = 0
        OBVIOUS
      <4>2. InOrder(<<>>)
        BY <4>1 DEF InOrder
      <4> QED
        BY <4>1, <4>2, GotFacts
    <3>2. Good(got[c])
      BY DEF GotIsPrefix, TypeOK
    <3>3. Good(all)
      BY AllFacts
    <3> HIDE DEF Good, all
    <3> QED
      BY <2>1, <3>1, <3>2, <3>3
  <2>3. /\ to = "done" => Len(g) = Size[c]
        /\ to \in {"idle", "lock", "info", "store"} => g = <<>>
    <3>1. pc[c] \in {"idle", "lock", "info", "store"} => got[c] = <<>>
      BY DEF GotIsPrefix
    <3>2. Len(<<>>) = 0
      OBVIOUS
    <3> HIDE DEF all, Good
    <3> QED
      BY <2>1, <3>1, <3>2
  <2>4. /\ got'[c] = g /\ pc'[c] = to
        /\ \A d \in Calls \ {c} : got'[d] = got[d] /\ pc'[d] = pc[d]
    BY <2>1 DEF GotIsPrefix, TypeOK
  <2>5. got' \in [Calls -> Seq(Nat)]
    BY <2>1, <2>2 DEF GotIsPrefix
  <2> HIDE DEF all
  <2> QED
    BY <2>2, <2>3, <2>4, <2>5 DEF GotIsPrefix, TypeOK
<1>2. CASE UNCHANGED calls
  BY <1>2 DEF GotIsPrefix, calls, TypeOK
<1> QED
  BY <1>1, <1>2, OtherSteps

LEMMA StepCallTypes ==
    ASSUME CallTypes, OtherTypes, [Next]_vars
    PROVE  CallTypes'
<1> USE EmbedderAssumption DEF Daemons, Attempts
<1>1. ASSUME NEW c \in Calls, CallStep(c) PROVE CallTypes'
  <2>1. pc' \in [Calls -> {"idle", "lock", "info", "store", "reply", "backoff",
                           "done", "failed", "oversize"}]
    BY <1>1 DEF CallTypes, CallStep, CallContinues, Begin, Get, InfoAnswered, InfoStored, InfoFails,
                ChunkAnswered, ChunkRejected, ChunkFails, BackoffEnds, Interrupted, Goto, Fail,
                Informed, InfoError
  <2>2. plan' \in [Calls -> Daemons \union {0}]
    <3>1. CASE Get(c) \/ InfoAnswered(c)
      BY <3>1 DEF CallTypes, OtherTypes, Get, InfoAnswered, Fail
    <3>2. CASE ~(Get(c) \/ InfoAnswered(c))
      BY <1>1, <3>2 DEF CallTypes, CallStep, CallContinues, Begin, InfoStored, InfoFails,
                ChunkAnswered, ChunkRejected, ChunkFails, BackoffEnds, Interrupted, Fail, InfoError
    <3> QED
      BY <3>1, <3>2
  <2>3. tries' \in [Calls -> 0 .. Attempts - 1]
    <3>1. CASE ChunkFails(c)
      <4>1. \/ tries' = [tries EXCEPT ![c] = 0]
            \/ tries[c] + 1 < 3 /\ tries' = [tries EXCEPT ![c] = tries[c] + 1]
        BY <3>1 DEF ChunkFails, Fail
      <4>2. tries \in [Calls -> 0 .. 2]
        BY DEF CallTypes
      <4> QED
        BY <4>1, <4>2
    <3>2. CASE ~ChunkFails(c)
      BY <1>1, <3>2 DEF CallTypes, CallStep, CallContinues, Begin, Get, InfoAnswered, InfoStored,
                InfoFails, ChunkAnswered, ChunkRejected, BackoffEnds, Interrupted, Fail, InfoError
    <3> QED
      BY <3>1, <3>2
  <2>4. info' \in Daemons \union {0}
    BY <1>1 DEF CallTypes, CallStep, CallContinues, Begin, Get, InfoAnswered, InfoStored, InfoFails,
                ChunkAnswered, ChunkRejected, ChunkFails, BackoffEnds, Interrupted, cache
  <2>5. cooling' \in BOOLEAN
    BY <1>1 DEF CallTypes, CallStep, CallContinues, Begin, Get, InfoAnswered, InfoStored, InfoFails,
                ChunkAnswered, ChunkRejected, ChunkFails, BackoffEnds, Interrupted, InfoError, cache
  <2>6. mutex' \in Calls \union {NoCall}
    BY <1>1 DEF CallTypes, CallStep, CallContinues, Begin, Get, InfoAnswered, InfoStored, InfoFails,
                ChunkAnswered, ChunkRejected, ChunkFails, BackoffEnds, Interrupted, InfoError,
                Unlock, cache
  <2> QED
    BY <2>1, <2>2, <2>3, <2>4, <2>5, <2>6 DEF CallTypes
<1>2. CASE UNCHANGED <<calls, mutex>> /\ info' \in {info, 0} /\ cooling' \in {cooling, FALSE}
  BY <1>2 DEF CallTypes, calls
<1> QED
  BY <1>1, <1>2, OtherSteps

LEMMA StepOtherTypes ==
    ASSUME OtherTypes, [Next]_vars
    PROVE  OtherTypes'
<1> USE EmbedderAssumption DEF Daemons, OtherTypes
<1>1. ASSUME NEW c \in Calls, CallStep(c) PROVE OtherTypes'
  BY <1>1, CallsLeaveRest DEF runed, checks
<1>2. ASSUME NEW h \in Checks, HealthAnswered(h) PROVE OtherTypes'
  BY <1>2 DEF HealthAnswered, HealthGoto, runed
<1>3. ASSUME NEW h \in Checks, CompareUptime(h) PROVE OtherTypes'
  BY <1>3 DEF CompareUptime, HealthGoto, runed
<1>4. ASSUME NEW h \in Checks, Invalidate(h) PROVE OtherTypes'
  BY <1>4 DEF Invalidate, HealthGoto, runed
<1>5. ASSUME NEW h \in Checks, StoreUptime(h) PROVE OtherTypes'
  BY <1>5 DEF StoreUptime, HealthGoto, runed
<1>6. CASE CooldownPasses \/ Tick \/ ServingChanges \/ Restart
  BY <1>6 DEF CooldownPasses, Tick, ServingChanges, Restart, runed, checks
<1>7. CASE UNCHANGED vars
  BY <1>7 DEF vars, runed, checks
<1> QED
  BY <1>1, <1>2, <1>3, <1>4, <1>5, <1>6, <1>7 DEF Next, CallStep, HealthContinues

LEMMA StepTypes ==
    ASSUME ClientInv, [Next]_vars
    PROVE  TypeOK'
<1>1. CallTypes' /\ OtherTypes'
  BY TypesApart, StepCallTypes, StepOtherTypes DEF ClientInv
<1> QED
  BY <1>1, StepGot DEF TypeOK, CallTypes, OtherTypes

LEMMA StepMutex ==
    ASSUME ClientInv, [Next]_vars
    PROVE  RpcHoldsMutex'
<1> USE EmbedderAssumption DEF ClientInv, TypeOK, RpcHoldsMutex
<1>1. ASSUME NEW c \in Calls, CallStep(c) PROVE RpcHoldsMutex'
  <2>1. CASE Begin(c)
    BY <2>1 DEF Begin, Goto, cache
  <2>2. CASE Get(c)
    BY <2>2 DEF Get, Goto, Fail, Informed
  <2>3. CASE InfoAnswered(c)
    BY <2>3 DEF InfoAnswered, Goto, cache
  <2>4. CASE InfoStored(c)
    BY <2>4 DEF InfoStored, Goto, Informed, Unlock
  <2>5. CASE InfoFails(c) \/ Interrupted(c)
    BY <2>5 DEF InfoFails, Interrupted, InfoError, Fail, Goto, Unlock
  <2>6. CASE ChunkAnswered(c) \/ ChunkRejected(c) \/ ChunkFails(c) \/ BackoffEnds(c)
    BY <2>6 DEF ChunkAnswered, ChunkRejected, ChunkFails, BackoffEnds, Fail, Goto, cache
  <2> QED
    BY <1>1, <2>1, <2>2, <2>3, <2>4, <2>5, <2>6 DEF CallStep, CallContinues
<1>2. CASE UNCHANGED <<calls, mutex>>
  BY <1>2 DEF calls
<1> QED
  BY <1>1, <1>2, OtherSteps

LEMMA StepAhead ==
    ASSUME ClientInv, [Next]_vars
    PROVE  NobodyIsAhead'
<1>1. /\ daemon \in Nat /\ info \in Nat /\ outdated \in Nat
      /\ plan \in [Calls -> Nat]
      /\ \A h \in Checks : answer[h][1] \in Nat
  BY DEF ClientInv, TypeOK, Daemons
<1>2. /\ info <= daemon /\ outdated <= daemon
      /\ \A c \in Calls : plan[c] <= daemon
      /\ \A h \in Checks : answer[h][1] <= daemon
  BY DEF ClientInv, NobodyIsAhead
<1>3. daemon' \in Nat /\ daemon' >= daemon
  BY TypesApart, StepOtherTypes, OtherDaemons DEF ClientInv, OtherTypes, Daemons
<1>4. outdated' <= daemon'
  BY <1>1, <1>2, <1>3, TypesApart, OtherDaemons DEF ClientInv
<1>5. ASSUME NEW h \in Checks PROVE answer'[h][1] <= daemon'
  <2>1. answer'[h] \in {answer[h], <<daemon, up>>, <<0, 0>>}
    BY TypesApart, OtherDaemons DEF ClientInv
  <2>2. answer'[h][1] \in {answer[h][1], daemon, 0}
    BY <2>1
  <2> QED
    BY <1>1, <1>2, <1>3, <2>2
<1>6. ASSUME NEW d \in Calls PROVE plan'[d] \in {plan[d], 0, info, daemon}
  BY <1>1, OtherSteps, PlanShapes DEF calls
<1>7. info' = 0 \/ info' = info \/ \E c \in Calls : info' = plan[c]
  BY OtherSteps, PlanShapes
<1> QED
  BY <1>1, <1>2, <1>3, <1>4, <1>5, <1>6, <1>7 DEF NobodyIsAhead

\* Invalidate finds nobody between the answer and the store.
LEMMA StepPlans ==
    ASSUME ClientInv, [Next]_vars
    PROVE  PlansAreSound'
<1> USE EmbedderAssumption DEF ClientInv, TypeOK, PlansAreSound, Daemons
<1>1. ASSUME NEW c \in Calls, CallStep(c) PROVE PlansAreSound'
  <2>1. outdated' = outdated
    BY <1>1, CallsLeaveRest DEF checks
  <2>2. CASE Begin(c)
    BY <2>1, <2>2 DEF Begin, Goto
  <2>3. CASE Get(c)
    BY <2>1, <2>3 DEF Get, Goto, Fail, Informed
  <2>4. CASE InfoAnswered(c)
    BY <2>1, <2>4 DEF InfoAnswered, Goto, NobodyIsAhead
  <2>5. CASE InfoStored(c)
    BY <2>1, <2>5 DEF InfoStored, Goto, Informed
  <2>6. CASE InfoFails(c) \/ Interrupted(c)
    BY <2>1, <2>6 DEF InfoFails, Interrupted, InfoError, Fail, Goto
  <2>7. CASE ChunkAnswered(c)
    BY <2>1, <2>7 DEF ChunkAnswered, Goto
  <2>8. CASE ChunkRejected(c) \/ ChunkFails(c) \/ BackoffEnds(c)
    BY <2>1, <2>8 DEF ChunkRejected, ChunkFails, BackoffEnds, Fail, Goto
  <2> QED
    BY <1>1, <2>2, <2>3, <2>4, <2>5, <2>6, <2>7, <2>8 DEF CallStep, CallContinues
<1>2. ASSUME NEW h \in Checks, Invalidate(h) PROVE PlansAreSound'
  BY <1>2 DEF Invalidate, RpcHoldsMutex, calls
<1>3. CASE UNCHANGED <<calls, outdated>>
  BY <1>3 DEF calls
<1>4. \/ \E c \in Calls : CallStep(c)
      \/ \E h \in Checks : Invalidate(h)
      \/ UNCHANGED <<calls, outdated>>
  BY DEF Next, CallStep, HealthAnswered, HealthContinues, CompareUptime, StoreUptime,
         CooldownPasses, Tick, ServingChanges, Restart, vars, checks
<1> QED
  BY <1>1, <1>2, <1>3, <1>4

\* A chunk that is rejected is within the limit of another daemon, the one the call
\* knows: without Info it is of one text, which no limit excludes.
LEMMA StepOversize ==
    ASSUME ClientInv, [Next]_vars
    PROVE  OversizeMeansRestart'
<1> USE EmbedderAssumption DEF ClientInv, OversizeMeansRestart, Daemons
<1>1. ASSUME NEW c \in Calls, CallStep(c) PROVE OversizeMeansRestart'
  <2>1. daemon' = daemon
    BY <1>1, CallsLeaveRest DEF runed
  <2>2. CASE ChunkRejected(c)
    <3>1. plan[c] # 0
      <4>1. SUFFICES ASSUME plan[c] = 0 PROVE FALSE
        OBVIOUS
      <4>2. Size[c] = 1
        BY <2>2, <4>1 DEF ChunkRejected, PlansAreSound
      <4>3. Len(Chunk(c)) <= 1
        BY <4>2, ChunkFits, GotFacts
      <4> QED
        BY <2>2, <4>3, ChunkFits, GotFacts DEF ChunkRejected, Accepts, TypeOK
    <3>2. plan[c] # daemon
      BY <2>2, <3>1, ChunkFits DEF ChunkRejected, Accepts
    <3>3. plan[c] \in 1 .. daemon - 1
      BY <3>1, <3>2 DEF NobodyIsAhead, TypeOK
    <3> QED
      BY <2>1, <2>2, <3>3 DEF ChunkRejected, Goto, TypeOK
  <2>3. CASE ~ChunkRejected(c)
    <3>1. ASSUME NEW d \in Calls, pc'[d] = "oversize"
          PROVE  pc[d] = "oversize" /\ plan'[d] = plan[d]
      <4> USE DEF Goto, Fail, TypeOK
      <4>1. CASE Begin(c)
        BY <3>1, <4>1 DEF Begin
      <4>2. CASE Get(c)
        BY <3>1, <4>2 DEF Get, Informed
      <4>3. CASE InfoAnswered(c)
        BY <3>1, <4>3 DEF InfoAnswered
      <4>4. CASE InfoStored(c)
        BY <3>1, <4>4 DEF InfoStored, Informed
      <4>5. CASE InfoFails(c) \/ Interrupted(c)
        BY <3>1, <4>5 DEF InfoFails, Interrupted, InfoError
      <4>6. CASE ChunkAnswered(c)
        BY <3>1, <4>6 DEF ChunkAnswered
      <4>7. CASE ChunkFails(c) \/ BackoffEnds(c)
        BY <3>1, <4>7 DEF ChunkFails, BackoffEnds
      <4> QED
        BY <1>1, <2>3, <4>1, <4>2, <4>3, <4>4, <4>5, <4>6, <4>7 DEF CallStep, CallContinues
    <3> QED
      BY <2>1, <3>1
  <2> QED
    BY <2>2, <2>3
<1>2. CASE UNCHANGED <<calls, mutex>>
  <2>1. daemon' \in Daemons /\ daemon' >= daemon
    BY TypesApart, StepOtherTypes, OtherDaemons DEF OtherTypes
  <2>2. daemon \in Daemons
    BY DEF TypeOK
  <2> QED
    BY <1>2, <2>1, <2>2 DEF calls
<1> QED
  BY <1>1, <1>2, OtherSteps

LEMMA StepRegression ==
    ASSUME ClientInv, [Next]_vars
    PROVE  RegressionOutdatesInfo'
<1> USE EmbedderAssumption DEF ClientInv, TypeOK, RegressionOutdatesInfo, Daemons
<1>1. ASSUME NEW c \in Calls, CallStep(c) PROVE RegressionOutdatesInfo'
  <2>1. outdated' = outdated
    BY <1>1, CallsLeaveRest DEF checks
  <2>2. CASE InfoStored(c)
    BY <2>1, <2>2 DEF InfoStored, PlansAreSound
  <2>3. CASE ~InfoStored(c)
    BY <1>1, <2>1, <2>3
       DEF CallStep, CallContinues, Begin, Get, InfoAnswered, InfoFails, ChunkAnswered, ChunkRejected,
           ChunkFails, BackoffEnds, Interrupted, cache
  <2> QED
    BY <2>2, <2>3
<1>2. ASSUME NEW h \in Checks, Invalidate(h) PROVE RegressionOutdatesInfo'
  BY <1>2 DEF Invalidate
<1>3. CASE UNCHANGED <<info, outdated>>
  BY <1>3
<1>4. \/ \E c \in Calls : CallStep(c)
      \/ \E h \in Checks : Invalidate(h)
      \/ UNCHANGED <<info, outdated>>
  BY DEF Next, CallStep, HealthAnswered, HealthContinues, CompareUptime, StoreUptime,
         CooldownPasses, Tick, ServingChanges, Restart, vars, cache, checks
<1> QED
  BY <1>1, <1>2, <1>3, <1>4

LEMMA ClientInvHolds == Spec => []ClientInv
<1> USE EmbedderAssumption DEF Daemons
<1>1. Init => ClientInv
  <2> SUFFICES ASSUME Init PROVE ClientInv
    OBVIOUS
  <2>1. TypeOK
    <3>1. CallTypes
      <4>1. plan \in [Calls -> Daemons \union {0}] /\ tries \in [Calls -> 0 .. Attempts - 1]
        BY DEF Init, Attempts
      <4> QED
        BY <4>1 DEF Init, CallTypes
    <3>2. OtherTypes
      <4>1. answer \in [Checks -> (Daemons \union {0}) \X (0 .. MaxUptime)]
        BY DEF Init
      <4> QED
        BY <4>1 DEF Init, OtherTypes
    <3>3. \A c \in Calls : got[c] \in Seq(1 .. Size[c]) /\ Len(got[c]) <= Size[c]
      <4> SUFFICES ASSUME NEW c \in Calls
                   PROVE  got[c] \in Seq(1 .. Size[c]) /\ Len(got[c]) <= Size[c]
        OBVIOUS
      <4>1. <<>> \in Seq(1 .. Size[c]) /\ Len(<<>>) = 0 /\ Size[c] \in Nat
        OBVIOUS
      <4>2. got[c] = <<>>
        BY DEF Init
      <4> QED
        BY <4>1, <4>2
    <3> QED
      BY <3>1, <3>2, <3>3 DEF TypeOK, CallTypes, OtherTypes
  <2>2. RpcHoldsMutex /\ NobodyIsAhead /\ PlansAreSound
    BY DEF Init, RpcHoldsMutex, NobodyIsAhead, PlansAreSound
  <2>3. GotIsPrefix
    BY DEF Init, GotIsPrefix, InOrder
  <2> QED
    BY <2>1, <2>2, <2>3 DEF Init, ClientInv, OversizeMeansRestart, RegressionOutdatesInfo
<1>2. ClientInv /\ [Next]_vars => ClientInv'
  BY StepTypes, StepMutex, StepGot, StepAhead, StepPlans, StepOversize, StepRegression
     DEF ClientInv
<1> QED
  BY <1>1, <1>2, PTL DEF Spec

-----------------------------------------------------------------------------
(* Theorems. *)

\* The variables of the client have their types: in particular a chunk is tried at most
\* three times and no call has more vectors than texts.
THEOREM ClientTypeCorrect == Spec => []TypeOK
BY ClientInvHolds, PTL DEF ClientInv

\* EmbedBatch answers with one vector for each text, in the order of the texts, for any
\* limits, any restarts and any number of retries.
THEOREM BatchesAreComplete == Spec => []BatchIsComplete
<1>1. ClientInv => BatchIsComplete
  BY DEF ClientInv, GotIsPrefix, InOrder, BatchIsComplete
<1> QED
  BY <1>1, ClientInvHolds, PTL

\* The daemon that rejects a request as too large is a later one than the daemon whose
\* Info the call went by.
THEOREM OversizeIsRestart == Spec => []OversizeMeansRestart
BY ClientInvHolds, PTL DEF ClientInv

\* Info of a daemon from before the restart that Health noticed is not stored again: the
\* mutex is kept over the RPC, so the answer to store was given after the invalidation.
THEOREM OutdatedInfoStaysAway == Spec => []RegressionOutdatesInfo
BY ClientInvHolds, PTL DEF ClientInv
=============================================================================
