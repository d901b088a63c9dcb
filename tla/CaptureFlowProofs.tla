------------------------- MODULE CaptureFlowProofs -------------------------
(***************************************************************************)
(* Theorems of CaptureFlow, for any calls, batches and number of boots.    *)
(*                                                                         *)
(* What the index holds of an item is known from its request alone: a      *)
(* request names its item and carries its insight (RequestsFit), is sent   *)
(* by the item at hand or was left behind by one that is over              *)
(* (RequestsAreOwned), and a row is the only one of its request            *)
(* (RowsAreDistinct).  From these follow that an item is stored once, that *)
(* reports stay true, and the refinement of CapturePromise.                *)
(***************************************************************************)
EXTENDS CaptureRefinement, TLAPS

LEMMA BatchFacts ==
    ASSUME NEW c \in Calls
    PROVE  /\ Len(Batch[c]) \in Nat \ {0}
           /\ \A i \in 1 .. Len(Batch[c]) : Batch[c][i] \in Insights
<1>1. Batch[c] \in Seq(Range(Batch[c])) /\ Batch[c] # <<>>
  BY CaptureAssumption
<1>2. Len(Batch[c]) \in Nat \ {0}
  BY <1>1
<1>3. \A i \in 1 .. Len(Batch[c]) : Batch[c][i] \in Range(Batch[c])
  BY <1>1
<1> QED
  BY <1>2, <1>3 DEF Insights

-----------------------------------------------------------------------------
(* The shapes of the steps. *)

\* Handle goes on with the item at hand and sends nothing.
Moves(c) ==
    /\ \/ Begin(c) \/ Novel(c) \/ EmbedAndSeal(c)
       \/ /\ pc[c] = "reply" /\ tries[c] = 1 /\ Goto(c, "wait")
          /\ UNCHANGED <<boot, results, item, quiet, server>>
       \/ /\ pc[c] = "wait" /\ gate = "active" /\ Goto(c, "retry")
          /\ UNCHANGED <<boot, results, item, quiet, server>>

\* A request goes out, the first or the same again.
Sends(c) ==
    \/ Insert(c)
    \/ /\ pc[c] = "retry" /\ Send(c) /\ Goto(c, "reply")
       /\ UNCHANGED <<boot, results, seen, sealed, client, quiet, rows>>

\* Handle is done with the item at hand.
Finishes(c, status) ==
    /\ pc[c] \in PCs \ {"idle", "insert", "done"}
    /\ status \in Statuses
    /\ status = "near_duplicate" =>
          pc[c] = "novelty" /\ \E k \in 1 .. Len(rows) : rows[k].insight = Insight(c)
    /\ status = "captured" => pc[c] = "reply" /\ Committed(Request(c))
    /\ FinishItem(c, status)
    /\ UNCHANGED <<boot, server>>

LEMMA CallShapes ==
    ASSUME NEW c \in Calls, Begin(c) \/ CallContinues(c)
    PROVE  Moves(c) \/ Sends(c) \/ \E status \in Statuses : Finishes(c, status)
<1> USE DEF PCs, Statuses, server
<1>1. CASE NearDuplicate(c)
  BY <1>1 DEF NearDuplicate, Finishes
<1>2. CASE EmbedFails(c)
  BY <1>2 DEF EmbedFails, Finishes
<1>3. CASE Retry(c)
  BY <1>3 DEF Retry, Sends, Finishes
<1>4. CASE InsertAnswers(c)
  BY <1>4 DEF InsertAnswers, Finishes
<1>5. CASE InsertFails(c)
  BY <1>5 DEF InsertFails, Moves, Finishes
<1>6. CASE WaitForActive(c)
  BY <1>6 DEF WaitForActive, Moves, Finishes
<1> QED
  BY <1>1, <1>2, <1>3, <1>4, <1>5, <1>6 DEF CallContinues, Moves, Sends

LEMMA CloseShape ==
    ASSUME BootStep
    PROVE  UNCHANGED <<pc, results, item, server>>
  BY DEF BootStep, Retrigger, ApplyAgentId, ApplyAgentKey, InjectEnvector,
         AttemptFails, BootEnds, CloseStale

-----------------------------------------------------------------------------
(* Types. *)

\* What a call has sent for the item at hand, and that there is one.
ItemAtHand ==
    \A c \in Calls :
        /\ pc[c] # "done" => Current(c) <= Len(Batch[c])
        /\ pc[c] \notin {"wait", "retry", "reply"} => tries[c] = 0
        /\ pc[c] \in {"wait", "retry"} => tries[c] = 1

TypeInv == TypeOK /\ ItemAtHand

BootTypes ==
    /\ gate \in {"booting", "active", "dormant"}
    /\ stage \in {"vault", "key", "envector", "open"}
    /\ {gen, agentId, agentKey, wired} \subseteq Gens
    /\ doomed \subseteq Gens /\ closed \subseteq Gens

LEMMA BootTypesStep ==
    ASSUME BootTypes, BootStep
    PROVE  BootTypes'
<1> USE DEF BootTypes
<1>1. CASE Retrigger
  BY <1>1 DEF Retrigger
<1>2. CASE ApplyAgentId
  <2>1. gen + 1 \in Gens
    BY <1>2, CaptureAssumption DEF ApplyAgentId, Gens
  <2> QED
    BY <1>2, <2>1 DEF ApplyAgentId
<1>3. CASE ApplyAgentKey
  BY <1>3 DEF ApplyAgentKey
<1>4. CASE InjectEnvector
  BY <1>4 DEF InjectEnvector
<1>5. CASE AttemptFails \/ BootEnds
  BY <1>5 DEF AttemptFails, BootEnds
<1>6. ASSUME NEW g \in Gens, CloseStale(g) PROVE BootTypes'
  BY <1>6 DEF CloseStale
<1> QED
  BY <1>1, <1>2, <1>3, <1>4, <1>5, <1>6 DEF BootStep

LEMMA InitTypes == Init => TypeInv
<1> SUFFICES ASSUME Init PROVE TypeInv
  OBVIOUS
<1>1. {gen, agentId, agentKey, wired} \subseteq Gens /\ 1 \in Gens
  BY CaptureAssumption DEF Init, Gens
<1>2. TypeOK
  BY <1>1, BatchFacts DEF Init, TypeOK, PCs
<1>3. ItemAtHand
  BY BatchFacts DEF Init, ItemAtHand, Current
<1> QED
  BY <1>2, <1>3 DEF TypeInv

LEMMA SendTypes ==
    ASSUME NEW c \in Calls, TypeInv, Sends(c)
    PROVE  TypeInv'
<1> DEFINE q == [id |-> Request(c), insight |-> Insight(c), seen |-> seen[c]]
<1>1. tries[c] \in {0, 1} /\ pc[c] \in {"insert", "retry"}
  BY DEF TypeInv, ItemAtHand, Sends, Insert
<1>2. inflight' = inflight \union {q} /\ tries' = [tries EXCEPT ![c] = @ + 1]
  BY DEF Sends, Insert, Send
<1>3. pc' = [pc EXCEPT ![c] = "reply"]
  BY DEF Sends, Insert, Goto
<1>4. q \in [id : RequestIds, insight : Insights, seen : Nat]
  <2>1. Current(c) \in 1 .. Len(Batch[c])
    BY <1>1, BatchFacts DEF TypeInv, TypeOK, ItemAtHand, Current
  <2> QED
    BY <2>1, BatchFacts DEF TypeInv, TypeOK, Request, RequestIds, Insight
<1>5. client' \in [Calls -> Gens]
  BY DEF TypeInv, TypeOK, Sends, Insert
<1>6. UNCHANGED <<boot, results, seen, sealed, quiet, rows>>
  BY DEF Sends, Insert
<1>7. TypeOK'
  <2>1. tries' \in [Calls -> 0 .. 2]
    BY <1>1, <1>2 DEF TypeInv, TypeOK
  <2>2. inflight' \subseteq [id : RequestIds, insight : Insights, seen : Nat]
    BY <1>2, <1>4 DEF TypeInv, TypeOK
  <2> HIDE DEF q
  <2> QED
    BY <2>1, <2>2, <1>3, <1>5, <1>6 DEF TypeInv, TypeOK, PCs, boot
<1>8. ItemAtHand'
  BY <1>1, <1>2, <1>3, <1>6 DEF TypeInv, TypeOK, ItemAtHand, Current
<1> QED
  BY <1>7, <1>8 DEF TypeInv

LEMMA FinishTypes ==
    ASSUME NEW c \in Calls, NEW status, TypeInv, Finishes(c, status)
    PROVE  TypeInv'
<1>1. Current(c) \in 1 .. Len(Batch[c])
  BY BatchFacts DEF TypeInv, TypeOK, ItemAtHand, Current, Finishes
<1>2. /\ results' = [results EXCEPT ![c] = Append(@, status)]
      /\ results[c] \in Seq(Statuses) /\ status \in Statuses
  BY DEF TypeInv, TypeOK, Finishes, FinishItem
<1>3. Len(results'[c]) = Current(c) /\ results'[c] \in Seq(Statuses)
  BY <1>2 DEF Current, TypeInv, TypeOK
<1>4. \A d \in Calls \ {c} : results'[d] = results[d]
  BY <1>2 DEF TypeInv, TypeOK
<1>5. 1 \in Gens
  BY CaptureAssumption DEF Gens
<1>6. UNCHANGED <<boot, server>>
  BY DEF Finishes
<1>7. results' \in [Calls -> Seq(Statuses)]
  BY <1>2, <1>3 DEF TypeInv, TypeOK
<1>8. \A d \in Calls : Len(results'[d]) <= Len(Batch[d])
  <2> SUFFICES ASSUME NEW d \in Calls PROVE Len(results'[d]) <= Len(Batch[d])
    OBVIOUS
  <2>1. CASE d = c
    BY <2>1, <1>1, <1>3, BatchFacts
  <2>2. CASE d # c
    BY <2>2, <1>4 DEF TypeInv, TypeOK
  <2> QED
    BY <2>1, <2>2
<1>9. TypeOK'
  BY <1>5, <1>6, <1>7, <1>8
     DEF TypeInv, TypeOK, PCs, boot, server, Finishes, FinishItem, Goto
<1>10. ItemAtHand'
  <2> SUFFICES ASSUME NEW d \in Calls
               PROVE  /\ pc'[d] # "done" => Len(results'[d]) + 1 <= Len(Batch[d])
                      /\ pc'[d] \notin {"wait", "retry", "reply"} => tries'[d] = 0
                      /\ pc'[d] \in {"wait", "retry"} => tries'[d] = 1
    BY DEF ItemAtHand, Current
  <2>1. CASE d = c
    <3>1. pc'[c] = (IF Current(c) = Len(Batch[c]) THEN "done" ELSE "novelty")
      BY DEF TypeInv, TypeOK, Finishes, FinishItem, Goto
    <3>2. tries'[c] = 0
      BY DEF TypeInv, TypeOK, Finishes, FinishItem
    <3> QED
      BY <2>1, <3>1, <3>2, <1>1, <1>3, BatchFacts
  <2>2. CASE d # c
    BY <2>2, <1>4 DEF TypeInv, TypeOK, ItemAtHand, Current, Finishes, FinishItem, Goto
  <2> QED
    BY <2>1, <2>2
<1> QED
  BY <1>9, <1>10 DEF TypeInv

LEMMA StepTypes == TypeInv /\ [Next]_vars => TypeInv'
<1> SUFFICES ASSUME TypeInv, [Next]_vars PROVE TypeInv'
  OBVIOUS
<1>1. ASSUME NEW c \in Calls, Moves(c) PROVE TypeInv'
  <2>1. UNCHANGED <<boot, results, client, tries, quiet, server>>
    BY <1>1 DEF Moves, Begin, Novel, EmbedAndSeal, item
  <2>2. TypeOK'
    <3>1. pc' \in [Calls -> PCs]
      BY <1>1 DEF TypeInv, TypeOK, PCs, Moves, Begin, Novel, EmbedAndSeal, Goto
    <3> DEFINE R == [id : RequestIds, insight : Insights, seen : Nat]
    <3>2. Len(rows) \in Nat
      <4>1. rows \in Seq(R)
        BY DEF TypeInv, TypeOK
      <4> HIDE DEF R
      <4> QED
        BY <4>1
    <3>3. seen' \in [Calls -> Nat]
      BY <1>1, <3>2 DEF TypeInv, TypeOK, item, Moves, Begin, Novel, EmbedAndSeal
    <3>4. sealed' \in [Calls -> Gens \X Gens]
      BY <1>1 DEF TypeInv, TypeOK, item, Moves, Begin, Novel, EmbedAndSeal
    <3> QED
      BY <2>1, <3>1, <3>3, <3>4 DEF TypeInv, TypeOK, boot, server
  <2>3. ItemAtHand'
    BY <1>1, <2>1 DEF TypeInv, TypeOK, ItemAtHand, Current, Moves, Begin, Novel,
       EmbedAndSeal, Goto
  <2> QED
    BY <2>2, <2>3 DEF TypeInv
<1>2. ASSUME NEW r \in inflight, Commit(r) PROVE TypeInv'
  <2> DEFINE R == [id : RequestIds, insight : Insights, seen : Nat]
  <2>1. r \in R /\ rows \in Seq(R)
    BY <1>2 DEF TypeInv, TypeOK
  <2> HIDE DEF R
  <2>2. rows' \in Seq(R)
    BY <1>2, <2>1 DEF Commit
  <2> USE DEF R
  <2> QED
    BY <1>2, <2>2 DEF TypeInv, TypeOK, ItemAtHand, Current, Commit, boot, item
<1>3. CASE BootStep
  <2>1. BootTypes'
    BY <1>3, BootTypesStep DEF TypeInv, TypeOK, BootTypes
  <2>2. quiet' \in [Calls -> BOOLEAN]
    <3>1. CASE Retrigger
      BY <3>1 DEF Retrigger
    <3>2. CASE ~Retrigger
      BY <1>3, <3>2 DEF TypeInv, TypeOK, BootStep, ApplyAgentId, ApplyAgentKey,
         InjectEnvector, AttemptFails, BootEnds, CloseStale
    <3> QED
      BY <3>1, <3>2
  <2> QED
    BY <1>3, <2>1, <2>2, CloseShape
       DEF TypeInv, TypeOK, BootTypes, ItemAtHand, Current, item, server
<1>4. CASE UNCHANGED vars
  BY <1>4 DEF vars, boot, item, server, TypeInv, TypeOK, ItemAtHand, Current
<1> QED
  BY <1>1, <1>2, <1>3, <1>4, CallShapes, SendTypes, FinishTypes DEF Next

\* Every variable keeps its type, and a call never reports more items than its batch has.
THEOREM CaptureTypeCorrect == Spec => []TypeOK
<1>1. TypeInv => TypeOK
  BY DEF TypeInv
<1> QED
  BY <1>1, InitTypes, StepTypes, PTL DEF Spec

-----------------------------------------------------------------------------
(* Requests, rows and what was said of the items. *)

RequestRecords == [id : RequestIds, insight : Insights, seen : Nat]

\* Every request that is on its way or was committed.
Sent == inflight \union {rows[k] : k \in 1 .. Len(rows)}

Fits(r) ==
    /\ r.id[3] = 0
    /\ r.id[2] \in 1 .. Len(Batch[r.id[1]])
    /\ r.insight = Batch[r.id[1]][r.id[2]]

\* The item of a request is at hand, or is over and was not refused as known.
Owned(r) ==
    LET c == r.id[1]
        i == r.id[2]
    IN  \/ i <= Len(results[c]) /\ results[c][i] \in {"captured", "error"}
        \/ i = Current(c) /\ pc[c] \in {"reply", "wait", "retry"}

RequestsAreOwned == \A r \in Sent : Fits(r) /\ Owned(r)

RowsAreDistinct ==
    \A j, k \in 1 .. Len(rows) : rows[j].id = rows[k].id => j = k

CapturedIsStored ==
    \A c \in Calls : \A i \in 1 .. Len(results[c]) :
        results[c][i] = "captured" => Stored(c, i)

IndexInv == RequestsAreOwned /\ RowsAreDistinct /\ CapturedIsStored

LEMMA TypeFacts ==
    ASSUME TypeInv
    PROVE  /\ rows \in Seq(RequestRecords) /\ inflight \subseteq RequestRecords
           /\ Len(rows) \in Nat
           /\ \A k \in 1 .. Len(rows) : rows[k] \in RequestRecords
           /\ Sent \subseteq RequestRecords
           /\ \A c \in Calls : Len(results[c]) \in Nat
<1>1. rows \in Seq(RequestRecords) /\ inflight \subseteq RequestRecords
  BY DEF TypeInv, TypeOK, RequestRecords
<1>2. Len(rows) \in Nat /\ \A k \in 1 .. Len(rows) : rows[k] \in RequestRecords
  BY <1>1
<1>3. \A c \in Calls : Len(results[c]) \in Nat
  BY DEF TypeInv, TypeOK
<1> QED
  BY <1>1, <1>2, <1>3 DEF Sent

LEMMA IdFacts ==
    ASSUME NEW r \in RequestRecords
    PROVE  /\ r.id[1] \in Calls /\ r.id[2] \in Nat /\ r.id[3] \in Nat
           /\ r.id = <<r.id[1], r.id[2], r.id[3]>>
           /\ r.insight \in Insights /\ r.seen \in Nat
  BY DEF RequestRecords, RequestIds

LEMMA FinishFacts ==
    ASSUME NEW c \in Calls, NEW status, TypeInv, Finishes(c, status)
    PROVE  /\ Current(c) \in 1 .. Len(Batch[c])
           /\ Current(c) = Len(results[c]) + 1
           /\ Len(results'[c]) = Current(c)
           /\ \A i \in 1 .. Len(results[c]) : results'[c][i] = results[c][i]
           /\ results'[c][Current(c)] = status
           /\ \A d \in Calls \ {c} : results'[d] = results[d] /\ pc'[d] = pc[d]
           /\ pc'[c] \in {"novelty", "done"}
           /\ UNCHANGED server
<1>1. Current(c) \in 1 .. Len(Batch[c])
  BY BatchFacts DEF TypeInv, TypeOK, ItemAtHand, Current, Finishes
<1>2. results[c] \in Seq(Statuses) /\ status \in Statuses
  BY DEF TypeInv, TypeOK, Finishes
<1>3. results' = [results EXCEPT ![c] = Append(results[c], status)]
  BY DEF Finishes, FinishItem
<1>4. results'[c] = Append(results[c], status)
  BY <1>3 DEF TypeInv, TypeOK
<1>5. \A d \in Calls \ {c} : results'[d] = results[d] /\ pc'[d] = pc[d]
  BY <1>3 DEF TypeInv, TypeOK, Finishes, FinishItem, Goto
<1>6. pc'[c] \in {"novelty", "done"} /\ UNCHANGED server
  BY DEF TypeInv, TypeOK, Finishes, FinishItem, Goto
<1>7. /\ Len(results'[c]) = Current(c) /\ Current(c) = Len(results[c]) + 1
      /\ \A i \in 1 .. Len(results[c]) : results'[c][i] = results[c][i]
      /\ results'[c][Current(c)] = status
  BY <1>2, <1>4 DEF Current
<1> QED
  BY <1>1, <1>5, <1>6, <1>7

LEMMA SendFacts ==
    ASSUME NEW c \in Calls, TypeInv, Sends(c)
    PROVE  /\ pc[c] \in {"insert", "retry"}
           /\ Current(c) \in 1 .. Len(Batch[c])
           /\ inflight' = inflight \union
                 {[id |-> <<c, Current(c), 0>>, insight |-> Batch[c][Current(c)],
                   seen |-> seen[c]]}
           /\ pc' = [pc EXCEPT ![c] = "reply"]
           /\ UNCHANGED <<boot, results, seen, quiet, rows>>
<1>1. pc[c] \in {"insert", "retry"} /\ pc[c] # "done"
  BY DEF Sends, Insert
<1>2. Current(c) \in 1 .. Len(Batch[c])
  BY <1>1, BatchFacts DEF TypeInv, TypeOK, ItemAtHand, Current
<1> QED
  BY <1>1, <1>2 DEF Sends, Insert, Send, Goto, Request, Insight

LEMMA MoveFacts ==
    ASSUME NEW c \in Calls, TypeInv, Moves(c)
    PROVE  /\ UNCHANGED <<results, server, boot, quiet>>
           /\ \A d \in Calls \ {c} : pc'[d] = pc[d]
           /\ pc[c] \in {"reply", "wait", "retry"} => pc'[c] \in {"wait", "retry"}
<1>1. UNCHANGED <<results, server, boot, quiet>>
  BY DEF Moves, Begin, Novel, EmbedAndSeal
<1>2. /\ \A d \in Calls \ {c} : pc'[d] = pc[d]
      /\ pc[c] \in {"reply", "wait", "retry"} => pc'[c] \in {"wait", "retry"}
  BY DEF Moves, Begin, Novel, EmbedAndSeal, Goto, TypeInv, TypeOK
<1> QED
  BY <1>1, <1>2

LEMMA OwnedStays ==
    ASSUME TypeInv, [Next]_vars, NEW r \in RequestRecords, Fits(r), Owned(r)
    PROVE  Owned(r)'
<1> DEFINE d == r.id[1]
           i == r.id[2]
<1>1. d \in Calls /\ i \in Nat \ {0} /\ Len(results[d]) \in Nat
  BY IdFacts, TypeFacts, BatchFacts DEF Fits
<1>2. ASSUME NEW c \in Calls, Moves(c) PROVE Owned(r)'
  BY <1>1, <1>2, MoveFacts DEF Owned, Current
<1>3. ASSUME NEW c \in Calls, Sends(c) PROVE Owned(r)'
  BY <1>1, <1>3, SendFacts DEF Owned, Current, TypeInv, TypeOK
<1>4. ASSUME NEW c \in Calls, NEW status \in Statuses, Finishes(c, status)
      PROVE  Owned(r)'
  <2>1. CASE d # c
    BY <1>1, <1>4, <2>1, FinishFacts DEF Owned, Current
  <2>2. CASE d = c /\ i = Current(c)
    <3>1. status # "near_duplicate"
      BY <1>1, <1>4, <2>2 DEF Owned, Finishes, Current
    <3> QED
      BY <1>1, <1>4, <2>2, <3>1, FinishFacts DEF Owned, Statuses
  <2>3. CASE d = c /\ i # Current(c)
    <3>1. i <= Len(results[c]) /\ results[c][i] \in {"captured", "error"}
      BY <2>3 DEF Owned
    <3> QED
      BY <1>1, <1>4, <2>3, <3>1, FinishFacts DEF Owned
  <2> QED
    BY <2>1, <2>2, <2>3
<1>5. CASE UNCHANGED <<pc, results>>
  BY <1>5 DEF Owned, Current
<1>6. ASSUME NEW s \in inflight, Commit(s) PROVE Owned(r)'
  BY <1>5, <1>6 DEF Commit
<1> QED
  BY <1>2, <1>3, <1>4, <1>5, <1>6, CallShapes, CloseShape DEF Next, vars

LEMMA ServerShapes ==
    ASSUME [Next]_vars
    PROVE  \/ \E c \in Calls : Sends(c)
           \/ \E r \in inflight : Commit(r)
           \/ UNCHANGED server
<1>1. ASSUME NEW c \in Calls, Moves(c) PROVE UNCHANGED server
  BY <1>1 DEF Moves, Begin, Novel, EmbedAndSeal
<1>2. ASSUME NEW c \in Calls, NEW status, Finishes(c, status) PROVE UNCHANGED server
  BY <1>2 DEF Finishes
<1>3. CASE BootStep \/ UNCHANGED vars
  BY <1>3, CloseShape DEF vars
<1> QED
  BY <1>1, <1>2, <1>3, CallShapes DEF Next

LEMMA CommitFacts ==
    ASSUME TypeInv, NEW r \in inflight, Commit(r)
    PROVE  /\ r \in RequestRecords
           /\ inflight' \subseteq inflight
           /\ \/ rows' = rows /\ Committed(r.id)
              \/ /\ rows' = Append(rows, r) /\ ~Committed(r.id)
                 /\ Len(rows') = Len(rows) + 1 /\ rows'[Len(rows) + 1] = r
                 /\ \A k \in 1 .. Len(rows) : rows'[k] = rows[k]
           /\ UNCHANGED <<boot, pc, results, item, quiet>>
<1>1. r \in RequestRecords /\ rows \in Seq(RequestRecords)
  BY TypeFacts
<1>2. inflight' \subseteq inflight /\ UNCHANGED <<boot, pc, results, item, quiet>>
  BY DEF Commit
<1>3. CASE Committed(r.id)
  BY <1>1, <1>2, <1>3 DEF Commit
<1>4. CASE ~Committed(r.id)
  <2>1. rows' = Append(rows, r)
    BY <1>4 DEF Commit
  <2> QED
    BY <1>1, <1>2, <1>4, <2>1
<1> QED
  BY <1>3, <1>4

LEMMA RowsGrow ==
    ASSUME TypeInv, [Next]_vars
    PROVE  /\ Len(rows') \in Nat /\ Len(rows) <= Len(rows')
           /\ \A k \in 1 .. Len(rows) : rows'[k] = rows[k]
<1>1. ASSUME NEW c \in Calls, Sends(c) PROVE rows' = rows
  BY <1>1, SendFacts
<1>2. CASE rows' = rows
  BY <1>2, TypeFacts
<1>3. ASSUME NEW r \in inflight, Commit(r)
      PROVE  /\ Len(rows') \in Nat /\ Len(rows) <= Len(rows')
             /\ \A k \in 1 .. Len(rows) : rows'[k] = rows[k]
  BY <1>3, <1>2, CommitFacts, TypeFacts
<1> QED
  BY <1>1, <1>2, <1>3, ServerShapes DEF server

LEMMA RequestsStayOwned ==
    ASSUME TypeInv, RequestsAreOwned, [Next]_vars
    PROVE  RequestsAreOwned'
<1>1. \A r \in Sent : Fits(r)' /\ Owned(r)'
  <2> SUFFICES ASSUME NEW r \in Sent PROVE Fits(r)' /\ Owned(r)'
    OBVIOUS
  <2>1. r \in RequestRecords /\ Fits(r) /\ Owned(r)
    BY TypeFacts DEF RequestsAreOwned
  <2> QED
    BY <2>1, OwnedStays DEF Fits
<1>2. ASSUME NEW c \in Calls, Sends(c) PROVE RequestsAreOwned'
  <2>1. PICK q : /\ Sent' = Sent \union {q}
                 /\ q.id = <<c, Current(c), 0>>
                 /\ q.insight = Batch[c][Current(c)]
    <3> DEFINE s == [id |-> <<c, Current(c), 0>>, insight |-> Batch[c][Current(c)],
                     seen |-> seen[c]]
    <3>1. Sent' = Sent \union {s}
      BY <1>2, SendFacts DEF Sent
    <3> WITNESS s
    <3> QED
      BY <3>1
  <2>2. Fits(q)'
    BY <1>2, <2>1, SendFacts DEF Fits
  <2>3. Owned(q)'
    <3>1. pc'[c] = "reply" /\ Current(c)' = Current(c)
      BY <1>2, SendFacts DEF Current, TypeInv, TypeOK
    <3> QED
      BY <2>1, <3>1 DEF Owned
  <2> QED
    BY <1>1, <2>1, <2>2, <2>3 DEF RequestsAreOwned
<1>3. ASSUME NEW r \in inflight, Commit(r) PROVE RequestsAreOwned'
  <2>1. Sent' \subseteq Sent
    BY <1>3, CommitFacts, TypeFacts DEF Sent
  <2> QED
    BY <1>1, <2>1 DEF RequestsAreOwned
<1>4. CASE UNCHANGED server
  BY <1>1, <1>4 DEF RequestsAreOwned, Sent, server
<1> QED
  BY <1>2, <1>3, <1>4, ServerShapes

LEMMA RowsStayDistinct ==
    ASSUME TypeInv, RowsAreDistinct, [Next]_vars
    PROVE  RowsAreDistinct'
<1>1. ASSUME NEW r \in inflight, Commit(r) PROVE RowsAreDistinct'
  BY <1>1, CommitFacts, TypeFacts DEF RowsAreDistinct, Committed
<1>2. ASSUME NEW c \in Calls, Sends(c) PROVE rows' = rows
  BY <1>2, SendFacts
<1>3. CASE rows' = rows
  BY <1>3 DEF RowsAreDistinct
<1> QED
  BY <1>1, <1>2, <1>3, ServerShapes DEF server

LEMMA ResultShapes ==
    ASSUME [Next]_vars
    PROVE  \/ \E c \in Calls, status \in Statuses : Finishes(c, status)
           \/ UNCHANGED results
<1>1. ASSUME NEW c \in Calls, Moves(c) \/ Sends(c) PROVE UNCHANGED results
  BY <1>1 DEF Moves, Begin, Novel, EmbedAndSeal, Sends, Insert
<1>2. ASSUME NEW r \in inflight, Commit(r) PROVE UNCHANGED results
  BY <1>2 DEF Commit
<1>3. CASE BootStep \/ UNCHANGED vars
  BY <1>3, CloseShape DEF vars
<1> QED
  BY <1>1, <1>2, <1>3, CallShapes DEF Next

LEMMA CapturedStaysStored ==
    ASSUME TypeInv, CapturedIsStored, [Next]_vars
    PROVE  CapturedIsStored'
<1>1. ASSUME NEW c \in Calls, NEW i, Stored(c, i) PROVE Stored(c, i)'
  BY <1>1, RowsGrow, TypeFacts DEF Stored, OfItem
<1>2. ASSUME NEW c \in Calls, NEW status \in Statuses, Finishes(c, status)
      PROVE  CapturedIsStored'
  <2> SUFFICES ASSUME NEW d \in Calls, NEW i \in 1 .. Len(results'[d]),
                      results'[d][i] = "captured"
               PROVE  Stored(d, i)'
    BY DEF CapturedIsStored
  <2>1. CASE d # c \/ i \in 1 .. Len(results[c])
    BY <1>1, <1>2, <2>1, FinishFacts DEF CapturedIsStored
  <2>2. CASE d = c /\ i = Current(c)
    <3>1. Committed(<<c, Current(c), 0>>)
      BY <1>2, <2>2, FinishFacts DEF Finishes, Request
    <3>2. Stored(c, i)
      BY <2>2, <3>1 DEF Committed, Stored, OfItem
    <3> QED
      BY <1>1, <2>2, <3>2
  <2>3. d = c => i \in 1 .. Len(results[c]) \/ i = Current(c)
    BY <1>2, FinishFacts, TypeFacts
  <2> QED
    BY <2>1, <2>2, <2>3
<1>3. CASE UNCHANGED results
  BY <1>1, <1>3 DEF CapturedIsStored
<1> QED
  BY <1>2, <1>3, ResultShapes

LEMMA InitIndex == Init => IndexInv
  BY DEF Init, IndexInv, RequestsAreOwned, Sent, RowsAreDistinct, CapturedIsStored

LEMMA StepIndex == TypeInv /\ IndexInv /\ [Next]_vars => IndexInv'
  BY RequestsStayOwned, RowsStayDistinct, CapturedStaysStored DEF IndexInv

\* No item is stored twice, however often its insert is tried and whenever the tries
\* reach the index: insertWithRecovery repeats the request id.
THEOREM ItemsStoredOnce == Spec => []StoredOnce
<1>1. TypeInv /\ IndexInv => StoredOnce
  <2> SUFFICES ASSUME TypeInv, IndexInv, NEW j \in 1 .. Len(rows), NEW k \in 1 .. Len(rows),
                      rows[j].id[1] = rows[k].id[1], rows[j].id[2] = rows[k].id[2]
               PROVE  j = k
    BY DEF StoredOnce, OfItem
  <2>1. Fits(rows[j]) /\ Fits(rows[k])
    BY DEF IndexInv, RequestsAreOwned, Sent
  <2>2. rows[j].id = rows[k].id
    BY <2>1, TypeFacts, IdFacts DEF Fits
  <2> QED
    BY <2>2 DEF IndexInv, RowsAreDistinct
<1> QED
  BY <1>1, InitTypes, StepTypes, InitIndex, StepIndex, PTL DEF Spec

\* What was reported stays true: a captured item is in the index, an item refused as
\* known is not, and no request of it is left that could still bring it there.
THEOREM ReportsStayTrue == Spec => []ResultsMatchIndex
<1>1. TypeInv /\ IndexInv => ResultsMatchIndex
  <2> SUFFICES ASSUME TypeInv, IndexInv, NEW c \in Calls, NEW i \in 1 .. Len(results[c]),
                      results[c][i] = "near_duplicate", NEW r \in Sent, OfItem(r, c, i)
               PROVE  FALSE
    BY DEF ResultsMatchIndex, IndexInv, CapturedIsStored, Sent, Stored
  <2>1. Owned(r)
    BY DEF IndexInv, RequestsAreOwned
  <2> QED
    BY <2>1, TypeFacts DEF Owned, OfItem, Current
<1> QED
  BY <1>1, InitTypes, StepTypes, InitIndex, StepIndex, PTL DEF Spec

-----------------------------------------------------------------------------
(* What the novelty checks saw. *)

\* A check that looked at the first s - 1 rows, if it looked, found insight in none.
NotAmong(insight, s) ==
    s # 0 => /\ s <= Len(rows) + 1
             /\ \A k \in 1 .. Len(rows) : k < s => rows[k].insight # insight

ChecksHold ==
    /\ \A r \in Sent : NotAmong(r.insight, r.seen)
    /\ \A c \in Calls :
          pc[c] \in {"seal", "insert", "reply", "wait", "retry"} =>
              NotAmong(Insight(c), seen[c])

LEMMA NotAmongStays ==
    ASSUME TypeInv, [Next]_vars, NEW insight, NEW s \in Nat, NotAmong(insight, s)
    PROVE  NotAmong(insight, s)'
  BY RowsGrow, TypeFacts DEF NotAmong

LEMMA StepChecks ==
    ASSUME TypeInv, ChecksHold, [Next]_vars
    PROVE  ChecksHold'
<1>1. \A r \in Sent : NotAmong(r.insight, r.seen)'
  BY NotAmongStays, TypeFacts, IdFacts DEF ChecksHold
<1>2. \A r \in Sent' : NotAmong(r.insight, r.seen)'
  <2>1. ASSUME NEW c \in Calls, Sends(c), NEW r \in Sent'
        PROVE  NotAmong(r.insight, r.seen)'
    <3> DEFINE q == [id |-> <<c, Current(c), 0>>, insight |-> Batch[c][Current(c)],
                     seen |-> seen[c]]
    <3>1. Sent' = Sent \union {q} /\ rows' = rows
      BY <2>1, SendFacts DEF Sent
    <3>2. NotAmong(q.insight, q.seen)
      BY <2>1, SendFacts DEF ChecksHold, Insight
    <3> QED
      BY <2>1, <3>1, <3>2, <1>1 DEF NotAmong
  <2>2. ASSUME NEW r \in inflight, Commit(r) PROVE Sent' \subseteq Sent
    BY <2>2, CommitFacts, TypeFacts DEF Sent
  <2>3. CASE UNCHANGED server
    BY <1>1, <2>3 DEF Sent, server
  <2> QED
    BY <1>1, <2>1, <2>2, <2>3, ServerShapes
<1>3. ASSUME NEW c \in Calls, pc'[c] \in {"seal", "insert", "reply", "wait", "retry"}
      PROVE  NotAmong(Insight(c), seen[c])'
  <2>1. seen[c] \in Nat
    BY DEF TypeInv, TypeOK
  <2>2. CASE /\ pc[c] \in {"seal", "insert", "reply", "wait", "retry"}
             /\ results'[c] = results[c] /\ seen'[c] = seen[c]
    <3>1. NotAmong(Insight(c), seen[c])
      BY <2>2 DEF ChecksHold
    <3>2. Insight(c)' = Insight(c)
      BY <2>2 DEF Insight, Current
    <3> QED
      BY <2>1, <2>2, <3>1, <3>2, RowsGrow, TypeFacts DEF NotAmong
  <2>3. ASSUME NEW d \in Calls, Moves(d) PROVE NotAmong(Insight(c), seen[c])'
    <3>1. CASE Novel(c)
      <4>1. seen' = [seen EXCEPT ![c] = 0] \/
            /\ seen' = [seen EXCEPT ![c] = Len(rows) + 1]
            /\ \A k \in 1 .. Len(rows) : rows[k].insight # Insight(c)
        BY <3>1 DEF Novel
      <4> QED
        BY <3>1, <4>1, TypeFacts DEF Novel, NotAmong, Insight, Current, server, TypeInv, TypeOK
    <3>2. CASE ~Novel(c)
      <4>1. pc[c] \in {"seal", "insert", "reply", "wait", "retry"} /\ seen'[c] = seen[c]
        BY <1>3, <2>3, <3>2
           DEF Moves, Begin, Novel, EmbedAndSeal, Goto, item, TypeInv, TypeOK
      <4> QED
        BY <2>2, <2>3, <4>1, MoveFacts
    <3> QED
      BY <3>1, <3>2
  <2>4. ASSUME NEW d \in Calls, Sends(d) PROVE NotAmong(Insight(c), seen[c])'
    BY <1>3, <2>2, <2>4, SendFacts DEF TypeInv, TypeOK
  <2>5. ASSUME NEW d \in Calls, NEW status, Finishes(d, status)
        PROVE  NotAmong(Insight(c), seen[c])'
    <3>1. d # c /\ pc'[c] = pc[c] /\ results'[c] = results[c]
      BY <1>3, <2>5, FinishFacts
    <3>2. seen'[c] = seen[c] /\ rows' = rows
      BY <2>5, <3>1 DEF Finishes, FinishItem, TypeInv, TypeOK, server
    <3> QED
      BY <1>3, <3>1, <3>2 DEF ChecksHold, NotAmong, Insight, Current
  <2>6. ASSUME NEW r \in inflight, Commit(r) PROVE UNCHANGED <<pc, results, seen>>
    BY <2>6 DEF Commit, item
  <2>7. CASE BootStep \/ UNCHANGED vars
    BY <1>3, <2>2, <2>7, CloseShape DEF vars, item
  <2> QED
    BY <1>3, <2>2, <2>3, <2>4, <2>5, <2>6, <2>7, CallShapes DEF Next
<1> QED
  BY <1>2, <1>3 DEF ChecksHold

\* A row repeats the insight of an earlier one only if its own novelty check was
\* degraded or looked before the earlier row was there.
THEOREM DuplicatesWereUnseen == Spec => []DuplicatesOverlapOrDegraded
<1>1. Init => ChecksHold
  BY DEF Init, ChecksHold, Sent
<1>2. TypeInv /\ ChecksHold => DuplicatesOverlapOrDegraded
  <2> SUFFICES ASSUME TypeInv, ChecksHold, NEW j \in 1 .. Len(rows), NEW k \in 1 .. Len(rows),
                      rows[j].insight = rows[k].insight, rows[k].seen # 0
               PROVE  rows[k].seen <= j
    BY DEF DuplicatesOverlapOrDegraded
  <2>1. NotAmong(rows[k].insight, rows[k].seen)
    BY DEF ChecksHold, Sent
  <2>2. rows[k].seen \in Nat
    BY TypeFacts, IdFacts
  <2> QED
    BY <2>1, <2>2 DEF NotAmong
<1> QED
  BY <1>1, <1>2, InitTypes, StepTypes, StepChecks, PTL DEF Spec

-----------------------------------------------------------------------------
(* Items that no boot disturbs. *)

\* How far the running boot has come with exchanging what the services use.
BootOrder ==
    /\ gate # "booting" => stage = "vault"
    /\ gate = "active" => agentKey = agentId /\ wired = agentId
    /\ stage = "key" => agentId = gen
    /\ stage = "envector" => agentId = gen /\ agentKey = gen
    /\ stage = "open" => agentId = gen /\ agentKey = gen /\ wired = gen

\* While nothing was retriggered, an item was sealed and sent with what is there now.
Undisturbed ==
    \A c \in Calls : quiet[c] /\ pc[c] \notin {"idle", "done"} =>
        /\ gate = "active"
        /\ pc[c] \in {"insert", "reply", "wait", "retry"} => sealed[c] = <<agentId, agentKey>>
        /\ pc[c] \in {"reply", "wait", "retry"} => client[c] = wired

QuietInv == BootOrder /\ Undisturbed

LEMMA StepBootOrder == BootOrder /\ [Next]_vars => BootOrder'
<1> SUFFICES ASSUME BootOrder, [Next]_vars PROVE BootOrder'
  OBVIOUS
<1>1. CASE UNCHANGED boot
  BY <1>1 DEF BootOrder, boot
<1>2. ASSUME NEW c \in Calls, Begin(c) \/ CallContinues(c) PROVE UNCHANGED boot
  BY <1>2, CallShapes DEF Moves, Begin, Novel, EmbedAndSeal, Sends, Insert, Finishes
<1>3. ASSUME NEW r \in inflight, Commit(r) PROVE UNCHANGED boot
  BY <1>3 DEF Commit
<1>4. CASE BootStep
  <2>1. CASE Retrigger
    BY <2>1 DEF Retrigger, BootOrder
  <2>2. CASE ApplyAgentId \/ ApplyAgentKey
    BY <2>2 DEF ApplyAgentId, ApplyAgentKey, BootOrder
  <2>3. CASE InjectEnvector \/ AttemptFails \/ BootEnds
    BY <2>3 DEF InjectEnvector, AttemptFails, BootEnds, BootOrder
  <2>4. ASSUME NEW g \in Gens, CloseStale(g) PROVE BootOrder'
    BY <2>4 DEF CloseStale, BootOrder
  <2> QED
    BY <1>4, <2>1, <2>2, <2>3, <2>4 DEF BootStep
<1> QED
  BY <1>1, <1>2, <1>3, <1>4 DEF Next, vars

LEMMA StepUndisturbed ==
    ASSUME TypeInv, QuietInv, [Next]_vars
    PROVE  Undisturbed'
<1> SUFFICES ASSUME NEW c \in Calls, quiet'[c], pc'[c] \notin {"idle", "done"}
             PROVE  /\ gate' = "active"
                    /\ pc'[c] \in {"insert", "reply", "wait", "retry"} =>
                          sealed'[c] = <<agentId', agentKey'>>
                    /\ pc'[c] \in {"reply", "wait", "retry"} => client'[c] = wired'
  BY DEF Undisturbed
<1> USE DEF QuietInv, Undisturbed, TypeInv, TypeOK
<1>1. CASE /\ UNCHANGED boot /\ quiet'[c] = quiet[c] /\ pc'[c] = pc[c]
           /\ sealed'[c] = sealed[c] /\ client'[c] = client[c]
  BY <1>1 DEF boot
<1>2. CASE Moves(c)
  BY <1>2 DEF Moves, Begin, Novel, EmbedAndSeal, Goto, boot, item
<1>3. CASE Sends(c)
  BY <1>3 DEF Sends, Insert, Goto, boot
<1>4. ASSUME NEW status \in Statuses, Finishes(c, status)
      PROVE  gate' = "active" /\ pc'[c] \notin {"insert", "reply", "wait", "retry"}
  BY <1>4, FinishFacts DEF Finishes, FinishItem, Goto, boot
<1>5. ASSUME NEW d \in Calls \ {c}, Begin(d) \/ CallContinues(d)
      PROVE  /\ UNCHANGED boot /\ quiet'[c] = quiet[c] /\ pc'[c] = pc[c]
             /\ sealed'[c] = sealed[c] /\ client'[c] = client[c]
  <2>1. CASE Moves(d)
    BY <1>5, <2>1 DEF Moves, Begin, Novel, EmbedAndSeal, Goto, item
  <2>2. CASE Sends(d)
    BY <1>5, <2>2 DEF Sends, Insert, Goto
  <2>3. ASSUME NEW status, Finishes(d, status)
        PROVE  /\ UNCHANGED boot /\ quiet'[c] = quiet[c] /\ pc'[c] = pc[c]
               /\ sealed'[c] = sealed[c] /\ client'[c] = client[c]
    BY <1>5, <2>3 DEF Finishes, FinishItem, Goto
  <2> QED
    BY <1>5, <2>1, <2>2, <2>3, CallShapes
<1>6. ASSUME NEW r \in inflight, Commit(r)
      PROVE  UNCHANGED <<boot, pc, item, quiet>>
  BY <1>6 DEF Commit
<1>7. CASE BootStep
  <2>1. ~Retrigger
    BY <1>7, CloseShape DEF Retrigger
  <2>2. quiet'[c] = quiet[c] /\ UNCHANGED <<pc, item>>
    BY <1>7, <2>1, CloseShape
       DEF BootStep, ApplyAgentId, ApplyAgentKey, InjectEnvector, AttemptFails, BootEnds,
           CloseStale
  <2>3. gate = "active"
    BY <2>2
  <2>4. UNCHANGED <<gate, agentId, agentKey, wired>>
    BY <1>7, <2>1, <2>3
       DEF BootStep, ApplyAgentId, ApplyAgentKey, InjectEnvector, AttemptFails, BootEnds,
           CloseStale
  <2> QED
    BY <2>2, <2>4 DEF item
<1> QED
  BY <1>1, <1>2, <1>3, <1>4, <1>5, <1>6, <1>7, CallShapes DEF Next, vars, item

\* An item during which nobody retriggers a boot is sealed with the id and key of one
\* bundle and goes to the client of the same boot.
THEOREM QuietItemsAreCoherent == Spec => []QuietItemIsCoherent
<1>1. Init => QuietInv
  BY DEF Init, QuietInv, BootOrder, Undisturbed
<1>2. TypeInv /\ QuietInv /\ [Next]_vars => QuietInv'
  BY StepBootOrder, StepUndisturbed DEF QuietInv
<1>3. QuietInv => QuietItemIsCoherent
  BY DEF QuietInv, BootOrder, Undisturbed, QuietItemIsCoherent
<1> QED
  BY <1>1, <1>2, <1>3, InitTypes, StepTypes, PTL DEF Spec

-----------------------------------------------------------------------------
(* The refinement. *)

LEMMA IndexedFacts ==
    ASSUME TypeInv
    PROVE  /\ IndexedItems \in Seq(Calls \X Nat) /\ Len(IndexedItems) = Len(rows)
           /\ \A k \in 1 .. Len(rows) : IndexedItems[k] = <<rows[k].id[1], rows[k].id[2]>>
           /\ Promise!Range(IndexedItems) = Range(IndexedItems)
           /\ \A e : e \in Range(IndexedItems) <=>
                 \E k \in 1 .. Len(rows) : e = <<rows[k].id[1], rows[k].id[2]>>
<1>1. \A k \in 1 .. Len(rows) : <<rows[k].id[1], rows[k].id[2]>> \in Calls \X Nat
  BY TypeFacts, IdFacts
<1>2. IndexedItems \in [1 .. Len(rows) -> Calls \X Nat] /\ Len(rows) \in Nat
  BY <1>1, TypeFacts DEF IndexedItems
<1>3. IndexedItems \in Seq(Calls \X Nat) /\ Len(IndexedItems) = Len(rows)
  BY <1>2
<1>4. Range(IndexedItems) = {IndexedItems[k] : k \in 1 .. Len(rows)}
  BY <1>2 DEF Range
<1> QED
  BY <1>3, <1>4 DEF IndexedItems, Range, Promise!Range

\* An item is in the abstract index exactly when a request of it was committed.
LEMMA IndexedIsCommitted ==
    ASSUME TypeInv, RequestsAreOwned, NEW c \in Calls, NEW i \in Nat
    PROVE  <<c, i>> \in Range(IndexedItems) <=> Committed(<<c, i, 0>>)
<1>1. ASSUME NEW k \in 1 .. Len(rows)
      PROVE  <<rows[k].id[1], rows[k].id[2]>> = <<c, i>> <=> rows[k].id = <<c, i, 0>>
  <2>1. rows[k] \in RequestRecords /\ Fits(rows[k])
    BY TypeFacts DEF RequestsAreOwned, Sent
  <2> QED
    BY <2>1, IdFacts DEF Fits
<1> QED
  BY <1>1, IndexedFacts DEF Committed

LEMMA CommitIsStore ==
    ASSUME TypeInv, IndexInv, NEW r \in inflight, Commit(r), rows' # rows, TypeInv'
    PROVE  \E c \in Calls : \E i \in 1 .. Len(Batch[c]) : Promise!Store(c, i)
<1> DEFINE c == r.id[1]
           i == r.id[2]
<1>1. r \in RequestRecords /\ Fits(r) /\ Owned(r)
  BY TypeFacts DEF IndexInv, RequestsAreOwned, Sent
<1>2. c \in Calls /\ i \in 1 .. Len(Batch[c]) /\ r.id = <<c, i, 0>> /\ i \in Nat
  BY <1>1, IdFacts DEF Fits
<1>3. /\ ~Committed(r.id) /\ Len(rows') = Len(rows) + 1 /\ rows'[Len(rows) + 1] = r
      /\ \A k \in 1 .. Len(rows) : rows'[k] = rows[k]
      /\ UNCHANGED results
  BY CommitFacts
<1>4. <<c, i>> \notin Range(IndexedItems)
  BY <1>2, <1>3, IndexedIsCommitted DEF IndexInv
<1>5. \/ i = Len(results[c]) + 1
      \/ i <= Len(results[c]) /\ results[c][i] = "error"
  <2>1. Len(results[c]) \in Nat /\ i \in Nat \ {0}
    BY <1>2, TypeFacts, BatchFacts
  <2>2. CASE i <= Len(results[c]) /\ results[c][i] = "captured"
    <3>1. PICK k \in 1 .. Len(rows) : rows[k].id[1] = c /\ rows[k].id[2] = i
      BY <1>2, <2>1, <2>2 DEF IndexInv, CapturedIsStored, Stored, OfItem
    <3>2. <<c, i>> \in Range(IndexedItems)
      BY <3>1, IndexedFacts
    <3> QED
      BY <1>4, <3>2
  <2> QED
    BY <1>1, <2>2 DEF Owned, Current
<1>6. IndexedItems' = Append(IndexedItems, <<c, i>>)
  <2>1. Len(rows) \in Nat
    BY TypeFacts
  <2>2. IndexedItems' = [k \in 1 .. Len(rows) + 1 |-> <<rows'[k].id[1], rows'[k].id[2]>>]
    BY <1>3 DEF IndexedItems
  <2>3. Append(IndexedItems, <<c, i>>)
        = [k \in 1 .. Len(rows) + 1 |->
              IF k = Len(rows) + 1 THEN <<c, i>> ELSE IndexedItems[k]]
    BY <2>1, IndexedFacts, <1>2
  <2>4. \A k \in 1 .. Len(rows) + 1 :
           <<rows'[k].id[1], rows'[k].id[2]>>
           = IF k = Len(rows) + 1 THEN <<c, i>> ELSE IndexedItems[k]
    BY <1>3, <2>1, IndexedFacts
  <2> QED
    BY <2>2, <2>3, <2>4
<1> QED
  BY <1>2, <1>3, <1>4, <1>5, <1>6, IndexedFacts DEF Promise!Store

LEMMA FinishIsReport ==
    ASSUME TypeInv, IndexInv, NEW c \in Calls, NEW status \in Statuses, Finishes(c, status)
    PROVE  Promise!Report(c, status)
<1> DEFINE i == Len(results[c]) + 1
<1>1. i = Current(c) /\ i \in 1 .. Len(Batch[c]) /\ i \in Nat /\ rows' = rows
  BY FinishFacts, BatchFacts, TypeFacts DEF server
<1>2. results' = [results EXCEPT ![c] = Append(@, status)]
  BY DEF Finishes, FinishItem
<1>3. IndexedItems' = IndexedItems
  BY <1>1 DEF IndexedItems
<1>4. CASE status = "captured"
  <2>1. <<c, i>> \in Range(IndexedItems)
    BY <1>1, <1>4, IndexedIsCommitted DEF Finishes, Request, IndexInv
  <2> QED
    BY <1>1, <1>2, <1>3, <1>4, <2>1, BatchFacts, IndexedFacts DEF Promise!Report
<1>5. CASE status = "near_duplicate"
  <2>1. <<c, i>> \notin Range(IndexedItems)
    <3>1. ASSUME NEW k \in 1 .. Len(rows), <<c, i>> = <<rows[k].id[1], rows[k].id[2]>>
          PROVE  FALSE
      <4>1. Owned(rows[k])
        BY DEF IndexInv, RequestsAreOwned, Sent
      <4> QED
        BY <1>1, <1>5, <3>1, <4>1, TypeFacts DEF Owned, Finishes
    <3> HIDE DEF i
    <3> QED
      BY <3>1, IndexedFacts
  <2>2. Promise!Known(c, i)
    <3>1. PICK k \in 1 .. Len(rows) : rows[k].insight = Batch[c][i]
      BY <1>1, <1>5 DEF Finishes, Insight
    <3>2. Fits(rows[k])
      BY DEF IndexInv, RequestsAreOwned, Sent
    <3>3. <<rows[k].id[1], rows[k].id[2]>> \in Range(IndexedItems)
      BY IndexedFacts
    <3> QED
      BY <3>1, <3>2, <3>3, IndexedFacts DEF Promise!Known, Fits
  <2> QED
    BY <1>1, <1>2, <1>3, <1>5, <2>1, <2>2, BatchFacts, IndexedFacts DEF Promise!Report
<1>6. CASE status = "error"
  BY <1>1, <1>2, <1>3, <1>6, BatchFacts DEF Promise!Report
<1> QED
  BY <1>4, <1>5, <1>6 DEF Statuses

\* The agent sees what CapturePromise says, whatever is lost, late, tried again or
\* exchanged on the way.
THEOREM CaptureImplementsPromise == Spec => ImplementsPromise
<1>1. Init => Promise!Init
  BY DEF Init, Promise!Init, IndexedItems
<1>2. TypeInv /\ IndexInv /\ TypeInv' /\ [Next]_vars
        => [Promise!Next]_<<IndexedItems, results>>
  <2> SUFFICES ASSUME TypeInv, IndexInv, TypeInv', [Next]_vars
               PROVE  Promise!Next \/ UNCHANGED <<IndexedItems, results>>
    OBVIOUS
  <2>1. ASSUME NEW r \in inflight, Commit(r), rows' # rows PROVE Promise!Next
    BY <2>1, CommitIsStore DEF Promise!Next
  <2>2. ASSUME NEW c \in Calls, NEW status \in Statuses, Finishes(c, status)
        PROVE  Promise!Next
    BY <2>2, FinishIsReport DEF Promise!Next, Statuses
  <2>3. CASE UNCHANGED <<rows, results>>
    BY <2>3 DEF IndexedItems
  <2>4. ASSUME NEW c \in Calls, Moves(c) \/ Sends(c) PROVE UNCHANGED <<rows, results>>
    BY <2>4, MoveFacts, SendFacts DEF server
  <2>5. ASSUME NEW r \in inflight, Commit(r) PROVE UNCHANGED results
    BY <2>5 DEF Commit
  <2>6. CASE BootStep \/ UNCHANGED vars
    BY <2>3, <2>6, CloseShape DEF vars, server
  <2> QED
    BY <2>1, <2>2, <2>3, <2>4, <2>5, <2>6, CallShapes DEF Next
<1> QED
  BY <1>1, <1>2, InitTypes, StepTypes, InitIndex, StepIndex, PTL
     DEF Spec, ImplementsPromise, Promise!Spec
=============================================================================
