--------------------------- MODULE CapturePromise ---------------------------
(***************************************************************************)
(* What capture and batch_capture promise an agent, whatever boots, lost   *)
(* replies and late requests lie between it and the index: items are taken *)
(* in their order, each enters the index once or never, and what the agent *)
(* is told of an item stays true.                                          *)
(*                                                                         *)
(* "error" is the one report that promises nothing: such an item may be in *)
(* the index, or enter it later.                                           *)
(***************************************************************************)
EXTENDS Naturals, Sequences, Functions

CONSTANTS Calls,  \* calls of the tools
          Batch   \* the items of each call; an item is its insight

VARIABLES index,   \* the items stored, in this order, as call and position
          results  \* what each call has said of its items so far

Init == index = <<>> /\ results = [c \in Calls |-> <<>>]

\* An item enters the index: the one at hand, or one given up.
Store(c, i) ==
    /\ \/ i = Len(results[c]) + 1
       \/ i <= Len(results[c]) /\ results[c][i] = "error"
    /\ <<c, i>> \notin Range(index)
    /\ index' = Append(index, <<c, i>>)
    /\ UNCHANGED results

\* The insight of an item is in the index already.
Known(c, i) == \E e \in Range(index) : Batch[e[1]][e[2]] = Batch[c][i]

\* The call has done with the item at hand.
Report(c, status) ==
    LET i == Len(results[c]) + 1
    IN  /\ i <= Len(Batch[c])
        /\ results' = [results EXCEPT ![c] = Append(@, status)]
        /\ \/ status = "captured" /\ <<c, i>> \in Range(index)
           \/ status = "near_duplicate" /\ <<c, i>> \notin Range(index) /\ Known(c, i)
           \/ status = "error"
        /\ UNCHANGED index

Next ==
    \E c \in Calls : \/ \E i \in 1 .. Len(Batch[c]) : Store(c, i)
                     \/ \E status \in {"captured", "near_duplicate", "error"} :
                            Report(c, status)

Spec == Init /\ [][Next]_<<index, results>>
=============================================================================
