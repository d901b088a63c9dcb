------------------------- MODULE CaptureRefinement -------------------------
(* CaptureFlow implements CapturePromise. *)
EXTENDS CaptureFlow

\* A row is the item of its request.
IndexedItems == [k \in 1 .. Len(rows) |-> <<rows[k].id[1], rows[k].id[2]>>]

Promise == INSTANCE CapturePromise WITH index <- IndexedItems

\* Whatever is lost, late, repeated or exchanged on the way, the agent sees items enter
\* the index once or never, and reports that stay true.
ImplementsPromise == Promise!Spec
=============================================================================
