---------------------------- MODULE MCSelfReport ----------------------------
(* A small instance of SelfReport for TLC. *)
EXTENDS SelfReport

CONSTANTS p1, p2, w1, w2, w3

\* Two captures in one process, one in the other.
Placement == [w \in Writers |-> IF w = w3 THEN p2 ELSE p1]

\* Captures alone, failures of one phase until the log has been rotated twice, each
\* possible failure once, and a little of both logs.
Work(c, f, phases) == [captures |-> c, failures |-> f, failing |-> phases]
MixedWork ==
    {Work(4, 0, {}), Work(0, 6, {"embedder_dial"}), Work(0, 1, Phases \union {"dormant"}),
     Work(1, 1, {"embedder_dial"})}
=============================================================================
