------------------------- MODULE MCRunedActivation -------------------------
(* A small instance of RunedActivation for TLC. *)
EXTENDS RunedActivation, TLC

CONSTANTS p1, c1, c2

\* One process for both calls.
Shared == c1 :> p1 @@ c2 :> p1
=============================================================================
