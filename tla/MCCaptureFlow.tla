--------------------------- MODULE MCCaptureFlow ---------------------------
(* A small instance of CaptureFlow for TLC. *)
EXTENDS CaptureRefinement, TLC

CONSTANTS c1, c2, x

\* A batch that repeats itself next to a single capture of the same insight.
Repeated == c1 :> <<x, x>> @@ c2 :> <<x>>
=============================================================================
