-------------------------- MODULE MCRecallPipeline --------------------------
(* A small instance of RecallPipeline for TLC. *)
EXTENDS RecallPipeline, TLC

CONSTANTS a1, a2, b, c, x1, g, h, none, q, e, f

R(id, group, seq, total, status, form) ==
    [id |-> id, group |-> group, seq |-> seq, total |-> total,
     status |-> status, form |-> form]

\* Two phases of a group of three, one of a group of two, two standalone records
\* and an older, reverted row of one of them; another deployment holds little.
TwoIndexes ==
    << <<R(a2, g, 1, 3, "accepted", "sealed"),
         R(b, none, 0, 0, "accepted", "sealed"),
         R(a1, g, 0, 3, "proposed", "plain"),
         R(x1, h, 0, 2, "accepted", "garbled"),
         R(b, none, 0, 0, "reverted", "plain")>>,
       <<R(c, none, 0, 0, "accepted", "plain"),
         R(x1, h, 0, 2, "superseded", "sealed")>> >>

Captured == {R(c, none, 0, 0, "unknown", "plain")}

Ages == a1 :> 10 @@ a2 :> 9 @@ b :> 0 @@ c :> 5 @@ x1 :> 3

Similarities ==
       e :> (a1 :> 1 @@ a2 :> 5 @@ b :> 8 @@ c :> 6 @@ x1 :> 4)
    @@ f :> (a1 :> 6 @@ a2 :> 7 @@ b :> 2 @@ c :> 9 @@ x1 :> 7)
    @@ q :> (a1 :> 6 @@ a2 :> 4 @@ b :> 7 @@ c :> 2 @@ x1 :> 5)
    @@ g :> (a1 :> 2 @@ a2 :> 3 @@ b :> -1 @@ c :> 1 @@ x1 :> 0)
    @@ h :> (a1 :> 2 @@ a2 :> 1 @@ b :> 0 @@ c :> 1 @@ x1 :> 9)

TwoExpansions == <<e, f>>
=============================================================================
