-------------------------- MODULE MCBootLifecycle --------------------------
(* Small instances of BootLifecycle and of the claims about it for TLC. *)
EXTENDS BootInvariants, BootClaims, Naturals, TLC

\* What a user or an earlier process can have left on disk.
Fresh       == {Missing}
Ready       == {[ZeroConfig EXCEPT !.state = "active", !.creds = k] : k \in Creds}
Deactivated == {[c EXCEPT !.state = "dormant", !.reason = "user_deactivated"] : c \in Ready}
HandEdited  == {[c EXCEPT !.state = s] : c \in Ready, s \in {"", "unknown"}}
NoVault     == {[ZeroConfig EXCEPT !.state = "active"]}
KilledWrite == {Empty}

AnyConfig == Fresh \union Ready \union Deactivated \union HandEdited
                \union NoVault \union KilledWrite

\* Bounds of the run with tool calls: the process is alive, one replaced client
\* waits for its Close at a time, no two writes of config.json have collided.
Calm ==
    /\ ~cancelled
    /\ Cardinality(doomed) <= 1
    /\ config # Garbled

\* Bound of the liveness run: replaced clients wait for their Close one by one.
OneDoomed == Cardinality(doomed) <= 1

Symmetry == Permutations(Loops) \union Permutations(Calls)
                \union Permutations(Attempts) \union Permutations(Creds)
=============================================================================
