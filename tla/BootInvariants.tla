--------------------------- MODULE BootInvariants ---------------------------
(* The inductive invariants behind the safety properties of BootLifecycle. *)
EXTENDS BootRefinement

\* Where a loop holds the clients of an attempt.
AttemptPCs == {"manifest", "keys", "embedder", "envector", "openindex", "activate"}

\* An attempt has an identity from its Vault dial to its return, no longer.
OwnsAttempt == \A l \in Loops : own[l] \in Attempts <=> pc[l] \in AttemptPCs

\* The kinds an attempt has not injected yet.
ToInject(at) ==
    CASE at \in {"manifest", "keys"}       -> Kinds
      [] at = "embedder"                   -> {"embedder", "envector"}
      [] at \in {"envector", "openindex"}  -> {"envector"}
      [] OTHER                             -> {}

\* What an attempt did inject is still there, and so is its bundle: nobody else
\* injects while it runs.
InjectedStays ==
    \A l \in Loops : pc[l] \in AttemptPCs \ {"manifest", "keys"} =>
        /\ bundle = own[l]
        /\ \A k \in Kinds \ ToInject(pc[l]) : deps[k] = own[l]

\* For the gate and the wiring behind it.
GateInv ==
    /\ TypeOK
    /\ OwnsAttempt
    /\ SingleDriver
    /\ GateMatchesDriver
    /\ InjectedStays
    /\ ActiveMeansCoherent

\* What an attempt will still inject is neither in use nor waiting for its Close.
FreshAttempt ==
    \A l \in Loops : pc[l] \in AttemptPCs =>
        \A k \in ToInject(pc[l]) : deps[k] # own[l] /\ <<k, own[l]>> \notin doomed

\* For the connections.
ConnectionInv ==
    /\ NoConnectionLeak
    /\ WiredStaysOpen
    /\ FreshAttempt
=============================================================================
