------------------------------ MODULE BootGate ------------------------------
(***************************************************************************)
(* What the boot life cycle promises the tool handlers: a gate, and behind *)
(* it one wiring, the generation of clients every service uses.            *)
(*                                                                         *)
(* Handlers ask the gate (CheckState in internal/mcp/state.go) and then    *)
(* use the clients without asking again, so what matters is that the       *)
(* wiring is complete when the gate opens and changes only while the gate  *)
(* is booting.                                                             *)
(***************************************************************************)
CONSTANTS Wirings,   \* the complete generations of clients
          NoWiring   \* clients are missing or of several generations

VARIABLES gate,      \* "booting", "open" (active) or "closed" (dormant)
          wiring     \* the generation the services use

TypeOK ==
    /\ gate \in {"booting", "open", "closed"}
    /\ wiring \in Wirings \union {NoWiring}

Init ==
    /\ gate = "booting"
    /\ wiring = NoWiring

\* A boot exchanges clients while the gate is booting, and only then.
Rewire ==
    /\ gate = "booting"
    /\ wiring' \in Wirings \union {NoWiring}
    /\ UNCHANGED gate

\* A boot succeeds: the gate opens on a complete wiring.
Open ==
    /\ gate = "booting"
    /\ wiring # NoWiring
    /\ gate' = "open"
    /\ UNCHANGED wiring

\* A boot gives up: configuration or user keep the process dormant.
Close ==
    /\ gate = "booting"
    /\ gate' = "closed"
    /\ UNCHANGED wiring

\* Somebody asks for a fresh boot.
Claim ==
    /\ gate \in {"open", "closed"}
    /\ gate' = "booting"
    /\ UNCHANGED wiring

Next == Rewire \/ Open \/ Close \/ Claim

Spec == Init /\ [][Next]_<<gate, wiring>>
=============================================================================
