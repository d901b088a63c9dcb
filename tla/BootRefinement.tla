--------------------------- MODULE BootRefinement ---------------------------
(* BootLifecycle implements BootGate. *)
EXTENDS BootLifecycle

\* The generation all services use, NoAttempt while they use several or none.
CommonAttempt ==
    IF \A k \in Kinds : deps[k] = bundle THEN bundle ELSE NoAttempt

Promise == INSTANCE BootGate WITH
    Wirings  <- Attempts,
    NoWiring <- NoAttempt,
    gate     <- CASE state = "active"  -> "open"
                  [] state = "dormant" -> "closed"
                  [] OTHER             -> "booting",
    wiring   <- CommonAttempt

\* Whatever the boot loops, failures, retriggers and tool calls do, the handlers
\* see a gate that opens on one complete generation of clients and a generation
\* that changes only while the gate is booting.
ImplementsGate == Promise!Spec
=============================================================================
