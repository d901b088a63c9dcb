----------------------------- MODULE BootClaims -----------------------------
(***************************************************************************)
(* What comments of the repository say about the boot life cycle, put to   *)
(* the model.  None of these holds.                                        *)
(***************************************************************************)
EXTENDS BootLifecycle

\* service/lifecycle.go on ReloadPipelines: "Always re-trigger so config changes
\* such as new vault endpoint and rotated token are picked".  An activate or
\* reload that finds the gate active at its end runs on the credentials it found
\* at its start, if nobody rewrote them since.
ReloadPicksUpCredentials ==
    [][\A c \in Calls :
          /\ tpc[c] = "wait" /\ tpc'[c] = "idle"
          /\ state = "active"
          /\ Loads(seen[c]) /\ config = seen[c]
          => madeWith[deps["vault"]] = seen[c].creds]_vars

\* adapters/config/dormant.go on Save: after a process was killed in mid-write,
\* "the next boot will read whatever's left and either succeed (active state) or
\* re-attempt the dormant write".
TruncatedConfigRecovers ==
    (config.file = "empty" /\ ~cancelled) ~>
        (state \in {"active", "dormant"} \/ cancelled)
=============================================================================
