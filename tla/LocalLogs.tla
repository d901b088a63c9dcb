----------------------------- MODULE LocalLogs -----------------------------
(* The two logs of the processes of a host: one goroutine logs a capture while the *)
(* boot loop logs a failure, and a process that dies does so in both.              *)
EXTENDS CaptureLog, BootLog

CONSTANT Workloads  \* bound: captures and boot failures to be logged, and their phases

ASSUME WorkloadAssumption ==
    Workloads \subseteq [captures : Nat, failures : Nat, failing : SUBSET (Phases \union {"dormant"})]

logVars == <<captureLogVars, bootLogVars>>

Init ==
    \E w \in Workloads :
        CaptureLogInit(w.captures) /\ BootLogInit(w.failures, w.failing)

\* SIGKILL.
Kill(p) == KillAppends(p) /\ KillPersist(p)

Next ==
    \/ CaptureLogNext /\ UNCHANGED bootLogVars
    \/ BootLogNext /\ UNCHANGED captureLogVars
    \/ \E p \in Procs : Kill(p)

Spec == Init /\ [][Next]_logVars

TypeOK == CaptureLogTypeOK /\ BootLogTypeOK

\* Mutex and flock, taken in this order by captures of several processes, never block
\* each other, whatever fails and whoever dies with them: an append ends.
AppendsEnd == \A w \in Writers : wpc[w] # "idle" ~> wpc[w] = "idle"
=============================================================================
