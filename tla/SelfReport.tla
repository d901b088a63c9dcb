----------------------------- MODULE SelfReport -----------------------------
(* What a process tells of itself: the two logs it shares with the processes of its *)
(* host, and the tools that read its clients.  The two share no state; a behaviour  *)
(* is one of the logs or one of the tools.                                          *)
EXTENDS LocalLogs, Diagnostics

reportVars == <<logVars, diagnosticVars>>

ReportInit ==
    \/ Init /\ DiagnosticsInit(FALSE)
    \/ CaptureLogInit(0) /\ BootLogInit(0, {}) /\ DiagnosticsInit(TRUE)

ReportNext ==
    \/ Next /\ UNCHANGED diagnosticVars
    \/ DiagnosticsNext /\ UNCHANGED logVars

ReportSpec == ReportInit /\ [][ReportNext]_reportVars

\* A capture that has the mutex or waits for a lock is scheduled while it can go on,
\* and each RPC of a tool ends, at its deadline at the latest.  The wait for the mutex of
\* the Info cache has no deadline: Go hands a mutex that is given back to who has waited
\* long enough (strong fairness), but that runed answers who keeps it is not assumed.
FairReportSpec ==
    /\ ReportSpec
    /\ \A w \in Writers : WF_reportVars(AppendStep(w) /\ UNCHANGED <<bootLogVars, diagnosticVars>>)
    /\ \A c \in Reports : WF_reportVars(ReportStep(c) /\ UNCHANGED logVars)
    /\ \A c \in Reports : SF_reportVars((AskInfo(c) \/ Invalidate(c)) /\ UNCHANGED logVars)

\* Neither a capture that logs nor a tool that looks hangs: not on the locks of processes
\* that fail or die with them, nor on Vault, enVector and a daemon that never answer it.
\* A tool hangs with another call that keeps the mutex of the Info cache for ever.
CallsEnd == AppendsEnd /\ ReportsEnd
=============================================================================
