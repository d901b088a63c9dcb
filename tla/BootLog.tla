------------------------------ MODULE BootLog ------------------------------
(***************************************************************************)
(* logs/boot.log (lifecycle/boot_log.go and SetBootError of boot.go): each *)
(* failed boot attempt of each process is classified, kept in memory for   *)
(* diagnostics and appended to one log, which a process rotates by the     *)
(* size of the file it has open, into one kept generation.                 *)
(*                                                                         *)
(* No lock is shared between processes: path and kept file may be renamed  *)
(* under an open handle.  Files are inodes; every line has size 1.         *)
(***************************************************************************)
EXTENDS BootDiagnosis, SequencesExt, FiniteSetsExt

CONSTANTS Procs,     \* processes with the log at the same path
          Files,     \* inodes
          NoFile,
          MaxLines   \* maxBytes, in lines

ASSUME BootLogAssumption ==
    /\ IsFiniteSet(Procs) /\ Procs # {}
    /\ NoFile \notin Files
    /\ MaxLines \in Nat \ {0}

VARIABLES
    failures,  \* bound: boot attempts left to fail
    failing,   \* bound: the phases they fail in
    bpc,       \* program counter of SetBootError and Persist
    report,    \* Manager.lastBootErr: the kind, with phase and error it was made of
    handle,    \* BootLogger.file
    path,      \* what boot.log names
    kept,      \* what boot.log.1 names
    text,      \* the lines of each file, numbered as they were written
    written,   \* how many were
    shared,    \* history: a process has opened the log while another used it
    hindered   \* history: the operating system refused to rename, or to tell a size

bootLogVars == <<failures, failing, bpc, report, handle, path, kept, text, written,
                 shared, hindered>>

PersistPCs == {"idle", "open", "stat", "rename", "reopen", "write"}
NoReport   == [kind |-> "none", phase |-> "none", error |-> Plain]

BootLogTypeOK ==
    /\ failures \in Nat /\ failing \subseteq Phases \union {"dormant"}
    /\ bpc \in [Procs -> PersistPCs]
    /\ DOMAIN report = Procs
    /\ handle \in [Procs -> Files \union {NoFile}]
    /\ \A p \in Procs : bpc[p] \in {"stat", "write"} => handle[p] # NoFile
    /\ {path, kept} \subseteq Files \union {NoFile}
    /\ text \in [Files -> Seq(Nat)]
    /\ written \in Nat
    /\ {shared, hindered} \subseteq BOOLEAN

BootLogInit(work, phases) ==
    /\ failures = work /\ failing = phases
    /\ bpc = [p \in Procs |-> "idle"]
    /\ report = [p \in Procs |-> NoReport]
    /\ handle = [p \in Procs |-> NoFile]
    /\ path = NoFile /\ kept = NoFile
    /\ text = [f \in Files |-> <<>>]
    /\ written = 0
    /\ shared = FALSE /\ hindered = FALSE

PersistGoes(p, to) == bpc' = [bpc EXCEPT ![p] = to]

\* A boot attempt fails: classified, into memory, then to the log, which is opened
\* the first time.
SetBootError(p, new) ==
    /\ bpc[p] = "idle" /\ failures > 0
    /\ failures' = failures - 1
    /\ report' = [report EXCEPT ![p] = new]
    /\ PersistGoes(p, IF handle[p] = NoFile THEN "open" ELSE "stat")
    /\ UNCHANGED <<failing, handle, path, kept, text, written, shared, hindered>>

AttemptFails(p) ==
    \E phase \in Phases \intersect failing : \E e \in ErrorsOf(phase) :
        SetBootError(p, [kind |-> ClassifyBootError(e, phase), phase |-> phase, error |-> e])

\* What ends a boot as dormant, with what somebody wrote into config.json at most.
GoesDormant(p) ==
    /\ "dormant" \in failing
    /\ \E reason \in {"not_configured", "vault_unconfigured", "user_deactivated",
                      "invalid_state", "hand_written"} :
          SetBootError(p, [kind |-> ClassifyDormantReason(reason), phase |-> "none",
                           error |-> Plain])

\* The boot succeeds: SetBootError(nil), and nothing is logged.
BootSucceeds(p) ==
    /\ bpc[p] = "idle" /\ report[p] # NoReport
    /\ report' = [report EXCEPT ![p] = NoReport]
    /\ UNCHANGED <<failures, failing, bpc, handle, path, kept, text, written, shared, hindered>>

-----------------------------------------------------------------------------
(* Persist. *)

\* An inode nobody has used.
Unused == {f \in Files : text[f] = <<>> /\ f \notin {path, kept} /\ \A p \in Procs : handle[p] # f}

\* OpenFile with O_APPEND and O_CREATE; the inodes are the bound.
OpenPath(p) ==
    /\ path = NoFile => Unused # {}
    /\ IF path # NoFile THEN path' = path
       ELSE path' = CHOOSE f \in Unused : TRUE
    /\ handle' = [handle EXCEPT ![p] = path']
    /\ shared' = (shared \/ \E q \in Procs \ {p} : handle[q] # NoFile \/ bpc[q] # "idle")

OpenBootLog(p) ==
    /\ bpc[p] = "open"
    /\ OpenPath(p)
    /\ PersistGoes(p, "stat")
    /\ UNCHANGED <<failures, failing, report, kept, text, written, hindered>>

\* The log cannot be opened, at first or after a rotation; the failure is not logged.
OpenBootLogFails(p) ==
    /\ bpc[p] \in {"open", "reopen"}
    /\ PersistGoes(p, "idle")
    /\ UNCHANGED <<failures, failing, report, handle, path, kept, text, written, shared, hindered>>

\* Fault: the incoming line is not counted.
StatLate(p) ==
    /\ bpc[p] = "stat"
    /\ IF Len(text[handle[p]]) <= MaxLines
       THEN PersistGoes(p, "write") /\ UNCHANGED handle
       ELSE PersistGoes(p, "rename") /\ handle' = [handle EXCEPT ![p] = NoFile]
    /\ UNCHANGED <<failures, failing, report, path, kept, text, written, shared, hindered>>

\* rotateIfNeededLocked: the size is that of the file the process has open, which it
\* closes when the line would not fit.
Stat(p) ==
    /\ bpc[p] = "stat"
    /\ IF Len(text[handle[p]]) + 1 <= MaxLines
       THEN PersistGoes(p, "write") /\ UNCHANGED handle
       ELSE PersistGoes(p, "rename") /\ handle' = [handle EXCEPT ![p] = NoFile]
    /\ UNCHANGED <<failures, failing, report, path, kept, text, written, shared, hindered>>

\* The size cannot be told: the line is written to whatever is there.
StatFails(p) ==
    /\ bpc[p] = "stat"
    /\ hindered' = TRUE
    /\ PersistGoes(p, "write")
    /\ UNCHANGED <<failures, failing, report, handle, path, kept, text, written, shared>>

\* Fault: the log is removed instead of renamed.
RotateRemoves(p) ==
    /\ bpc[p] = "rename"
    /\ path' = NoFile
    /\ PersistGoes(p, "reopen")
    /\ UNCHANGED <<failures, failing, report, handle, kept, text, written, shared, hindered>>

\* Rename takes whatever boot.log names by now, and replaces the kept generation; it
\* fails when there is none.
Rotate(p) ==
    /\ bpc[p] = "rename"
    /\ IF path = NoFile THEN UNCHANGED <<path, kept>>
       ELSE kept' = path /\ path' = NoFile
    /\ PersistGoes(p, "reopen")
    /\ UNCHANGED <<failures, failing, report, handle, text, written, shared, hindered>>

\* The rename is refused; the full file is opened again.
RotateRefused(p) ==
    /\ bpc[p] = "rename"
    /\ hindered' = TRUE
    /\ PersistGoes(p, "reopen")
    /\ UNCHANGED <<failures, failing, report, handle, path, kept, text, written, shared>>

\* The size of what was opened is not looked at again.
Reopen(p) ==
    /\ bpc[p] = "reopen"
    /\ OpenPath(p)
    /\ PersistGoes(p, "write")
    /\ UNCHANGED <<failures, failing, report, kept, text, written, hindered>>

\* One write with O_APPEND, or one that fails.
WriteLine(p) ==
    /\ bpc[p] = "write"
    /\ \/ /\ text' = [text EXCEPT ![handle[p]] = Append(@, written + 1)]
          /\ written' = written + 1
       \/ UNCHANGED <<text, written>>
    /\ PersistGoes(p, "idle")
    /\ UNCHANGED <<failures, failing, report, handle, path, kept, shared, hindered>>

\* The process dies at any point and is started again.
KillPersist(p) ==
    /\ bpc' = [bpc EXCEPT ![p] = "idle"]
    /\ report' = [report EXCEPT ![p] = NoReport]
    /\ handle' = [handle EXCEPT ![p] = NoFile]
    /\ UNCHANGED <<failures, failing, path, kept, text, written, shared, hindered>>

PersistStep(p) ==
    \/ OpenBootLog(p) \/ OpenBootLogFails(p) \/ Stat(p) \/ StatFails(p) \/ Rotate(p)
    \/ RotateRefused(p) \/ Reopen(p) \/ WriteLine(p)

BootLogNext ==
    \E p \in Procs : AttemptFails(p) \/ GoesDormant(p) \/ BootSucceeds(p) \/ PersistStep(p)

-----------------------------------------------------------------------------
(* Properties. *)

\* However processes rotate under each other, no file grows beyond the maximum by
\* more than the lines that were on their way: one for each other process.
BootLogIsBounded ==
    ~hindered => \A f \in Files : Len(text[f]) <= MaxLines + Cardinality(Procs) - 1

\* While processes do not overlap, the newest lines are in boot.log or boot.log.1, as
\* many as one file holds, through rotations, refused ones too, and restarts at any
\* step of them.
NewestLinesAreKept ==
    LET on(f) == IF f = NoFile THEN {} ELSE ToSet(text[f])
    IN  ~shared => \A n \in 1 .. written : n > written - MaxLines => n \in on(path) \union on(kept)

\* What a phase depends on, and what a kind blames.
Dependency ==
    [config_load |-> "config", vault_dial |-> "vault", vault_manifest |-> "vault",
     key_save |-> "disk", embedder_dial |-> "embedder", envector_init |-> "envector",
     envector_index |-> "envector", none |-> "config"]

Blamed(kind) ==
    CASE kind = "key_save" -> "disk"
      [] kind = "embedder_unreachable" -> "embedder"
      [] kind \in {"envector_init", "envector_index"} -> "envector"
      [] kind \in {"config_missing", "config_invalid", "config_parse", "user_deactivated",
                   "vault_not_configured"} -> "config"
      [] OTHER -> "vault"

\* The blame lies with what the failed phase depends on.  Only an OpenIndex that ends
\* with a gRPC status is blamed on the Vault: classifyGRPCStatus knows one service.
BlameFitsPhase ==
    \A p \in Procs :
        LET r == report[p]
        IN  r # NoReport =>
              Blamed(r.kind) = IF r.phase = "envector_index" /\ r.error.grpc # "none"
                               THEN "vault" ELSE Dependency[r.phase]

\* What no retry can change: the boot gave up, the configuration (with the endpoint and
\* the CA file) cannot be used, an RPC refused token, role, request, agent or certificate,
\* or the Vault's reply is no manifest.
ConfigPhases == {"none", "config_load", "vault_dial"}
Refusals     == {"Unauthenticated", "PermissionDenied", "InvalidArgument", "NotFound"}

UserMustAct(r) ==
    \/ r.phase \in ConfigPhases
    \/ r.phase \in {"vault_manifest", "envector_index"}
         /\ (r.error.grpc \in Refusals \/ "tls:" \in r.error.says)
    \/ r.phase = "vault_manifest" /\ r.error.grpc = "none" /\ r.error.vault = "none"

\* The endpoint in config.json is empty or cannot be parsed.
MalformedEndpoint(r) == r.error.vault = "VAULT_BAD_ENDPOINT"

\* In every phase the advice is to act exactly when no retry can help, but for one error:
\* a malformed endpoint is no code classifyVaultSentinel knows, passes for an internal
\* error of the Vault, and the user is told to wait.  All other errors
\* are said to go away, a full disk and a missing key file included: those of key_save
\* and envector_init do not tell.
AdviceFits ==
    \A p \in Procs :
        LET r == report[p]
        IN  r # NoReport => (Retryable(r.kind) <=> (~UserMustAct(r) \/ MalformedEndpoint(r)))

\* What LastBootError reports of any failed boot names the culprit and the remedy, but
\* for the two errors told above, however the error was wrapped on its way from an
\* adapter to the classifiers.
DiagnosisFits == BlameFitsPhase /\ AdviceFits
=============================================================================
