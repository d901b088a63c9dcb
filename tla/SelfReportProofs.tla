------------------------- MODULE SelfReportProofs -------------------------
(***************************************************************************)
(* Theorems of what a process tells of itself: of the boot log and the     *)
(* capture log (LocalLogs), for any processes, captures, files, maximum    *)
(* size and workload, and of the tools that read its clients (Diagnostics),*)
(* for any calls and any number of boots.                                  *)
(***************************************************************************)
EXTENDS SelfReport, FiniteSetTheorems, WellFoundedInduction, TLAPS

\* Each step is one of the logs or one of the tools.
LEMMA ReportSteps ==
    ASSUME [ReportNext]_reportVars
    PROVE  [Next]_logVars /\ [DiagnosticsNext]_diagnosticVars
BY DEF ReportNext, reportVars

LEMMA ReportStart ==
    ASSUME ReportInit
    PROVE  /\ \E n \in Nat : CaptureLogInit(n)
           /\ \E n \in Nat, phases \in SUBSET (Phases \union {"dormant"}) :
                 BootLogInit(n, phases)
           /\ \E asked \in BOOLEAN : DiagnosticsInit(asked)
<1>1. ASSUME NEW w \in Workloads
      PROVE  w.captures \in Nat /\ w.failures \in Nat /\ w.failing \in SUBSET (Phases \union {"dormant"})
  BY WorkloadAssumption
<1>2. CASE Init /\ DiagnosticsInit(FALSE)
  BY <1>1, <1>2 DEF Init
<1>3. CASE CaptureLogInit(0) /\ BootLogInit(0, {}) /\ DiagnosticsInit(TRUE)
  BY <1>3
<1> QED
  BY <1>2, <1>3 DEF ReportInit

-----------------------------------------------------------------------------
(***************************************************************************)
(* The boot log.                                                           *)
(*                                                                         *)
(* BootLogIsBounded says nothing of the lines still on their way.  What    *)
(* holds in every step is that a file has room for the lines of the        *)
(* processes that already looked at its size, or will not look again.      *)
(*                                                                         *)
(* NewestLinesAreKept needs to know of which lines boot.log is made: all   *)
(* from some number on, while the ones before are in the kept generation   *)
(* as far as they matter, and at most one process is between the two.      *)
(***************************************************************************)

-----------------------------------------------------------------------------
(* The steps of the boot log. *)

\* What a step of LocalLogs is for the boot log.
BootLogStep ==
    BootLogNext \/ (\E p \in Procs : KillPersist(p)) \/ UNCHANGED bootLogVars

LEMMA StepsOfBootLog ==
    ASSUME [Next]_logVars
    PROVE  BootLogStep
BY DEF Next, Kill, logVars, BootLogStep

\* What a step that fails, goes dormant or succeeds has in common.
Quiet(p) ==
    \/ /\ bpc[p] = "idle" /\ failures > 0
       /\ failures' = failures - 1
       /\ \E new : report' = [report EXCEPT ![p] = new]
       /\ PersistGoes(p, IF handle[p] = NoFile THEN "open" ELSE "stat")
       /\ UNCHANGED <<failing, handle, path, kept, text, written, shared, hindered>>
    \/ BootSucceeds(p)

LEMMA QuietSteps ==
    ASSUME NEW p \in Procs, AttemptFails(p) \/ GoesDormant(p) \/ BootSucceeds(p)
    PROVE  Quiet(p)
<1>1. CASE AttemptFails(p)
  <2>1. PICK phase \in Phases \intersect failing : \E e \in ErrorsOf(phase) :
            SetBootError(p, [kind |-> ClassifyBootError(e, phase), phase |-> phase, error |-> e])
    BY <1>1 DEF AttemptFails
  <2> QED
    BY <2>1 DEF SetBootError, Quiet
<1>2. CASE GoesDormant(p)
  <2>1. PICK reason \in {"not_configured", "vault_unconfigured", "user_deactivated",
                         "invalid_state", "hand_written"} :
            SetBootError(p, [kind |-> ClassifyDormantReason(reason), phase |-> "none",
                             error |-> Plain])
    BY <1>2 DEF GoesDormant
  <2> QED
    BY <2>1 DEF SetBootError, Quiet
<1>3. CASE BootSucceeds(p)
  BY <1>3 DEF Quiet
<1> QED
  BY <1>1, <1>2, <1>3

\* An inode nobody has used is one.
LEMMA UnusedIsFile ==
    ASSUME Unused # {}
    PROVE  /\ (CHOOSE f \in Unused : TRUE) \in Files
           /\ text[CHOOSE f \in Unused : TRUE] = <<>>
BY DEF Unused

\* What opening boot.log does, whatever it found.
LEMMA OpenedPath ==
    ASSUME BootLogTypeOK, NEW p \in Procs, OpenPath(p)
    PROVE  /\ path' \in Files
           /\ path # NoFile => path' = path
           /\ path = NoFile => text[path'] = <<>>
           /\ handle' = [handle EXCEPT ![p] = path']
           /\ shared' = (shared \/ \E q \in Procs \ {p} : handle[q] # NoFile \/ bpc[q] # "idle")
BY UnusedIsFile DEF OpenPath, BootLogTypeOK

-----------------------------------------------------------------------------
(* Types. *)

LEMMA BootLogTypeInit ==
    ASSUME ReportInit
    PROVE  BootLogTypeOK
<1>1. PICK n \in Nat, phases \in SUBSET (Phases \union {"dormant"}) : BootLogInit(n, phases)
  BY ReportStart
<1>2. {shared, hindered} \subseteq BOOLEAN
  BY <1>1 DEF BootLogInit
<1>3. text \in [Files -> Seq(Nat)] /\ written \in Nat /\ DOMAIN report = Procs
  BY <1>1 DEF BootLogInit
<1> QED
  BY <1>1, <1>2, <1>3 DEF BootLogInit, BootLogTypeOK, PersistPCs

LEMMA BootLogTypeStep ==
    ASSUME BootLogTypeOK, BootLogStep
    PROVE  BootLogTypeOK'
<1> USE DEF BootLogTypeOK, PersistPCs, PersistGoes
<1>1. ASSUME NEW p \in Procs, Quiet(p)
      PROVE  BootLogTypeOK'
  BY <1>1 DEF Quiet, BootSucceeds
<1>2. ASSUME NEW p \in Procs, OpenBootLog(p) \/ Reopen(p)
      PROVE  BootLogTypeOK'
  <2>1. OpenPath(p)
    BY <1>2 DEF OpenBootLog, Reopen
  <2>2. path' \in Files /\ handle' = [handle EXCEPT ![p] = path'] /\ shared' \in BOOLEAN
    BY <2>1, OpenedPath
  <2> QED
    BY <1>2, <2>2, BootLogAssumption DEF OpenBootLog, Reopen
<1>3. ASSUME NEW p \in Procs, OpenBootLogFails(p)
      PROVE  BootLogTypeOK'
  BY <1>3 DEF OpenBootLogFails
<1>4. ASSUME NEW p \in Procs, Stat(p)
      PROVE  BootLogTypeOK'
  BY <1>4 DEF Stat
<1>5. ASSUME NEW p \in Procs, Rotate(p) \/ RotateRefused(p) \/ StatFails(p)
      PROVE  BootLogTypeOK'
  BY <1>5 DEF Rotate, RotateRefused, StatFails
<1>6. ASSUME NEW p \in Procs, WriteLine(p)
      PROVE  BootLogTypeOK'
  <2>1. handle[p] \in Files /\ written + 1 \in Nat
    BY <1>6 DEF WriteLine
  <2>2. ASSUME NEW s \in Seq(Nat)
        PROVE  Append(s, written + 1) \in Seq(Nat)
    BY <2>1
  <2>3. text' \in [Files -> Seq(Nat)] /\ written' \in Nat
    <3>1. text \in [Files -> Seq(Nat)] /\ text[handle[p]] \in Seq(Nat)
      BY <2>1
    <3>2. [text EXCEPT ![handle[p]] = Append(text[handle[p]], written + 1)] \in [Files -> Seq(Nat)]
      BY <3>1, <2>1, <2>2, Zenon
    <3> QED
      BY <1>6, <2>1, <3>1, <3>2 DEF WriteLine
  <2>4. bpc' \in [Procs -> PersistPCs] /\ \A q \in Procs : bpc'[q] \in {"stat", "write"} => handle'[q] # NoFile
    BY <1>6 DEF WriteLine
  <2> QED
    BY <1>6, <2>3, <2>4 DEF WriteLine
<1>7. ASSUME NEW p \in Procs, KillPersist(p)
      PROVE  BootLogTypeOK'
  BY <1>7 DEF KillPersist
<1>8. CASE UNCHANGED bootLogVars
  BY <1>8 DEF bootLogVars
<1> QED
  BY <1>1, <1>2, <1>3, <1>4, <1>5, <1>6, <1>7, <1>8, QuietSteps
     DEF BootLogStep, BootLogNext, PersistStep

-----------------------------------------------------------------------------
(* The boot log is bounded. *)

\* The processes that will append to a file without another look at its size.
Pending(f) == {p \in Procs : \/ bpc[p] = "write" /\ handle[p] = f
                             \/ bpc[p] = "reopen" /\ path = f}

HasRoom(f) ==
    Len(text[f]) + Cardinality(Pending(f)) <= MaxLines + Cardinality(Procs) - 1

Room == ~hindered => \A f \in Files : HasRoom(f)

LEMMA ProcsCounted ==
    ASSUME NEW S \in SUBSET Procs
    PROVE  /\ IsFiniteSet(S)
           /\ Cardinality(S) \in Nat /\ Cardinality(Procs) \in Nat \ {0}
           /\ Cardinality(S) <= Cardinality(Procs)
BY BootLogAssumption, FS_Subset, FS_CardinalityType, FS_EmptySet

LEMMA FewerPending ==
    ASSUME BootLogTypeOK, NEW f \in Files, HasRoom(f),
           text'[f] = text[f], Pending(f)' \subseteq Pending(f)
    PROVE  HasRoom(f)'
<1>1. Pending(f) \in SUBSET Procs
  BY DEF Pending
<1>2. /\ IsFiniteSet(Pending(f)) /\ Cardinality(Pending(f)) \in Nat
      /\ Cardinality(Procs) \in Nat
  BY <1>1, ProcsCounted
<1>3. /\ Cardinality(Pending(f)') <= Cardinality(Pending(f))
      /\ Cardinality(Pending(f)') \in Nat
  BY <1>2, FS_Subset, FS_CardinalityType
<1>4. Len(text[f]) \in Nat
  BY DEF BootLogTypeOK
<1> QED
  BY <1>2, <1>3, <1>4, BootLogAssumption DEF HasRoom

LEMMA RoomStep ==
    ASSUME BootLogTypeOK, BootLogTypeOK', Room, BootLogStep
    PROVE  Room'
<1> SUFFICES ASSUME ~hindered', NEW f \in Files
             PROVE  HasRoom(f)'
  BY DEF Room
<1> USE DEF PersistGoes
<1>0. /\ Len(text[f]) \in Nat /\ Len(text'[f]) \in Nat
      /\ Pending(f) \in SUBSET Procs /\ Pending(f)' \in SUBSET Procs
  BY DEF BootLogTypeOK, Pending
<1>1. ASSUME NEW p \in Procs, Quiet(p) \/ OpenBootLogFails(p) \/ KillPersist(p)
      PROVE  HasRoom(f)'
  <2>1. HasRoom(f) /\ text' = text
    BY <1>1 DEF Room, Quiet, BootSucceeds, OpenBootLogFails, KillPersist
  <2>2. ASSUME NEW q \in Pending(f)'
        PROVE  q \in Pending(f)
    BY <1>1 DEF Quiet, BootSucceeds, OpenBootLogFails, KillPersist, Pending, BootLogTypeOK
  <2> QED
    BY <2>1, <2>2, FewerPending
<1>2. ASSUME NEW p \in Procs, OpenBootLog(p) \/ Reopen(p)
      PROVE  HasRoom(f)'
  <2>1. OpenPath(p) /\ text' = text /\ HasRoom(f)
    BY <1>2 DEF OpenBootLog, Reopen, Room
  <2>2. CASE path = NoFile /\ f = path'
    <3>1. Len(text'[f]) = 0
      BY <2>1, <2>2, OpenedPath
    <3> QED
      BY <3>1, <1>0, ProcsCounted, BootLogAssumption DEF HasRoom
  <2>3. CASE path # NoFile \/ f # path'
    <3>1. ASSUME NEW q \in Pending(f)'
          PROVE  q \in Pending(f)
      <4>1. handle' = [handle EXCEPT ![p] = path'] /\ (path # NoFile => path' = path)
        BY <2>1, OpenedPath
      <4>2. f = path' => path = f
        BY <2>3, <4>1
      <4>3. CASE q = p
        BY <1>2, <3>1, <4>1, <4>2, <4>3 DEF OpenBootLog, Reopen, Pending, BootLogTypeOK
      <4>4. CASE q # p
        <5>1. bpc'[q] = bpc[q] /\ handle'[q] = handle[q]
          BY <1>2, <3>1, <4>1, <4>4 DEF OpenBootLog, Reopen, Pending, BootLogTypeOK
        <5> QED
          BY <3>1, <4>2, <5>1 DEF Pending
      <4> QED
        BY <4>3, <4>4
    <3> QED
      BY <2>1, <3>1, FewerPending
  <2> QED
    BY <2>2, <2>3
<1>3. ASSUME NEW p \in Procs, Stat(p)
      PROVE  HasRoom(f)'
  <2>1. HasRoom(f) /\ text' = text
    BY <1>3 DEF Stat, Room
  <2>2. CASE handle[p] = f /\ Len(text[handle[p]]) + 1 <= MaxLines
    BY <1>0, <2>1, <2>2, ProcsCounted, BootLogAssumption DEF HasRoom
  <2>3. CASE ~(handle[p] = f /\ Len(text[handle[p]]) + 1 <= MaxLines)
    <3>1. ASSUME NEW q \in Pending(f)'
          PROVE  q \in Pending(f)
      BY <1>3, <2>3 DEF Stat, Pending, BootLogTypeOK
    <3> QED
      BY <2>1, <3>1, FewerPending
  <2> QED
    BY <2>2, <2>3
<1>4. ASSUME NEW p \in Procs, Rotate(p) \/ RotateRefused(p)
      PROVE  HasRoom(f)'
  <2>1. HasRoom(f) /\ text' = text
    BY <1>4 DEF Rotate, RotateRefused, Room
  <2>2. ASSUME NEW q \in Pending(f)'
        PROVE  q \in Pending(f)
    BY <1>4, BootLogAssumption DEF Rotate, RotateRefused, Pending, BootLogTypeOK
  <2> QED
    BY <2>1, <2>2, FewerPending
<1>5. ASSUME NEW p \in Procs, WriteLine(p)
      PROVE  HasRoom(f)'
  <2>1. HasRoom(f) /\ UNCHANGED <<handle, path>> /\ bpc' = [bpc EXCEPT ![p] = "idle"]
    BY <1>5 DEF WriteLine, Room
  <2>2. Pending(f)' = Pending(f) \ {p}
    BY <2>1 DEF Pending, BootLogTypeOK
  <2>3. CASE text'[f] = text[f]
    BY <2>1, <2>2, <2>3, FewerPending
  <2>4. CASE text'[f] # text[f]
    <3>1. handle[p] = f /\ text'[f] = Append(text[f], written + 1)
      BY <1>5, <2>4 DEF WriteLine, BootLogTypeOK
    <3>2. Len(text'[f]) = Len(text[f]) + 1
      BY <3>1 DEF BootLogTypeOK
    <3>3. p \in Pending(f)
      BY <1>5, <3>1 DEF WriteLine, Pending
    <3>4. Cardinality(Pending(f)') = Cardinality(Pending(f)) - 1
      BY <1>0, <2>2, <3>3, ProcsCounted, FS_RemoveElement
    <3> QED
      BY <1>0, <2>1, <3>2, <3>4, ProcsCounted, BootLogAssumption DEF HasRoom
  <2> QED
    BY <2>3, <2>4
<1>6. ASSUME NEW p \in Procs, StatFails(p)
      PROVE  HasRoom(f)'
  BY <1>6 DEF StatFails
<1>7. CASE UNCHANGED bootLogVars
  BY <1>7 DEF bootLogVars, Room, HasRoom, Pending
<1> QED
  BY <1>1, <1>2, <1>3, <1>4, <1>5, <1>6, <1>7, QuietSteps
     DEF BootLogStep, BootLogNext, PersistStep

LEMMA RoomInit ==
    ASSUME ReportInit
    PROVE  Room
<1>1. PICK n \in Nat, phases \in SUBSET (Phases \union {"dormant"}) : BootLogInit(n, phases)
  BY ReportStart
<1>2. ASSUME NEW f \in Files
      PROVE  HasRoom(f)
  <2>1. Len(text[f]) = 0 /\ Pending(f) = {}
    BY <1>1 DEF BootLogInit, Pending
  <2> QED
    BY <2>1, FS_EmptySet, ProcsCounted, BootLogAssumption DEF HasRoom
<1> QED
  BY <1>2 DEF Room

\* The boot log stays bounded, however many processes rotate it under each other, fail
\* in the middle and are killed and started again: as long as no rename is refused, and no
\* size kept secret, no file has more lines than the maximum and one for each other process.
THEOREM LogStaysBounded == ReportSpec => []BootLogIsBounded
<1>1. ReportInit => BootLogTypeOK /\ Room
  BY BootLogTypeInit, RoomInit
<1>2. BootLogTypeOK /\ Room /\ [ReportNext]_reportVars => (BootLogTypeOK /\ Room)'
  BY BootLogTypeStep, RoomStep, StepsOfBootLog, ReportSteps
<1>3. BootLogTypeOK /\ Room => BootLogIsBounded
  <2> SUFFICES ASSUME BootLogTypeOK, Room, ~hindered, NEW f \in Files
               PROVE  Len(text[f]) <= MaxLines + Cardinality(Procs) - 1
    BY DEF BootLogIsBounded
  <2>1. Pending(f) \in SUBSET Procs /\ HasRoom(f) /\ Len(text[f]) \in Nat
    BY DEF Pending, Room, BootLogTypeOK
  <2> QED
    BY <2>1, ProcsCounted, BootLogAssumption DEF HasRoom
<1> QED
  BY <1>1, <1>2, <1>3, PTL DEF ReportSpec

-----------------------------------------------------------------------------
(* The newest lines are kept. *)

\* A process that has the log open or is in the middle of a rotation.
Busy(p) == handle[p] # NoFile \/ bpc[p] \in {"stat", "rename", "reopen", "write"}

OneAtATime == \A p, q \in Procs : Busy(p) /\ Busy(q) => p = q

\* Who has a file open has boot.log, which is full when it is to be renamed.
HandlesAreCurrent ==
    \A p \in Procs :
        /\ handle[p] # NoFile => handle[p] = path
        /\ bpc[p] \in {"open", "rename", "reopen"} => handle[p] = NoFile
        /\ bpc[p] = "rename" => path # NoFile /\ Len(text[path]) >= MaxLines

\* boot.log holds the lines after k, or there is none and k was the last.
LogFrom(k) ==
    IF path = NoFile THEN k = written
    ELSE /\ Len(text[path]) = written - k
         /\ \A i \in 1 .. written - k : text[path][i] = k + i

\* The kept generation holds the MaxLines lines up to k.
KeptTo(k) ==
    \A n \in 1 .. k : n > k - MaxLines => kept # NoFile /\ n \in ToSet(text[kept])

LinesInOrder == \E k \in 0 .. written : LogFrom(k) /\ KeptTo(k)

NewestInv == ~shared => OneAtATime /\ HandlesAreCurrent /\ LinesInOrder

LEMMA NewestImplied ==
    ASSUME BootLogTypeOK, NewestInv
    PROVE  NewestLinesAreKept
<1> SUFFICES ASSUME ~shared, NEW n \in 1 .. written, n > written - MaxLines
             PROVE  \/ path # NoFile /\ n \in ToSet(text[path])
                    \/ kept # NoFile /\ n \in ToSet(text[kept])
  BY DEF NewestLinesAreKept
<1>1. PICK k \in 0 .. written : LogFrom(k) /\ KeptTo(k)
  BY DEF NewestInv, LinesInOrder
<1>2. written \in Nat /\ k \in Nat /\ MaxLines \in Nat /\ n \in Nat
  BY BootLogAssumption DEF BootLogTypeOK
<1>3. CASE n <= k
  <2>1. n \in 1 .. k /\ n > k - MaxLines
    BY <1>2, <1>3
  <2> QED
    BY <1>1, <2>1 DEF KeptTo
<1>4. CASE n > k
  <2>1. path # NoFile
    BY <1>1, <1>2, <1>4 DEF LogFrom
  <2>2. n - k \in 1 .. written - k
    BY <1>2, <1>4
  <2>3. n - k \in DOMAIN text[path] /\ text[path][n - k] = n
    <3>1. text[path] \in Seq(Nat)
      BY <2>1 DEF BootLogTypeOK
    <3>2. Len(text[path]) = written - k /\ text[path][n - k] = k + (n - k)
      BY <1>1, <2>1, <2>2 DEF LogFrom
    <3> QED
      BY <1>2, <2>2, <3>1, <3>2
  <2> QED
    BY <2>1, <2>3 DEF ToSet
<1> QED
  BY <1>2, <1>3, <1>4

LEMMA NewestInit ==
    ASSUME ReportInit
    PROVE  NewestInv
<1>1. PICK n \in Nat, phases \in SUBSET (Phases \union {"dormant"}) : BootLogInit(n, phases)
  BY ReportStart
<1>2. OneAtATime /\ HandlesAreCurrent
  BY <1>1 DEF BootLogInit, OneAtATime, HandlesAreCurrent, Busy
<1>3. LogFrom(0) /\ KeptTo(0)
  BY <1>1 DEF BootLogInit, LogFrom, KeptTo
<1>4. LinesInOrder
  BY <1>1, <1>3 DEF LinesInOrder, BootLogInit
<1> QED
  BY <1>2, <1>4 DEF NewestInv

\* A step that leaves the files alone, and makes no process busy that was not.
LEMMA NewestUntouched ==
    ASSUME NewestInv, UNCHANGED <<path, kept, text, written>>,
           shared' = shared,
           \A q \in Procs : Busy(q)' => Busy(q),
           HandlesAreCurrent => HandlesAreCurrent'
    PROVE  NewestInv'
<1> SUFFICES ASSUME ~shared
             PROVE  OneAtATime' /\ HandlesAreCurrent' /\ LinesInOrder'
  BY DEF NewestInv
<1>1. OneAtATime'
  BY DEF NewestInv, OneAtATime
<1>2. LinesInOrder'
  BY DEF NewestInv, LinesInOrder, LogFrom, KeptTo
<1> QED
  BY <1>1, <1>2 DEF NewestInv

LEMMA NewestStep ==
    ASSUME BootLogTypeOK, NewestInv, BootLogStep
    PROVE  NewestInv'
<1> USE DEF PersistGoes
<1>1. ASSUME NEW p \in Procs, Quiet(p) \/ OpenBootLogFails(p) \/ KillPersist(p) \/ RotateRefused(p)
                                \/ StatFails(p)
      PROVE  NewestInv'
  <2>1. UNCHANGED <<path, kept, text, written, shared>>
    BY <1>1 DEF Quiet, BootSucceeds, OpenBootLogFails, KillPersist, RotateRefused, StatFails
  <2>2. ASSUME NEW q \in Procs, Busy(q)'
        PROVE  Busy(q)
    BY <1>1, <2>2 DEF Quiet, BootSucceeds, OpenBootLogFails, KillPersist, RotateRefused,
                      StatFails, Busy, BootLogTypeOK
  <2>3. HandlesAreCurrent => HandlesAreCurrent'
    BY <1>1, <2>1 DEF Quiet, BootSucceeds, OpenBootLogFails, KillPersist, RotateRefused,
                      StatFails, HandlesAreCurrent, BootLogTypeOK
  <2> QED
    BY <2>1, <2>2, <2>3, NewestUntouched
<1>2. ASSUME NEW p \in Procs, OpenBootLog(p) \/ Reopen(p)
      PROVE  NewestInv'
  <2> SUFFICES ASSUME ~shared'
               PROVE  OneAtATime' /\ HandlesAreCurrent' /\ LinesInOrder'
    BY DEF NewestInv
  <2>1. /\ path' \in Files /\ (path # NoFile => path' = path)
        /\ path = NoFile => text[path'] = <<>>
        /\ handle' = [handle EXCEPT ![p] = path']
        /\ ~shared /\ \A q \in Procs \ {p} : handle[q] = NoFile /\ bpc[q] = "idle"
    BY <1>2, OpenedPath DEF OpenBootLog, Reopen
  <2>2. \A q \in Procs \ {p} : handle'[q] = NoFile /\ bpc'[q] = "idle"
    BY <1>2, <2>1 DEF OpenBootLog, Reopen, BootLogTypeOK
  <2>3. handle'[p] = path' /\ bpc'[p] \in {"stat", "write"}
    BY <1>2, <2>1 DEF OpenBootLog, Reopen, BootLogTypeOK
  <2>4. OneAtATime'
    BY <2>2 DEF OneAtATime, Busy
  <2>5. HandlesAreCurrent'
    BY <2>2, <2>3 DEF HandlesAreCurrent
  <2>6. PICK k \in 0 .. written : LogFrom(k) /\ KeptTo(k)
    BY <2>1 DEF NewestInv, LinesInOrder
  <2>7. UNCHANGED <<kept, text, written>> /\ path' # NoFile
    BY <1>2, <2>1, BootLogAssumption DEF OpenBootLog, Reopen
  <2>8. LogFrom(k)'
    <3>1. CASE path = NoFile
      <4>1. k = written /\ text'[path'] = <<>> /\ written \in Nat
        BY <2>1, <2>6, <2>7, <3>1 DEF LogFrom, BootLogTypeOK
      <4> QED
        BY <2>7, <4>1 DEF LogFrom
    <3>2. CASE path # NoFile
      BY <2>1, <2>6, <2>7, <3>2 DEF LogFrom
    <3> QED
      BY <3>1, <3>2
  <2>9. KeptTo(k)'
    BY <2>6, <2>7 DEF KeptTo
  <2> QED
    BY <2>4, <2>5, <2>7, <2>8, <2>9 DEF LinesInOrder
<1>3. ASSUME NEW p \in Procs, Stat(p)
      PROVE  NewestInv'
  <2>1. UNCHANGED <<path, kept, text, written, shared>>
    BY <1>3 DEF Stat
  <2>2. ASSUME NEW q \in Procs, Busy(q)'
        PROVE  Busy(q)
    BY <1>3, <2>2 DEF Stat, Busy, BootLogTypeOK
  <2>3. ASSUME HandlesAreCurrent
        PROVE  HandlesAreCurrent'
    <3>1. handle[p] # NoFile /\ handle[p] = path /\ Len(text[path]) \in Nat
      BY <1>3, <2>3 DEF Stat, HandlesAreCurrent, BootLogTypeOK
    <3>2. \/ bpc'[p] = "write" /\ handle'[p] = handle[p]
          \/ bpc'[p] = "rename" /\ handle'[p] = NoFile /\ ~(Len(text[path]) + 1 <= MaxLines)
      BY <1>3, <3>1 DEF Stat, BootLogTypeOK
    <3>3. \A q \in Procs \ {p} : bpc'[q] = bpc[q] /\ handle'[q] = handle[q]
      BY <1>3 DEF Stat, BootLogTypeOK
    <3>4. ~(Len(text[path]) + 1 <= MaxLines) => Len(text[path]) >= MaxLines
      BY <3>1, BootLogAssumption
    <3> QED
      BY <2>1, <2>3, <3>1, <3>2, <3>3, <3>4 DEF HandlesAreCurrent
  <2> QED
    BY <2>1, <2>2, <2>3, NewestUntouched
<1>4. ASSUME NEW p \in Procs, Rotate(p)
      PROVE  NewestInv'
  <2> SUFFICES ASSUME ~shared
               PROVE  OneAtATime' /\ HandlesAreCurrent' /\ LinesInOrder'
    BY <1>4 DEF NewestInv, Rotate
  <2>1. OneAtATime /\ HandlesAreCurrent /\ LinesInOrder
    BY DEF NewestInv
  <2>2. /\ bpc[p] = "rename" /\ handle[p] = NoFile
        /\ path # NoFile /\ Len(text[path]) >= MaxLines
    BY <1>4, <2>1 DEF Rotate, HandlesAreCurrent
  <2>3. /\ kept' = path /\ path' = NoFile
        /\ UNCHANGED <<handle, text, written>> /\ bpc' = [bpc EXCEPT ![p] = "reopen"]
    BY <1>4, <2>2 DEF Rotate
  <2>4. \A q \in Procs \ {p} : handle[q] = NoFile /\ bpc[q] \notin {"stat", "rename", "reopen", "write"}
    BY <2>1, <2>2 DEF OneAtATime, Busy
  <2>5. OneAtATime' /\ HandlesAreCurrent'
    BY <2>2, <2>3, <2>4 DEF OneAtATime, Busy, HandlesAreCurrent, BootLogTypeOK
  <2>6. PICK k \in 0 .. written : LogFrom(k)
    BY <2>1 DEF LinesInOrder
  <2>7. KeptTo(written)'
    <3> SUFFICES ASSUME NEW n \in 1 .. written, n > written - MaxLines
                 PROVE  n \in ToSet(text[path])
      BY <2>2, <2>3 DEF KeptTo
    <3>1. /\ Len(text[path]) = written - k
          /\ \A i \in 1 .. written - k : text[path][i] = k + i
      BY <2>2, <2>6 DEF LogFrom
    <3>2. written \in Nat /\ k \in Nat /\ n \in Nat /\ MaxLines \in Nat
      BY BootLogAssumption DEF BootLogTypeOK
    <3>3. n - k \in 1 .. written - k /\ text[path] \in Seq(Nat)
      BY <2>2, <3>1, <3>2 DEF BootLogTypeOK
    <3>4. n - k \in DOMAIN text[path] /\ text[path][n - k] = n
      BY <3>1, <3>2, <3>3
    <3> QED
      BY <3>4 DEF ToSet
  <2>8. LogFrom(written)' /\ written \in 0 .. written'
    BY <2>3 DEF LogFrom, BootLogTypeOK
  <2> QED
    BY <2>3, <2>5, <2>7, <2>8 DEF LinesInOrder
<1>5. ASSUME NEW p \in Procs, WriteLine(p)
      PROVE  NewestInv'
  <2>1. UNCHANGED <<handle, path, kept, shared>> /\ bpc' = [bpc EXCEPT ![p] = "idle"]
    BY <1>5 DEF WriteLine
  <2>2. CASE UNCHANGED <<text, written>>
    <3>1. \A q \in Procs : Busy(q)' => Busy(q)
      BY <1>5, <2>1 DEF Busy, WriteLine, BootLogTypeOK
    <3>2. HandlesAreCurrent => HandlesAreCurrent'
      BY <2>1, <2>2 DEF HandlesAreCurrent, BootLogTypeOK
    <3> QED
      BY <2>1, <2>2, <3>1, <3>2, NewestUntouched
  <2>3. CASE /\ text' = [text EXCEPT ![handle[p]] = Append(@, written + 1)]
             /\ written' = written + 1
    <3> SUFFICES ASSUME ~shared
                 PROVE  OneAtATime' /\ HandlesAreCurrent' /\ LinesInOrder'
      BY <2>1 DEF NewestInv
    <3>1. OneAtATime /\ HandlesAreCurrent /\ bpc[p] = "write"
      BY <1>5 DEF NewestInv, WriteLine
    <3>2. /\ handle[p] = path /\ path \in Files
          /\ text[path] \in Seq(Nat) /\ written \in Nat
      BY <3>1 DEF HandlesAreCurrent, BootLogTypeOK
    <3>3. /\ text'[path] = Append(text[path], written + 1)
          /\ \A f \in Files \ {path} : text'[f] = text[f]
      BY <2>3, <3>2 DEF BootLogTypeOK
    <3>4. \A q \in Procs \ {p} : bpc[q] # "rename"
      BY <3>1 DEF OneAtATime, Busy
    <3>5. OneAtATime' /\ HandlesAreCurrent'
      BY <2>1, <3>1, <3>4 DEF OneAtATime, Busy, HandlesAreCurrent, BootLogTypeOK
    <3>6. PICK k \in 0 .. written : LogFrom(k) /\ KeptTo(k)
      BY DEF NewestInv, LinesInOrder
    <3>7. path # NoFile
      BY <3>2, BootLogAssumption
    <3>8. LogFrom(k)'
      <4>1. /\ Len(text[path]) = written - k
            /\ \A i \in 1 .. written - k : text[path][i] = k + i
        BY <3>6, <3>7 DEF LogFrom
      <4>2. /\ Len(text'[path]) = Len(text[path]) + 1
            /\ \A i \in 1 .. Len(text[path]) : text'[path][i] = text[path][i]
            /\ text'[path][Len(text[path]) + 1] = written + 1
        BY <3>2, <3>3
      <4>3. written' - k = (written - k) + 1 /\ k + ((written - k) + 1) = written + 1
        BY <2>3, <3>2
      <4>4. Len(text'[path]) = written' - k
        BY <4>1, <4>2, <4>3
      <4>5. ASSUME NEW i \in 1 .. written' - k
            PROVE  text'[path][i] = k + i
        <5>1. CASE i = (written - k) + 1
          BY <4>1, <4>2, <4>3, <5>1
        <5>2. CASE i # (written - k) + 1
          <6>1. i \in 1 .. written - k
            BY <3>2, <4>3, <5>2
          <6> QED
            BY <4>1, <4>2, <6>1
        <5> QED
          BY <5>1, <5>2
      <4> QED
        BY <2>1, <3>7, <4>4, <4>5 DEF LogFrom
    <3>9. KeptTo(k)'
      <4> SUFFICES ASSUME NEW n \in 1 .. k, n > k - MaxLines
                   PROVE  kept # NoFile /\ n \in ToSet(text'[kept])
        BY <2>1 DEF KeptTo
      <4>1. kept # NoFile /\ n \in ToSet(text[kept]) /\ kept \in Files
        BY <3>6 DEF KeptTo, BootLogTypeOK
      <4>2. PICK i \in DOMAIN text[kept] : text[kept][i] = n
        BY <4>1 DEF ToSet
      <4>3. CASE kept = path
        <5>1. i \in DOMAIN text'[path] /\ text'[path][i] = text[path][i]
          BY <3>2, <3>3, <4>2, <4>3
        <5> QED
          BY <4>1, <4>2, <4>3, <5>1 DEF ToSet
      <4>4. CASE kept # path
        BY <3>3, <4>1, <4>4
      <4> QED
        BY <4>3, <4>4
    <3>10. k \in 0 .. written'
      BY <2>3, <3>2
    <3> QED
      BY <3>5, <3>8, <3>9, <3>10 DEF LinesInOrder
  <2> QED
    BY <1>5, <2>2, <2>3 DEF WriteLine
<1>6. CASE UNCHANGED bootLogVars
  BY <1>6, NewestUntouched DEF bootLogVars, Busy, HandlesAreCurrent
<1> QED
  BY <1>1, <1>2, <1>3, <1>4, <1>5, <1>6, QuietSteps
     DEF BootLogStep, BootLogNext, PersistStep

\* While processes do not use the boot log at the same time, the newest lines, as many
\* as one file holds, are in boot.log or the generation kept beside it: a rotation that
\* is refused or cut short by the death of the process at any of its steps loses none.
THEOREM NewestLinesStay == ReportSpec => []NewestLinesAreKept
<1>1. ReportInit => BootLogTypeOK /\ NewestInv
  BY BootLogTypeInit, NewestInit
<1>2. BootLogTypeOK /\ NewestInv /\ [ReportNext]_reportVars => (BootLogTypeOK /\ NewestInv)'
  BY BootLogTypeStep, NewestStep, StepsOfBootLog, ReportSteps
<1>3. BootLogTypeOK /\ NewestInv => NewestLinesAreKept
  BY NewestImplied
<1> QED
  BY <1>1, <1>2, <1>3, PTL DEF ReportSpec

-----------------------------------------------------------------------------
(***************************************************************************)
(* The diagnosis.                                                          *)
(*                                                                         *)
(* What a process remembers of a failed boot is the verdict of the         *)
(* classifiers on an error of the phase, so that DiagnosisFits is one      *)
(* statement for each phase.  Of an adapter's error the types in its chain *)
(* are at most a PathError: what decides is the phrase "ca cert", "tls:",  *)
(* the code of a vault.Error, that of a status, and the phase at last.     *)
(***************************************************************************)

\* The first classifier that knows the error decides.
LEMMA FirstDecides ==
    ASSUME NEW tried, NEW k \in 1 .. 6, tried[k] # "none", \A j \in 1 .. k - 1 : tried[j] = "none"
    PROVE  (CHOOSE i \in 1 .. 6 : tried[i] # "none" /\ \A j \in 1 .. i - 1 : tried[j] = "none") = k
<1> DEFINE P(i) == tried[i] # "none" /\ \A j \in 1 .. i - 1 : tried[j] = "none"
<1>1. P(k)
  OBVIOUS
<1>2. ASSUME NEW i \in 1 .. 6, P(i) PROVE i = k
  <2>1. ~(i < k) /\ ~(k < i)
    BY <1>2
  <2> QED
    BY <2>1
<1> QED
  BY <1>1, <1>2

LEMMA ClassifiersInOrder ==
    ASSUME NEW e, NEW phase, NEW kind, kind # "none",
           \/ kind = ClassifyConfigErr(e, phase)
           \/ /\ ClassifyConfigErr(e, phase) = "none"
              /\ \/ kind = ClassifyTLSErr(e)
                 \/ /\ ClassifyTLSErr(e) = "none"
                    /\ \/ kind = ClassifyVaultSentinel(e)
                       \/ /\ ClassifyVaultSentinel(e) = "none" /\ ClassifyNetErr(e) = "none"
                          /\ \/ kind = ClassifyGRPCStatus(e)
                             \/ /\ ClassifyGRPCStatus(e) = "none"
                                /\ kind = PhaseFallback(phase)
    PROVE  ClassifyBootError(e, phase) = kind
<1> DEFINE tried == <<ClassifyConfigErr(e, phase), ClassifyTLSErr(e), ClassifyVaultSentinel(e),
                     ClassifyNetErr(e), ClassifyGRPCStatus(e), PhaseFallback(phase)>>
<1>1. /\ tried[1] = ClassifyConfigErr(e, phase) /\ tried[2] = ClassifyTLSErr(e)
      /\ tried[3] = ClassifyVaultSentinel(e) /\ tried[4] = ClassifyNetErr(e)
      /\ tried[5] = ClassifyGRPCStatus(e) /\ tried[6] = PhaseFallback(phase)
  OBVIOUS
<1>2. ClassifyBootError(e, phase)
        = tried[CHOOSE i \in 1 .. 6 : tried[i] # "none" /\ \A j \in 1 .. i - 1 : tried[j] = "none"]
  BY DEF ClassifyBootError
<1> HIDE DEF tried
<1>3. \E k \in 1 .. 6 : /\ tried[k] = kind
                        /\ \A j \in 1 .. k - 1 : tried[j] = "none"
  <2>1. CASE kind = tried[1]
    BY <2>1
  <2>2. CASE tried[1] = "none" /\ kind = tried[2]
    BY <2>2
  <2>3. CASE tried[1] = "none" /\ tried[2] = "none" /\ kind = tried[3]
    BY <2>3
  <2>4. CASE /\ tried[1] = "none" /\ tried[2] = "none" /\ tried[3] = "none" /\ tried[4] = "none"
             /\ kind = tried[5] \/ (tried[5] = "none" /\ kind = tried[6])
    BY <2>4
  <2> QED
    BY <1>1, <2>1, <2>2, <2>3, <2>4
<1> QED
  BY <1>2, <1>3, FirstDecides

\* Blame and advice fit the verdict on an error of a phase.
Verdicted(e, phase, kind) == [kind |-> kind, phase |-> phase, error |-> e]

Fits(e, phase, kind) ==
    /\ Blamed(kind) = IF phase = "envector_index" /\ e.grpc # "none"
                      THEN "vault" ELSE Dependency[phase]
    /\ Retryable(kind) <=> \/ ~UserMustAct(Verdicted(e, phase, kind))
                           \/ MalformedEndpoint(Verdicted(e, phase, kind))

LEMMA Blames ==
    /\ Dependency["config_load"] = "config" /\ Dependency["vault_dial"] = "vault"
    /\ Dependency["vault_manifest"] = "vault" /\ Dependency["key_save"] = "disk"
    /\ Dependency["embedder_dial"] = "embedder" /\ Dependency["envector_init"] = "envector"
    /\ Dependency["envector_index"] = "envector" /\ Dependency["none"] = "config"
    /\ \A kind \in {"config_missing", "config_invalid", "config_parse", "user_deactivated",
                    "vault_not_configured"} : Blamed(kind) = "config"
    /\ \A kind \in {"vault_ca_file", "vault_tls_handshake", "vault_tls_hostname", "vault_auth",
                    "vault_permission", "vault_rate_limit", "vault_timeout", "vault_network",
                    "vault_manifest", "vault_invalid_input", "vault_internal",
                    "vault_dial_opts"} : Blamed(kind) = "vault"
    /\ Blamed("key_save") = "disk" /\ Blamed("embedder_unreachable") = "embedder"
    /\ Blamed("envector_init") = "envector" /\ Blamed("envector_index") = "envector"
BY DEF Dependency, Blamed

LEMMA Advises ==
    /\ \A kind \in {"config_missing", "config_invalid", "config_parse", "user_deactivated",
                    "vault_not_configured", "vault_ca_file", "vault_dial_opts",
                    "vault_tls_handshake", "vault_tls_hostname", "vault_auth",
                    "vault_permission", "vault_invalid_input", "vault_manifest"} :
          ~Retryable(kind)
    /\ \A kind \in {"vault_rate_limit", "vault_timeout", "vault_network", "vault_internal",
                    "key_save", "embedder_unreachable", "envector_init", "envector_index"} :
          Retryable(kind)
BY DEF Retryable, NeedsAction

\* What Fits asks of a verdict, by what the phase depends on.
LEMMA ConfigFits ==
    ASSUME NEW e, NEW phase \in ConfigPhases, NEW kind, Blamed(kind) = Dependency[phase],
           Retryable(kind) <=> e.vault = "VAULT_BAD_ENDPOINT"
    PROVE  Fits(e, phase, kind)
BY DEF Fits, Verdicted, UserMustAct, MalformedEndpoint, ConfigPhases

LEMMA LocalFits ==
    ASSUME NEW e, NEW phase \in {"key_save", "embedder_dial", "envector_init"}, NEW kind,
           Blamed(kind) = Dependency[phase], Retryable(kind)
    PROVE  Fits(e, phase, kind)
BY DEF Fits, Verdicted, UserMustAct, ConfigPhases

LEMMA ManifestFits ==
    ASSUME NEW e, NEW kind, Blamed(kind) = "vault", e.vault # "VAULT_BAD_ENDPOINT",
           Retryable(kind) <=> ~ \/ e.grpc \in Refusals \/ "tls:" \in e.says
                                 \/ e.grpc = "none" /\ e.vault = "none"
    PROVE  Fits(e, "vault_manifest", kind)
BY Blames DEF Fits, Verdicted, UserMustAct, MalformedEndpoint, ConfigPhases

LEMMA IndexFits ==
    ASSUME NEW e, NEW kind, Blamed(kind) = IF e.grpc # "none" THEN "vault" ELSE "envector",
           e.vault = "none",
           Retryable(kind) <=> ~(e.grpc \in Refusals \/ "tls:" \in e.says)
    PROVE  Fits(e, "envector_index", kind)
BY Blames DEF Fits, Verdicted, UserMustAct, MalformedEndpoint, ConfigPhases

LEMMA PlainErrors ==
    ASSUME NEW e, NEW phase, e.vault = "none", e.grpc = "none", e.is \subseteq {"PathError"},
           "ca cert" \notin e.says, "tls:" \notin e.says,
           phase # "config_load" \/ "unmarshal" \notin e.says, PhaseFallback(phase) # "none"
    PROVE  ClassifyBootError(e, phase) = PhaseFallback(phase)
<1>1. ClassifyConfigErr(e, phase) = "none"
  BY DEF ClassifyConfigErr
<1>2. ClassifyTLSErr(e) = "none"
  BY DEF ClassifyTLSErr
<1>3. ClassifyVaultSentinel(e) = "none" /\ ClassifyNetErr(e) = "none" /\ ClassifyGRPCStatus(e) = "none"
  BY DEF ClassifyVaultSentinel, ClassifyNetErr, ClassifyGRPCStatus
<1> QED
  BY <1>1, <1>2, <1>3, ClassifiersInOrder

LEMMA PlainFacts ==
    /\ Plain.is = {} /\ Plain.vault = "none" /\ Plain.grpc = "none" /\ Plain.says = {}
    /\ \A phrases : /\ Saying(phrases).is = {} /\ Saying(phrases).vault = "none"
                    /\ Saying(phrases).grpc = "none" /\ Saying(phrases).says = phrases
    /\ \A type, phrases :
          /\ Typed(type, phrases).is = {type} /\ Typed(type, phrases).vault = "none"
          /\ Typed(type, phrases).grpc = "none" /\ Typed(type, phrases).says = phrases
    /\ \A code, phrases :
          /\ Status(code, phrases).is = {} /\ Status(code, phrases).vault = "none"
          /\ Status(code, phrases).grpc = code /\ Status(code, phrases).says = phrases
BY DEF Plain, Saying, Typed, Status

LEMMA LocalErrorsFit ==
    ASSUME NEW phase \in {"config_load", "key_save", "embedder_dial", "envector_init"},
           NEW e \in ErrorsOf(phase)
    PROVE  Fits(e, phase, ClassifyBootError(e, phase))
<1>1. CASE phase = "config_load"
  <2>1. e \in {Typed("PathError", {}), Plain, Saying({"unmarshal"})}
    BY <1>1 DEF ErrorsOf
  <2>2. CASE e = Saying({"unmarshal"})
    <3>0. e.is = {} /\ e.says = {"unmarshal"}
      BY <2>2, PlainFacts
    <3>1. ClassifyConfigErr(e, phase) = "config_parse" /\ "config_parse" # "none"
      BY <1>1, <3>0 DEF ClassifyConfigErr
    <3>2. ClassifyBootError(e, phase) = "config_parse"
      BY <3>1, ClassifiersInOrder
    <3> QED
      BY <1>1, <2>1, <3>2, Blames, Advises, PlainFacts, ConfigFits DEF ConfigPhases
  <2>3. CASE e # Saying({"unmarshal"})
    <3>1. PhaseFallback(phase) = "config_invalid"
      BY <1>1 DEF PhaseFallback
    <3>0. /\ e.vault = "none" /\ e.grpc = "none" /\ e.says = {} /\ e.is \subseteq {"PathError"}
      BY <2>1, <2>3, PlainFacts
    <3>2. ClassifyBootError(e, phase) = "config_invalid"
      BY <3>0, <3>1, PlainErrors
    <3> QED
      BY <1>1, <3>0, <3>2, Blames, Advises, ConfigFits DEF ConfigPhases
  <2> QED
    BY <2>2, <2>3
<1>2. CASE phase # "config_load"
  <2>1. e \in {Typed("PathError", {}), Plain}
    BY <1>2 DEF ErrorsOf
  <2>2. PhaseFallback(phase) = CASE phase = "key_save" -> "key_save"
                                 [] phase = "embedder_dial" -> "embedder_unreachable"
                                 [] phase = "envector_init" -> "envector_init"
    BY <1>2 DEF PhaseFallback
  <2>0. /\ e.vault = "none" /\ e.grpc = "none" /\ e.says = {} /\ e.is \subseteq {"PathError"}
    BY <2>1, PlainFacts
  <2>3. ClassifyBootError(e, phase) = PhaseFallback(phase)
    BY <1>2, <2>0, <2>2, PlainErrors
  <2> QED
    BY <1>2, <2>2, <2>3, Blames, Advises, LocalFits
<1> QED
  BY <1>1, <1>2

LEMMA DialErrorsFit ==
    ASSUME NEW e \in ErrorsOf("vault_dial")
    PROVE  Fits(e, "vault_dial", ClassifyBootError(e, "vault_dial"))
<1>1. e \in DialErrors
  BY DEF ErrorsOf
<1>2. \/ e.vault = "VAULT_BAD_ENDPOINT" /\ e.is = {} /\ e.says = {}
      \/ e.vault = "none" /\ e.grpc = "none" /\ e.is \subseteq {"PathError"} /\ e.says \subseteq {"ca cert"}
  <2>1. CASE e = [Plain EXCEPT !.vault = "VAULT_BAD_ENDPOINT"]
    BY <2>1 DEF Plain
  <2>2. CASE e \in {Typed("PathError", {"ca cert"}), Saying({"ca cert"}), Plain}
    <3>1. CASE e = Typed("PathError", {"ca cert"})
      BY <3>1 DEF Typed, Plain
    <3>2. CASE e = Saying({"ca cert"})
      BY <3>2 DEF Saying, Plain
    <3>3. CASE e = Plain
      BY <3>3 DEF Plain
    <3> QED
      BY <2>2, <3>1, <3>2, <3>3
  <2> QED
    BY <1>1, <2>1, <2>2 DEF DialErrors
<1>3. ClassifyConfigErr(e, "vault_dial") = "none" /\ PhaseFallback("vault_dial") = "vault_dial_opts"
  BY DEF ClassifyConfigErr, PhaseFallback
<1>4. /\ ClassifyTLSErr(e) \in {"none", "vault_ca_file"}
      /\ e.vault # "none" => ClassifyTLSErr(e) = "none"
  BY <1>2 DEF ClassifyTLSErr
<1>5. /\ e.vault = "none" => ClassifyVaultSentinel(e) = "none"
      /\ e.vault # "none" => ClassifyVaultSentinel(e) = "vault_internal"
      /\ ClassifyNetErr(e) = "none" /\ (ClassifyVaultSentinel(e) = "none" => ClassifyGRPCStatus(e) = "none")
  BY <1>2 DEF ClassifyVaultSentinel, ClassifyNetErr, ClassifyGRPCStatus
<1>6. /\ e.vault = "none" => ClassifyBootError(e, "vault_dial") \in {"vault_ca_file", "vault_dial_opts"}
      /\ e.vault # "none" => ClassifyBootError(e, "vault_dial") = "vault_internal"
  BY <1>2, <1>3, <1>4, <1>5, ClassifiersInOrder
<1> QED
  BY <1>2, <1>6, Blames, Advises, ConfigFits DEF ConfigPhases

\* MapGRPCError leaves the status and the phrases: a verdict on an error of the manifest
\* goes by "tls:", then by the code.
LEMMA ManifestErrorsFit ==
    ASSUME NEW e \in ErrorsOf("vault_manifest")
    PROVE  Fits(e, "vault_manifest", ClassifyBootError(e, "vault_manifest"))
<1> DEFINE kind == ClassifyBootError(e, "vault_manifest")
<1>1. ClassifyConfigErr(e, "vault_manifest") = "none"
  BY DEF ClassifyConfigErr
<1>2. ASSUME NEW c \in Codes \ {"OK"}, NEW phrases \in Handshake \union {{}},
             phrases = {} \/ c = "Unavailable", e = MapGRPCError(Status(c, phrases))
      PROVE  Fits(e, "vault_manifest", kind)
  <2>1. /\ e.is = {} /\ e.says = phrases /\ e.grpc = c
        /\ e.vault = VaultCode(c, phrases)
    BY <1>2 DEF MapGRPCError, Status, Plain
  <2>2. CASE phrases = {}
    <3>1. ClassifyTLSErr(e) = "none"
      BY <2>1, <2>2 DEF ClassifyTLSErr
    <3>2. /\ c = "Unauthenticated"   => ClassifyVaultSentinel(e) = "vault_auth"
          /\ c = "PermissionDenied"  => ClassifyVaultSentinel(e) = "vault_permission"
          /\ c = "InvalidArgument"   => ClassifyVaultSentinel(e) = "vault_invalid_input"
          /\ c = "ResourceExhausted" => ClassifyVaultSentinel(e) = "vault_rate_limit"
          /\ c = "NotFound"          => ClassifyVaultSentinel(e) = "vault_manifest"
          /\ c = "Unavailable"       => ClassifyVaultSentinel(e) = "vault_network"
          /\ c = "DeadlineExceeded"  => ClassifyVaultSentinel(e) = "vault_timeout"
          /\ c \in {"Canceled", "Internal"} => ClassifyVaultSentinel(e) = "vault_internal"
      BY <2>1, <2>2 DEF ClassifyVaultSentinel, VaultCode
    <3>3. ClassifyVaultSentinel(e) \in {"vault_auth", "vault_permission", "vault_invalid_input",
             "vault_rate_limit", "vault_manifest", "vault_network", "vault_timeout", "vault_internal"}
      BY <3>2, <1>2 DEF Codes
    <3>4. kind = ClassifyVaultSentinel(e)
      BY <1>1, <3>1, <3>3, ClassifiersInOrder
    <3>5. Blamed(kind) = "vault"
      BY <3>3, <3>4, Blames
    <3>6. "tls:" \notin e.says
      BY <2>1, <2>2
    <3>7. e.grpc # "none" /\ e.vault # "VAULT_BAD_ENDPOINT"
      BY <1>2, <2>1 DEF Codes, VaultCode
    <3>8. Retryable(kind) <=> e.grpc \notin Refusals
      BY <1>2, <2>1, <3>2, <3>4, Advises DEF Refusals, Codes
    <3> HIDE DEF kind
    <3> QED
      BY <3>5, <3>6, <3>7, <3>8, ManifestFits
  <2>3. CASE phrases \in Handshake
    <3>1. "tls:" \in e.says /\ "ca cert" \notin e.says
      BY <2>1, <2>3 DEF Handshake
    <3>2. ClassifyTLSErr(e) \in {"vault_tls_hostname", "vault_tls_handshake"}
      BY <2>1, <3>1 DEF ClassifyTLSErr
    <3>3. kind = ClassifyTLSErr(e)
      BY <1>1, <3>2, ClassifiersInOrder
    <3>4. ~Retryable(kind)
      BY <3>2, <3>3 DEF Retryable, NeedsAction
    <3>5. Blamed(kind) = "vault"
      BY <3>2, <3>3, Blames
    <3>6. e.vault # "VAULT_BAD_ENDPOINT"
      BY <2>1 DEF VaultCode
    <3> HIDE DEF kind
    <3> QED
      BY <3>1, <3>4, <3>5, <3>6, ManifestFits
  <2> QED
    BY <1>2, <2>2, <2>3
<1>3. CASE e \in {[Plain EXCEPT !.vault = "VAULT_INTERNAL"], Saying({"unmarshal"}), Plain}
  <2>1. /\ e.grpc = "none" /\ e.is = {} /\ e.says \subseteq {"unmarshal"}
        /\ e.vault \in {"none", "VAULT_INTERNAL"}
    <3>1. CASE e = [Plain EXCEPT !.vault = "VAULT_INTERNAL"]
      BY <3>1 DEF Plain
    <3>2. CASE e = Saying({"unmarshal"})
      BY <3>2 DEF Saying, Plain
    <3>3. CASE e = Plain
      BY <3>3 DEF Plain
    <3> QED
      BY <1>3, <3>1, <3>2, <3>3
  <2>2. ClassifyTLSErr(e) = "none" /\ ClassifyNetErr(e) = "none" /\ ClassifyGRPCStatus(e) = "none"
    BY <2>1 DEF ClassifyTLSErr, ClassifyNetErr, ClassifyGRPCStatus
  <2>3. /\ e.vault = "none" => ClassifyVaultSentinel(e) = "none"
        /\ e.vault # "none" => ClassifyVaultSentinel(e) = "vault_internal"
    BY <2>1 DEF ClassifyVaultSentinel
  <2>4. PhaseFallback("vault_manifest") = "vault_manifest"
    BY DEF PhaseFallback
  <2>5. /\ e.vault = "none" => kind = "vault_manifest"
        /\ e.vault # "none" => kind = "vault_internal"
    BY <1>1, <2>2, <2>3, <2>4, ClassifiersInOrder
  <2>6. Blamed(kind) = "vault" /\ (Retryable(kind) <=> e.vault # "none")
    BY <2>5, Blames, Advises
  <2>7. "tls:" \notin e.says /\ e.grpc \notin Refusals
    BY <2>1 DEF Refusals
  <2> QED
    BY <2>1, <2>6, <2>7, ManifestFits
<1>4. \/ \E c \in Codes \ {"OK"}, phrases \in Handshake \union {{}} :
            (phrases = {} \/ c = "Unavailable") /\ e = MapGRPCError(Status(c, phrases))
      \/ e \in {[Plain EXCEPT !.vault = "VAULT_INTERNAL"], Saying({"unmarshal"}), Plain}
  <2>1. e \in {MapGRPCError(x) : x \in RPCErrors}
           \/ e \in {[Plain EXCEPT !.vault = "VAULT_INTERNAL"], Saying({"unmarshal"}), Plain}
    BY DEF ErrorsOf
  <2>2. \A x \in RPCErrors : \E c \in Codes \ {"OK"}, phrases \in Handshake \union {{}} :
            (phrases = {} \/ c = "Unavailable") /\ x = Status(c, phrases)
    BY DEF RPCErrors, Codes
  <2> QED
    BY <2>1, <2>2
<1> QED
  BY <1>2, <1>3, <1>4

\* MapSDKError leaves the status bare: the same codes, without a vault.Error.
LEMMA IndexErrorsFit ==
    ASSUME NEW e \in ErrorsOf("envector_index")
    PROVE  Fits(e, "envector_index", ClassifyBootError(e, "envector_index"))
<1> DEFINE kind == ClassifyBootError(e, "envector_index")
<1>1. ClassifyConfigErr(e, "envector_index") = "none"
  BY DEF ClassifyConfigErr
<1>2. ASSUME NEW c \in Codes \ {"OK"}, NEW phrases \in Handshake \union {{}},
             e = Status(c, phrases)
      PROVE  Fits(e, "envector_index", kind)
  <2>1. e.is = {} /\ e.says = phrases /\ e.grpc = c /\ e.vault = "none" /\ c # "none"
    BY <1>2, PlainFacts DEF Codes
  <2>2. CASE phrases = {}
    <3>1. ClassifyTLSErr(e) = "none" /\ ClassifyVaultSentinel(e) = "none" /\ ClassifyNetErr(e) = "none"
      BY <2>1, <2>2 DEF ClassifyTLSErr, ClassifyVaultSentinel, ClassifyNetErr
    <3>2. /\ c \in Refusals => ClassifyGRPCStatus(e) \in
                {"vault_auth", "vault_permission", "vault_invalid_input", "vault_manifest"}
          /\ c \notin Refusals => ClassifyGRPCStatus(e) \in
                {"vault_rate_limit", "vault_network", "vault_timeout", "vault_internal"}
      BY <1>2, <2>1 DEF ClassifyGRPCStatus, Codes, Refusals
    <3>3. ClassifyGRPCStatus(e) # "none"
      BY <3>2
    <3>4. kind = ClassifyGRPCStatus(e)
      BY <1>1, <3>1, <3>3, ClassifiersInOrder
    <3>5. Blamed(kind) = "vault" /\ (Retryable(kind) <=> e.grpc \notin Refusals)
      BY <2>1, <3>2, <3>4, Blames, Advises
    <3> HIDE DEF kind
    <3> QED
      BY <2>1, <2>2, <3>5, IndexFits
  <2>3. CASE phrases \in Handshake
    <3>1. "tls:" \in e.says /\ "ca cert" \notin e.says
      BY <2>1, <2>3 DEF Handshake
    <3>2. ClassifyTLSErr(e) \in {"vault_tls_hostname", "vault_tls_handshake"}
      BY <2>1, <3>1 DEF ClassifyTLSErr
    <3>3. kind = ClassifyTLSErr(e)
      BY <1>1, <3>2, ClassifiersInOrder
    <3>4. Blamed(kind) = "vault" /\ ~Retryable(kind)
      BY <3>2, <3>3, Blames, Advises
    <3> HIDE DEF kind
    <3> QED
      BY <2>1, <3>1, <3>4, IndexFits
  <2> QED
    BY <1>2, <2>2, <2>3
<1>3. CASE e = Plain
  <2>1. PhaseFallback("envector_index") = "envector_index"
    BY DEF PhaseFallback
  <2>2. kind = "envector_index"
    BY <1>3, <2>1, PlainErrors, PlainFacts
  <2>3. Blamed(kind) = "envector" /\ Retryable(kind)
    BY <2>2, Blames, Advises
  <2> QED
    BY <1>3, <2>3, PlainFacts, IndexFits DEF Refusals
<1>4. \/ \E c \in Codes \ {"OK"}, phrases \in Handshake \union {{}} : e = Status(c, phrases)
      \/ e = Plain
  BY DEF ErrorsOf, RPCErrors, Codes
<1> QED
  BY <1>2, <1>3, <1>4

LEMMA ErrorsFit ==
    ASSUME NEW phase \in Phases, NEW e \in ErrorsOf(phase)
    PROVE  Fits(e, phase, ClassifyBootError(e, phase))
BY LocalErrorsFit, DialErrorsFit, ManifestErrorsFit, IndexErrorsFit DEF Phases

\* Where a report comes from.
ReportsAreVerdicts ==
    \A p \in Procs :
        \/ report[p] = NoReport
        \/ \E phase \in Phases : \E e \in ErrorsOf(phase) :
              report[p] = [kind |-> ClassifyBootError(e, phase), phase |-> phase, error |-> e]
        \/ \E reason :
              report[p] = [kind |-> ClassifyDormantReason(reason), phase |-> "none",
                           error |-> Plain]

LEMMA VerdictsStep ==
    ASSUME BootLogTypeOK, ReportsAreVerdicts, BootLogStep
    PROVE  ReportsAreVerdicts'
<1> USE DEF ReportsAreVerdicts
<1>1. ASSUME NEW p \in Procs, NEW new, SetBootError(p, new),
             \/ \E phase \in Phases : \E e \in ErrorsOf(phase) :
                   new = [kind |-> ClassifyBootError(e, phase), phase |-> phase, error |-> e]
             \/ \E reason :
                   new = [kind |-> ClassifyDormantReason(reason), phase |-> "none", error |-> Plain]
      PROVE  ReportsAreVerdicts'
  BY <1>1 DEF SetBootError, BootLogTypeOK
<1>2. ASSUME NEW p \in Procs, AttemptFails(p) PROVE ReportsAreVerdicts'
  BY <1>1, <1>2 DEF AttemptFails
<1>3. ASSUME NEW p \in Procs, GoesDormant(p) PROVE ReportsAreVerdicts'
  <2>1. PICK reason \in {"not_configured", "vault_unconfigured", "user_deactivated",
                         "invalid_state", "hand_written"} :
            SetBootError(p, [kind |-> ClassifyDormantReason(reason), phase |-> "none",
                             error |-> Plain])
    BY <1>3 DEF GoesDormant
  <2> QED
    BY <1>1, <2>1
<1>4. ASSUME NEW p \in Procs, BootSucceeds(p) \/ KillPersist(p) PROVE ReportsAreVerdicts'
  <2>1. report' = [report EXCEPT ![p] = NoReport]
    BY <1>4 DEF BootSucceeds, KillPersist
  <2>2. \A q \in Procs : report'[q] = NoReport \/ report'[q] = report[q]
    BY <2>1 DEF BootLogTypeOK
  <2> QED
    BY <2>2
<1>5. ASSUME NEW p \in Procs, PersistStep(p) PROVE ReportsAreVerdicts'
  BY <1>5 DEF PersistStep, OpenBootLog, OpenBootLogFails, Stat, StatFails, Rotate, RotateRefused,
              Reopen, WriteLine
<1>6. CASE UNCHANGED bootLogVars
  BY <1>6 DEF bootLogVars
<1> QED
  BY <1>2, <1>3, <1>4, <1>5, <1>6 DEF BootLogStep, BootLogNext

LEMMA VerdictsFit ==
    ASSUME ReportsAreVerdicts
    PROVE  DiagnosisFits
<1> SUFFICES ASSUME NEW p \in Procs, report[p] # NoReport
             PROVE  /\ report[p] = Verdicted(report[p].error, report[p].phase, report[p].kind)
                    /\ Fits(report[p].error, report[p].phase, report[p].kind)
  BY DEF DiagnosisFits, BlameFitsPhase, AdviceFits, Fits
<1>1. ASSUME NEW phase \in Phases, NEW e \in ErrorsOf(phase),
             report[p] = [kind |-> ClassifyBootError(e, phase), phase |-> phase, error |-> e]
      PROVE  /\ report[p] = Verdicted(report[p].error, report[p].phase, report[p].kind)
             /\ Fits(report[p].error, report[p].phase, report[p].kind)
  BY <1>1, ErrorsFit DEF Verdicted
<1>2. ASSUME NEW reason,
             report[p] = [kind |-> ClassifyDormantReason(reason), phase |-> "none", error |-> Plain]
      PROVE  /\ report[p] = Verdicted(report[p].error, report[p].phase, report[p].kind)
             /\ Fits(report[p].error, report[p].phase, report[p].kind)
  <2>1. ClassifyDormantReason(reason) \in {"config_missing", "vault_not_configured", "user_deactivated", "config_invalid"}
    BY DEF ClassifyDormantReason
  <2>2. /\ Blamed(ClassifyDormantReason(reason)) = Dependency["none"]
        /\ ~Retryable(ClassifyDormantReason(reason))
    BY <2>1, Blames, Advises
  <2>3. Fits(Plain, "none", ClassifyDormantReason(reason))
    BY <2>2, PlainFacts, ConfigFits DEF ConfigPhases
  <2> QED
    BY <1>2, <2>3 DEF Verdicted
<1> QED
  BY <1>1, <1>2 DEF ReportsAreVerdicts

\* For every error an adapter hands to the classifiers, in every phase: the diagnosis
\* blames what the failed phase depends on, or the Vault for an OpenIndex that ends with a
\* status, and it tells the user to act exactly when the configuration, the credentials
\* or the certificate are at fault, the malformed endpoint excepted.
THEOREM DiagnosesFit == ReportSpec => []DiagnosisFits
<1>1. ReportInit => BootLogTypeOK /\ ReportsAreVerdicts
  BY BootLogTypeInit, ReportStart DEF BootLogInit, ReportsAreVerdicts
<1>2. BootLogTypeOK /\ ReportsAreVerdicts /\ [ReportNext]_reportVars
         => (BootLogTypeOK /\ ReportsAreVerdicts)'
  BY BootLogTypeStep, VerdictsStep, StepsOfBootLog, ReportSteps
<1> QED
  BY <1>1, <1>2, VerdictsFit, PTL DEF ReportSpec

-----------------------------------------------------------------------------
(***************************************************************************)
(* The capture log.                                                        *)
(*                                                                         *)
(* CutsCostOneNeighbour counts; what holds in every step is where entries  *)
(* are.  Whoever writes holds the flock (WritersHoldFlock), so that only   *)
(* an entry that was cut, or the one being written, can be the last of a   *)
(* line without an end (GluedAreCut).  An entry that was logged without an *)
(* error ends its line (LoggedEndALine).  If it is lost, the entry before  *)
(* it on that line was cut, and no two lines share an entry (LinesAreApart).*)
(***************************************************************************)

LineType == [entries : Seq(Nat \ {0}), whole : BOOLEAN, ended : BOOLEAN]

-----------------------------------------------------------------------------
(* The shapes of the steps. *)

\* A capture gets a step nearer to writing.
Advances(w) ==
    /\ \/ LockMutex(w) /\ UNCHANGED flock
       \/ OpenLog(w)
       \/ TakeFlock(w)
    /\ UNCHANGED <<captures, logging, lines, acked, cut>>

\* Some captures end, by a return or with their process.
Ends(over) ==
    /\ over \subseteq Writers
    /\ wpc' = [w \in Writers |-> IF w \in over THEN "idle" ELSE wpc[w]]
    /\ logging' = [w \in Writers |-> IF w \in over THEN 0 ELSE logging[w]]
    /\ flock' = IF flock \in over THEN NoWriter ELSE flock
    /\ cut' = cut \union {logging[w] : w \in {v \in over : wpc[v] = "rest"}}
    /\ acked \subseteq acked'
    /\ acked' \subseteq acked \union {logging[w] : w \in {v \in over : wpc[v] = "sync"}}
    /\ UNCHANGED <<captures, lines>>

LogTypes ==
    /\ captures \in Nat
    /\ wpc \in [Writers -> AppendPCs]
    /\ logging \in [Writers -> Nat]
    /\ flock \in Writers \union {NoWriter}
    /\ lines \in Seq(LineType)

LEMMA ReleaseEnds ==
    ASSUME LogTypes, NEW w \in Writers, AppendFails(w) \/ WriteFallsShort(w) \/ SyncLog(w)
    PROVE  Ends({w})
<1>1. Release(w)
  BY DEF AppendFails, WriteFallsShort, SyncLog
<1>2. /\ wpc' = [v \in Writers |-> IF v \in {w} THEN "idle" ELSE wpc[v]]
      /\ logging' = [v \in Writers |-> IF v \in {w} THEN 0 ELSE logging[v]]
      /\ flock' = IF flock \in {w} THEN NoWriter ELSE flock
  BY <1>1 DEF Release, AppendGoes, LogTypes
<1>3. /\ cut' = cut \union {logging[x] : x \in {v \in {w} : wpc[v] = "rest"}}
      /\ acked \subseteq acked'
      /\ acked' \subseteq acked \union {logging[x] : x \in {v \in {w} : wpc[v] = "sync"}}
      /\ UNCHANGED <<captures, lines>>
  BY DEF AppendFails, WriteFallsShort, SyncLog
<1> QED
  BY <1>2, <1>3 DEF Ends

LEMMA KillEnds ==
    ASSUME LogTypes, NEW p \in Procs, KillAppends(p)
    PROVE  \E over \in SUBSET Writers : Ends(over)
<1> DEFINE dead == {w \in Writers : ProcOf[w] = p /\ wpc[w] # "idle"}
<1>1. Ends(dead)
  BY DEF KillAppends, Ends
<1> QED
  BY <1>1

LEMMA CaptureLogShapes ==
    ASSUME LogTypes, [Next]_logVars
    PROVE  \/ \E w \in Writers : BeginAppend(w)
           \/ \E w \in Writers : Advances(w)
           \/ \E w \in Writers : WriteSome(w)
           \/ \E w \in Writers : WriteRest(w)
           \/ \E over \in SUBSET Writers : Ends(over)
           \/ UNCHANGED captureLogVars
<1>1. ASSUME NEW w \in Writers, AppendStep(w)
      PROVE  \/ Advances(w) \/ WriteSome(w) \/ WriteRest(w) \/ Ends({w})
  BY <1>1, ReleaseEnds DEF AppendStep, Advances, LockMutex, OpenLog, TakeFlock
<1>2. ASSUME NEW p \in Procs, Kill(p) PROVE \E over \in SUBSET Writers : Ends(over)
  BY <1>2, KillEnds DEF Kill
<1> QED
  BY <1>1, <1>2 DEF Next, CaptureLogNext, logVars

-----------------------------------------------------------------------------
(* Where entries are. *)

EntriesOf(line) == {line.entries[j] : j \in 1 .. Len(line.entries)}
LastOf(line)    == line.entries[Len(line.entries)]

WritersHoldFlock == \A w \in Writers : wpc[w] \in {"write", "rest", "sync"} => flock = w

\* No two captures log the same entry, and nobody writes one that is in the file.
EntriesAreFresh ==
    /\ \A w \in Writers : wpc[w] # "idle" => logging[w] > captures
    /\ \A v, w \in Writers :
          wpc[v] # "idle" /\ wpc[w] # "idle" /\ logging[v] = logging[w] => v = w
    /\ \A i \in 1 .. Len(lines) : \A e \in EntriesOf(lines[i]) :
          /\ e > captures
          /\ \A w \in Writers :
                wpc[w] \in {"lock", "open", "flock", "write"} => logging[w] # e

LinesAreApart ==
    \A i, k \in 1 .. Len(lines) :
        EntriesOf(lines[i]) \intersect EntriesOf(lines[k]) # {} => i = k

\* Only the last line may lack its end, and only behind an entry that was cut or is
\* being written.
GluedAreCut ==
    /\ \A i \in 1 .. Len(lines) :
          /\ Len(lines[i].entries) > 0
          /\ \A j \in 1 .. Len(lines[i].entries) - 1 : lines[i].entries[j] \in cut
          /\ ~lines[i].ended =>
                /\ i = Len(lines)
                /\ \/ LastOf(lines[i]) \in cut
                   \/ \E w \in Writers : wpc[w] = "rest" /\ logging[w] = LastOf(lines[i])
    /\ \A w \in Writers : wpc[w] = "rest" =>
          /\ Len(lines) > 0 /\ ~lines[Len(lines)].ended
          /\ LastOf(lines[Len(lines)]) = logging[w]

EndsALine(n) ==
    \E i \in 1 .. Len(lines) : lines[i].ended /\ lines[i].whole /\ LastOf(lines[i]) = n

LoggedEndALine ==
    /\ \A n \in acked : EndsALine(n)
    /\ \A w \in Writers : wpc[w] = "sync" => EndsALine(logging[w])

CaptureLogInv ==
    /\ LogTypes
    /\ WritersHoldFlock
    /\ EntriesAreFresh
    /\ LinesAreApart
    /\ GluedAreCut
    /\ LoggedEndALine
    /\ IsFiniteSet(cut)

LEMMA LineFacts ==
    ASSUME LogTypes
    PROVE  /\ Len(lines) \in Nat
           /\ \A i \in 1 .. Len(lines) :
                 /\ lines[i] \in LineType
                 /\ lines[i].entries \in Seq(Nat \ {0}) /\ Len(lines[i].entries) \in Nat
<1>1. lines \in Seq(LineType)
  BY DEF LogTypes
<1>2. Len(lines) \in Nat /\ \A i \in 1 .. Len(lines) : lines[i] \in LineType
  BY <1>1
<1> QED
  BY <1>2 DEF LineType

\* An entry goes into a line of its own, or into the last, which has no end.
LEMMA WriteFacts ==
    ASSUME LogTypes, EntriesAreFresh, NEW w \in Writers, WriteSome(w)
    PROVE  /\ lines' \in Seq(LineType)
           /\ Len(lines') \in {Len(lines), Len(lines) + 1} /\ Len(lines') > 0
           /\ \A i \in 1 .. Len(lines) : i # Len(lines') => lines'[i] = lines[i]
           /\ ~lines'[Len(lines')].ended
           /\ \/ /\ Len(lines') = Len(lines)
                 /\ ~lines[Len(lines)].ended
                 /\ lines'[Len(lines')].entries = Append(lines[Len(lines)].entries, logging[w])
              \/ /\ Len(lines') = Len(lines) + 1
                 /\ Len(lines) > 0 => lines[Len(lines)].ended
                 /\ lines'[Len(lines')].entries = <<logging[w]>>
           /\ logging[w] \in Nat \ {0}
<1> DEFINE n == logging[w]
<1>1. n \in Nat \ {0} /\ wpc[w] = "write"
  BY DEF LogTypes, EntriesAreFresh, WriteSome
<1>2. PICK whole \in BOOLEAN : lines' = Extended(n, whole)
  BY DEF WriteSome
<1>3. lines \in Seq(LineType) /\ Len(lines) \in Nat
  BY LineFacts DEF LogTypes
<1>4. CASE lines = <<>> \/ Last(lines).ended
  <2> DEFINE line == [entries |-> <<n>>, whole |-> whole, ended |-> FALSE]
  <2>1. line \in LineType
    BY <1>1 DEF LineType
  <2>2. lines' = Append(lines, line)
    BY <1>2, <1>4 DEF Extended
  <2>3. Len(lines) > 0 => lines[Len(lines)].ended
    BY <1>3, <1>4 DEF Last
  <2>4. line.entries = <<n>> /\ ~line.ended
    OBVIOUS
  <2> HIDE DEF line, n
  <2>5. /\ lines' \in Seq(LineType) /\ Len(lines') = Len(lines) + 1
        /\ \A i \in 1 .. Len(lines) : lines'[i] = lines[i]
        /\ lines'[Len(lines) + 1] = line
    BY <1>3, <2>1, <2>2
  <2> QED
    BY <1>1, <1>3, <2>3, <2>4, <2>5 DEF n
<1>5. CASE ~(lines = <<>> \/ Last(lines).ended)
  <2> DEFINE m == Len(lines)
             line == [lines[m] EXCEPT !.entries = Append(@, n), !.whole = whole]
  <2>1. m \in 1 .. Len(lines) /\ ~lines[m].ended
    BY <1>3, <1>5 DEF Last
  <2>2. lines[m] \in LineType
    BY <2>1, LineFacts
  <2>3. line \in LineType
    <3> DEFINE es == Append(lines[m].entries, n)
    <3>1. es \in Seq(Nat \ {0})
      BY <1>1, <2>1, LineFacts
    <3>2. line = [lines[m] EXCEPT !.entries = es, !.whole = whole]
      OBVIOUS
    <3> HIDE DEF es, line
    <3> QED
      BY <2>2, <3>1, <3>2 DEF LineType
  <2>6. lines' = [lines EXCEPT ![m] = line]
    BY <1>2, <1>3, <1>5, <2>1 DEF Extended
  <2>7. line.entries = Append(lines[m].entries, n) /\ ~line.ended
    BY <2>1, <2>2 DEF LineType
  <2> HIDE DEF line, n, m
  <2>8. /\ lines' \in Seq(LineType) /\ Len(lines') = Len(lines)
        /\ \A i \in 1 .. Len(lines) : i # m => lines'[i] = lines[i]
        /\ lines'[m] = line
    BY <1>3, <2>1, <2>3, <2>6
  <2> QED
    BY <1>1, <1>3, <2>1, <2>7, <2>8 DEF n, m
<1> QED
  BY <1>4, <1>5

\* The rest of the entry ends the line it is on.
LEMMA RestFacts ==
    ASSUME LogTypes, GluedAreCut, NEW w \in Writers, WriteRest(w)
    PROVE  /\ lines' \in Seq(LineType)
           /\ Len(lines') = Len(lines) /\ Len(lines) > 0
           /\ \A i \in 1 .. Len(lines) - 1 : lines'[i] = lines[i]
           /\ \A i \in 1 .. Len(lines) : lines'[i].entries = lines[i].entries
           /\ lines'[Len(lines)].whole /\ lines'[Len(lines)].ended
           /\ LastOf(lines'[Len(lines)]) = logging[w]
<1> DEFINE m == Len(lines)
           line == [lines[m] EXCEPT !.whole = TRUE, !.ended = TRUE]
<1>1. /\ m \in 1 .. Len(lines) /\ lines \in Seq(LineType) /\ lines[m] \in LineType
      /\ LastOf(lines[m]) = logging[w]
  BY LineFacts DEF LogTypes, GluedAreCut, WriteRest
<1>2. line \in LineType /\ line.entries = lines[m].entries /\ line.whole /\ line.ended
  BY <1>1 DEF LineType
<1>5. lines' = [lines EXCEPT ![m] = line]
  BY <1>1 DEF WriteRest
<1> HIDE DEF line, m
<1>6. /\ lines' \in Seq(LineType) /\ Len(lines') = Len(lines)
      /\ \A i \in 1 .. Len(lines) : i # m => lines'[i] = lines[i]
      /\ lines'[m] = line
  BY <1>1, <1>2, <1>5
<1> QED
  BY <1>1, <1>2, <1>6 DEF m, LastOf

LEMMA WriteEntries ==
    ASSUME LogTypes, EntriesAreFresh, NEW w \in Writers, WriteSome(w)
    PROVE  /\ LastOf(lines'[Len(lines')]) = logging[w]
           /\ \A i \in 1 .. Len(lines') :
                 IF i \in 1 .. Len(lines)
                 THEN EntriesOf(lines'[i]) \subseteq EntriesOf(lines[i]) \union {logging[w]}
                 ELSE i = Len(lines') /\ EntriesOf(lines'[i]) = {logging[w]}
           /\ \A i \in 1 .. Len(lines') :
                 logging[w] \in EntriesOf(lines'[i]) => i = Len(lines')
<1> DEFINE m == Len(lines')
           n == logging[w]
<1>1. \A i \in 1 .. Len(lines) : n \notin EntriesOf(lines[i])
  BY DEF EntriesAreFresh, WriteSome
<1>2. /\ Len(lines) \in Nat /\ m \in Nat
      /\ \A i \in 1 .. Len(lines) : lines[i].entries \in Seq(Nat \ {0})
  BY LineFacts, WriteFacts
<1>3. /\ LastOf(lines'[m]) = n
      /\ EntriesOf(lines'[m])
            = IF m = Len(lines) THEN EntriesOf(lines[m]) \union {n} ELSE {n}
  <2>1. CASE m = Len(lines)
    <3> DEFINE es == lines[m].entries
    <3>1. lines'[m].entries = Append(es, n) /\ es \in Seq(Nat \ {0})
      BY <1>2, <2>1, WriteFacts
    <3>2. n \in Nat \ {0}
      BY WriteFacts
    <3> HIDE DEF es, n
    <3>3. /\ Len(Append(es, n)) = Len(es) + 1 /\ Len(es) \in Nat
          /\ \A j \in 1 .. Len(es) : Append(es, n)[j] = es[j]
          /\ Append(es, n)[Len(es) + 1] = n
      BY <3>1, <3>2
    <3>4. {Append(es, n)[j] : j \in 1 .. Len(es) + 1} = {es[j] : j \in 1 .. Len(es)} \union {n}
      BY <3>3
    <3> QED
      BY <2>1, <3>1, <3>3, <3>4 DEF EntriesOf, LastOf, es
  <2>2. CASE m = Len(lines) + 1
    <3>1. lines'[m].entries = <<n>>
      BY <1>2, <2>2, WriteFacts
    <3>2. Len(<<n>>) = 1 /\ <<n>>[1] = n /\ {<<n>>[j] : j \in 1 .. 1} = {n}
      OBVIOUS
    <3> HIDE DEF n
    <3> QED
      BY <1>2, <2>2, <3>1, <3>2 DEF EntriesOf, LastOf
  <2> QED
    BY <2>1, <2>2, WriteFacts
<1>4. \A i \in 1 .. m : i # m => i \in 1 .. Len(lines) /\ lines'[i] = lines[i]
  BY <1>2, WriteFacts
<1> QED
  BY <1>1, <1>2, <1>3, <1>4

-----------------------------------------------------------------------------
(* The invariant is kept. *)

LEMMA StepLogTypes ==
    ASSUME CaptureLogInv, [Next]_logVars
    PROVE  LogTypes'
<1> USE DEF CaptureLogInv
<1>1. ASSUME NEW w \in Writers, BeginAppend(w) PROVE LogTypes'
  BY <1>1 DEF LogTypes, BeginAppend, AppendGoes, AppendPCs
<1>2. ASSUME NEW w \in Writers, Advances(w) PROVE LogTypes'
  BY <1>2 DEF LogTypes, Advances, LockMutex, OpenLog, TakeFlock, AppendGoes, AppendPCs
<1>3. ASSUME NEW w \in Writers, WriteSome(w) PROVE LogTypes'
  BY <1>3, WriteFacts DEF LogTypes, WriteSome, AppendGoes, AppendPCs
<1>4. ASSUME NEW w \in Writers, WriteRest(w) PROVE LogTypes'
  BY <1>4, RestFacts DEF LogTypes, WriteRest, AppendGoes, AppendPCs
<1>5. ASSUME NEW over \in SUBSET Writers, Ends(over) PROVE LogTypes'
  BY <1>5 DEF LogTypes, Ends, AppendPCs
<1>6. CASE UNCHANGED captureLogVars
  BY <1>6 DEF LogTypes, captureLogVars
<1> QED
  BY <1>1, <1>2, <1>3, <1>4, <1>5, <1>6, CaptureLogShapes

LEMMA StepFlock ==
    ASSUME CaptureLogInv, [Next]_logVars
    PROVE  WritersHoldFlock'
<1> USE CaptureLogAssumption DEF CaptureLogInv, WritersHoldFlock, LogTypes
<1>1. ASSUME NEW w \in Writers, BeginAppend(w) PROVE WritersHoldFlock'
  BY <1>1 DEF BeginAppend, AppendGoes
<1>2. ASSUME NEW w \in Writers, Advances(w) PROVE WritersHoldFlock'
  BY <1>2 DEF Advances, LockMutex, OpenLog, TakeFlock, AppendGoes
<1>3. ASSUME NEW w \in Writers, WriteSome(w) \/ WriteRest(w) PROVE WritersHoldFlock'
  BY <1>3 DEF WriteSome, WriteRest, AppendGoes
<1>5. ASSUME NEW over \in SUBSET Writers, Ends(over) PROVE WritersHoldFlock'
  BY <1>5 DEF Ends
<1>6. CASE UNCHANGED captureLogVars
  BY <1>6 DEF captureLogVars
<1> QED
  BY <1>1, <1>2, <1>3, <1>5, <1>6, CaptureLogShapes

LEMMA StepFresh ==
    ASSUME CaptureLogInv, [Next]_logVars
    PROVE  EntriesAreFresh'
<1> USE DEF CaptureLogInv
<1>0. /\ captures \in Nat /\ Len(lines) \in Nat
      /\ wpc \in [Writers -> AppendPCs] /\ logging \in [Writers -> Nat]
      /\ \A i \in 1 .. Len(lines) : EntriesOf(lines[i]) \subseteq Nat
  BY LineFacts DEF LogTypes, EntriesOf
<1>1. ASSUME NEW w \in Writers, BeginAppend(w) PROVE EntriesAreFresh'
  <2>1. /\ captures \in Nat \ {0} /\ captures' = captures - 1
        /\ logging' = [logging EXCEPT ![w] = captures]
        /\ wpc' = [wpc EXCEPT ![w] = "lock"] /\ lines' = lines
    BY <1>0, <1>1 DEF BeginAppend, AppendGoes
  <2>2. /\ logging'[w] = captures
        /\ \A v \in Writers \ {w} : wpc'[v] = wpc[v] /\ logging'[v] = logging[v]
    BY <1>0, <2>1
  <2>3. \A v \in Writers \ {w} : wpc[v] # "idle" => logging[v] > captures
    BY DEF EntriesAreFresh
  <2>4. /\ \A v \in Writers : wpc'[v] # "idle" => logging'[v] > captures'
        /\ \A u, v \in Writers :
              wpc'[u] # "idle" /\ wpc'[v] # "idle" /\ logging'[u] = logging'[v] => u = v
    BY <1>0, <2>1, <2>2, <2>3 DEF EntriesAreFresh
  <2>5. \A i \in 1 .. Len(lines) : \A e \in EntriesOf(lines[i]) :
           /\ e > captures'
           /\ \A v \in Writers :
                 wpc'[v] \in {"lock", "open", "flock", "write"} => logging'[v] # e
    <3> SUFFICES ASSUME NEW i \in 1 .. Len(lines), NEW e \in EntriesOf(lines[i]),
                        NEW v \in Writers
                 PROVE  /\ e > captures'
                        /\ wpc'[v] \in {"lock", "open", "flock", "write"} => logging'[v] # e
      OBVIOUS
    <3>1. /\ e \in Nat /\ e > captures
          /\ wpc[v] \in {"lock", "open", "flock", "write"} => logging[v] # e
      BY <1>0 DEF EntriesAreFresh
    <3> QED
      BY <2>1, <2>2, <3>1
  <2> QED
    BY <2>1, <2>4, <2>5 DEF EntriesAreFresh
<1>2. ASSUME NEW w \in Writers, Advances(w) PROVE EntriesAreFresh'
  BY <1>0, <1>2 DEF EntriesAreFresh, Advances, LockMutex, OpenLog, TakeFlock, AppendGoes
<1>3. ASSUME NEW w \in Writers, WriteSome(w) PROVE EntriesAreFresh'
  <2>1. /\ UNCHANGED <<captures, logging>> /\ wpc' = [wpc EXCEPT ![w] = "rest"]
        /\ wpc[w] = "write" /\ wpc'[w] = "rest"
    BY <1>0, <1>3 DEF WriteSome, AppendGoes
  <2>2. ASSUME NEW i \in 1 .. Len(lines'), NEW e \in EntriesOf(lines'[i])
        PROVE  \/ e = logging[w]
               \/ i \in 1 .. Len(lines) /\ e \in EntriesOf(lines[i])
    <3>1. LogTypes /\ EntriesAreFresh
      OBVIOUS
    <3>2. IF i \in 1 .. Len(lines)
          THEN EntriesOf(lines'[i]) \subseteq EntriesOf(lines[i]) \union {logging[w]}
          ELSE EntriesOf(lines'[i]) = {logging[w]}
      <4> HIDE DEF CaptureLogInv
      <4> QED
        BY <1>3, <3>1, WriteEntries
    <3> HIDE DEF CaptureLogInv
    <3> QED
      BY <2>2, <3>2
  <2>3. ASSUME NEW i \in 1 .. Len(lines'), NEW e \in EntriesOf(lines'[i])
        PROVE  /\ e > captures
               /\ \A v \in Writers :
                     wpc'[v] \in {"lock", "open", "flock", "write"} => logging[v] # e
    BY <1>0, <2>1, <2>2 DEF EntriesAreFresh
  <2>4. /\ \A v \in Writers : wpc'[v] # "idle" => logging[v] > captures
        /\ \A u, v \in Writers :
              wpc'[u] # "idle" /\ wpc'[v] # "idle" /\ logging[u] = logging[v] => u = v
    BY <1>0, <2>1 DEF EntriesAreFresh
  <2> QED
    BY <2>1, <2>3, <2>4 DEF EntriesAreFresh
<1>4. ASSUME NEW w \in Writers, WriteRest(w) PROVE EntriesAreFresh'
  <2>1. /\ UNCHANGED <<captures, logging>> /\ wpc' = [wpc EXCEPT ![w] = "sync"]
        /\ wpc[w] = "rest"
    BY <1>4 DEF WriteRest, AppendGoes
  <2>2. /\ Len(lines') = Len(lines)
        /\ \A i \in 1 .. Len(lines) : EntriesOf(lines'[i]) = EntriesOf(lines[i])
    BY <1>4, RestFacts DEF EntriesOf
  <2> QED
    BY <1>0, <2>1, <2>2 DEF EntriesAreFresh
<1>5. ASSUME NEW over \in SUBSET Writers, Ends(over) PROVE EntriesAreFresh'
  BY <1>0, <1>5 DEF EntriesAreFresh, Ends
<1>6. CASE UNCHANGED captureLogVars
  BY <1>6 DEF EntriesAreFresh, captureLogVars
<1> QED
  BY <1>1, <1>2, <1>3, <1>4, <1>5, <1>6, CaptureLogShapes

LEMMA LinesKept ==
    ASSUME NEW w \in Writers, BeginAppend(w) \/ Advances(w)
    PROVE  UNCHANGED <<lines, acked, cut>>
BY DEF BeginAppend, Advances

LEMMA StepApart ==
    ASSUME CaptureLogInv, [Next]_logVars
    PROVE  LinesAreApart'
<1> USE DEF CaptureLogInv
<1>1. ASSUME NEW w \in Writers, WriteSome(w) PROVE LinesAreApart'
  <2> SUFFICES ASSUME NEW i \in 1 .. Len(lines'), NEW k \in 1 .. Len(lines'),
                      NEW e \in EntriesOf(lines'[i]), e \in EntriesOf(lines'[k])
               PROVE  i = k
    BY DEF LinesAreApart
  <2>0. /\ \A j \in 1 .. Len(lines') :
              IF j \in 1 .. Len(lines)
              THEN EntriesOf(lines'[j]) \subseteq EntriesOf(lines[j]) \union {logging[w]}
              ELSE EntriesOf(lines'[j]) = {logging[w]}
        /\ \A j \in 1 .. Len(lines') : logging[w] \in EntriesOf(lines'[j]) => j = Len(lines')
    BY <1>1, WriteEntries
  <2>1. CASE e = logging[w]
    BY <2>0, <2>1
  <2>2. CASE e # logging[w]
    <3>1. /\ i \in 1 .. Len(lines) /\ e \in EntriesOf(lines[i])
          /\ k \in 1 .. Len(lines) /\ e \in EntriesOf(lines[k])
      BY <2>0, <2>2
    <3> QED
      BY <3>1 DEF LinesAreApart
  <2> QED
    BY <2>1, <2>2
<1>2. ASSUME NEW w \in Writers, WriteRest(w) PROVE LinesAreApart'
  <2>1. /\ Len(lines') = Len(lines)
        /\ \A i \in 1 .. Len(lines) : EntriesOf(lines'[i]) = EntriesOf(lines[i])
    BY <1>2, RestFacts DEF EntriesOf
  <2> QED
    BY <2>1 DEF LinesAreApart
<1>3. CASE UNCHANGED lines
  BY <1>3 DEF LinesAreApart
<1> QED
  BY <1>1, <1>2, <1>3, CaptureLogShapes, LinesKept DEF Ends, captureLogVars

LEMMA StepGlued ==
    ASSUME CaptureLogInv, [Next]_logVars
    PROVE  GluedAreCut'
<1> USE DEF CaptureLogInv
<1>0. /\ Len(lines) \in Nat /\ wpc \in [Writers -> AppendPCs] /\ logging \in [Writers -> Nat]
      /\ \A i \in 1 .. Len(lines) : Len(lines[i].entries) \in Nat
  BY LineFacts DEF LogTypes
<1>1. ASSUME NEW w \in Writers, BeginAppend(w) PROVE GluedAreCut'
  BY <1>0, <1>1, LinesKept DEF GluedAreCut, BeginAppend, AppendGoes
<1>2. ASSUME NEW w \in Writers, Advances(w) PROVE GluedAreCut'
  BY <1>0, <1>2, LinesKept DEF GluedAreCut, Advances, LockMutex, OpenLog, TakeFlock, AppendGoes
<1>3. ASSUME NEW w \in Writers, WriteSome(w) PROVE GluedAreCut'
  <2> DEFINE m == Len(lines')
  <2>1. /\ UNCHANGED <<logging, cut>> /\ wpc' = [wpc EXCEPT ![w] = "rest"] /\ wpc'[w] = "rest"
        /\ \A v \in Writers \ {w} : wpc'[v] = wpc[v] /\ wpc[v] # "rest"
        /\ wpc[w] = "write"
    BY <1>0, <1>3 DEF WriteSome, AppendGoes, WritersHoldFlock
  <2>2. ~lines'[m].ended /\ LastOf(lines'[m]) = logging[w] /\ m \in Nat \ {0}
    BY <1>0, <1>3, WriteFacts, WriteEntries
  <2>3. ASSUME NEW i \in 1 .. m, i # m
        PROVE  i \in 1 .. Len(lines) /\ lines'[i] = lines[i] /\ lines[i].ended
    BY <1>0, <1>3, <2>2, <2>3, WriteFacts DEF GluedAreCut
  <2>4. Len(lines'[m].entries) > 0 /\ \A j \in 1 .. Len(lines'[m].entries) - 1 :
           lines'[m].entries[j] \in cut
    <3>1. CASE m = Len(lines)
      <4> DEFINE es == lines[m].entries
                 n == logging[w]
      <4>1. /\ lines'[m].entries = Append(es, n) /\ es \in Seq(Nat \ {0}) /\ n \in Nat \ {0}
            /\ ~lines[m].ended
        BY <1>0, <1>3, <2>2, <3>1, WriteFacts, LineFacts
      <4>2. /\ Len(es) > 0 /\ \A j \in 1 .. Len(es) - 1 : es[j] \in cut
            /\ es[Len(es)] \in cut
        BY <2>1, <2>2, <3>1, <4>1 DEF GluedAreCut, LastOf
      <4> HIDE DEF es, n
      <4>3. /\ Len(Append(es, n)) = Len(es) + 1 /\ Len(es) \in Nat
            /\ \A j \in 1 .. Len(es) : Append(es, n)[j] = es[j]
        BY <4>1
      <4> QED
        BY <4>1, <4>2, <4>3
    <3>2. CASE m # Len(lines)
      <4>1. lines'[m].entries = <<logging[w]>>
        BY <1>0, <1>3, <3>2, WriteFacts
      <4>2. Len(<<logging[w]>>) = 1
        OBVIOUS
      <4> QED
        BY <4>1, <4>2
    <3> QED
      BY <3>1, <3>2
  <2> QED
    BY <2>1, <2>2, <2>3, <2>4 DEF GluedAreCut
<1>4. ASSUME NEW w \in Writers, WriteRest(w) PROVE GluedAreCut'
  <2>1. /\ UNCHANGED <<logging, cut>> /\ wpc' = [wpc EXCEPT ![w] = "sync"]
        /\ \A v \in Writers : wpc'[v] # "rest"
    BY <1>0, <1>4 DEF WriteRest, AppendGoes, WritersHoldFlock
  <2> QED
    BY <1>0, <1>4, <2>1, RestFacts DEF GluedAreCut, LastOf
<1>5. ASSUME NEW over \in SUBSET Writers, Ends(over) PROVE GluedAreCut'
  <2>1. \A w \in Writers :
           IF w \in over THEN wpc'[w] = "idle" /\ (wpc[w] = "rest" => logging[w] \in cut')
                         ELSE wpc'[w] = wpc[w] /\ logging'[w] = logging[w]
    BY <1>0, <1>5 DEF Ends
  <2>2. cut \subseteq cut' /\ lines' = lines
    BY <1>5 DEF Ends
  <2> QED
    BY <2>1, <2>2 DEF GluedAreCut
<1>6. CASE UNCHANGED captureLogVars
  BY <1>6 DEF GluedAreCut, captureLogVars
<1> QED
  BY <1>1, <1>2, <1>3, <1>4, <1>5, <1>6, CaptureLogShapes

LEMMA StepLogged ==
    ASSUME CaptureLogInv, [Next]_logVars
    PROVE  LoggedEndALine'
<1> USE DEF CaptureLogInv
<1>0. Len(lines) \in Nat /\ wpc \in [Writers -> AppendPCs] /\ logging \in [Writers -> Nat]
  BY LineFacts DEF LogTypes
<1>1. ASSUME NEW n, EndsALine(n) PROVE EndsALine(n)'
  <2>1. PICK i \in 1 .. Len(lines) : lines[i].ended /\ lines[i].whole /\ LastOf(lines[i]) = n
    BY <1>1 DEF EndsALine
  <2>2. ASSUME NEW w \in Writers, WriteSome(w) PROVE i \in 1 .. Len(lines') /\ lines'[i] = lines[i]
    BY <1>0, <2>1, <2>2, WriteFacts
  <2>3. ASSUME NEW w \in Writers, WriteRest(w) PROVE i \in 1 .. Len(lines') /\ lines'[i] = lines[i]
    BY <1>0, <2>1, <2>3, RestFacts DEF GluedAreCut, WriteRest
  <2> QED
    BY <2>1, <2>2, <2>3, CaptureLogShapes, LinesKept DEF EndsALine, Ends, captureLogVars
<1>2. ASSUME NEW w \in Writers, BeginAppend(w) \/ Advances(w) \/ WriteSome(w)
      PROVE  /\ acked' = acked
             /\ \A v \in Writers : wpc'[v] = "sync" => wpc[v] = "sync" /\ logging'[v] = logging[v]
  BY <1>0, <1>2
     DEF BeginAppend, Advances, LockMutex, OpenLog, TakeFlock, WriteSome, AppendGoes
<1>3. ASSUME NEW w \in Writers, WriteRest(w) PROVE LoggedEndALine'
  <2>1. /\ acked' = acked /\ logging' = logging
        /\ \A v \in Writers \ {w} : wpc'[v] = wpc[v]
    BY <1>0, <1>3 DEF WriteRest, AppendGoes
  <2>2. EndsALine(logging[w])'
    <3>1. Len(lines) \in 1 .. Len(lines')
      BY <1>0, <1>3, RestFacts
    <3> QED
      BY <1>3, <2>1, <3>1, RestFacts DEF EndsALine
  <2>3. \A n \in acked : EndsALine(n)'
    BY <1>1 DEF LoggedEndALine
  <2>4. ASSUME NEW v \in Writers \ {w}, wpc[v] = "sync" PROVE EndsALine(logging[v])'
    BY <1>0, <1>3, <2>4 DEF WritersHoldFlock, WriteRest
  <2> QED
    BY <2>1, <2>2, <2>3, <2>4 DEF LoggedEndALine
<1>4. ASSUME NEW over \in SUBSET Writers, Ends(over) PROVE LoggedEndALine'
  <2>1. \A n \in acked' : EndsALine(n)
    BY <1>4 DEF Ends, LoggedEndALine
  <2>2. \A v \in Writers : wpc'[v] = "sync" => wpc[v] = "sync" /\ logging'[v] = logging[v]
    BY <1>4 DEF Ends
  <2>3. \A v \in Writers : wpc'[v] = "sync" => EndsALine(logging'[v])
    BY <2>2 DEF LoggedEndALine
  <2>4. lines' = lines
    BY <1>4 DEF Ends
  <2> QED
    BY <2>1, <2>3, <2>4 DEF LoggedEndALine, EndsALine
<1>5. CASE UNCHANGED captureLogVars
  BY <1>5 DEF LoggedEndALine, EndsALine, captureLogVars
<1>6. ASSUME NEW w \in Writers, BeginAppend(w) \/ Advances(w) \/ WriteSome(w)
      PROVE  LoggedEndALine'
  <2>1. ASSUME NEW n \in acked' PROVE EndsALine(n)'
    BY <1>1, <1>2, <1>6 DEF LoggedEndALine
  <2>2. ASSUME NEW v \in Writers, wpc'[v] = "sync" PROVE EndsALine(logging[v])'
    BY <1>1, <1>2, <1>6, <2>2 DEF LoggedEndALine
  <2>3. ASSUME NEW v \in Writers, wpc'[v] = "sync" PROVE logging'[v] = logging[v]
    BY <1>2, <1>6, <2>3
  <2> QED
    BY <2>1, <2>2, <2>3 DEF LoggedEndALine
<1> QED
  BY <1>3, <1>4, <1>5, <1>6, CaptureLogShapes

\* At most one entry is cut by the processes that end in a step, the one of the flock's
\* holder.
LEMMA StepCutFinite ==
    ASSUME CaptureLogInv, [Next]_logVars
    PROVE  IsFiniteSet(cut')
<1> USE DEF CaptureLogInv
<1>1. ASSUME NEW over \in SUBSET Writers, Ends(over) PROVE IsFiniteSet(cut')
  <2> DEFINE ended == {logging[w] : w \in {v \in over : wpc[v] = "rest"}}
  <2>1. ended \subseteq {logging[flock]}
    BY DEF WritersHoldFlock
  <2>2. IsFiniteSet({logging[flock]})
    BY FS_Singleton
  <2>3. IsFiniteSet(ended)
    <3> HIDE DEF ended
    <3> QED
      BY <2>1, <2>2, FS_Subset
  <2>4. cut' = cut \union ended
    BY <1>1 DEF Ends
  <2> HIDE DEF ended
  <2> QED
    BY <2>3, <2>4, FS_Union
<1>2. ASSUME NEW w \in Writers, WriteSome(w) \/ WriteRest(w) PROVE cut' = cut
  BY <1>2 DEF WriteSome, WriteRest
<1> QED
  BY <1>1, <1>2, CaptureLogShapes, LinesKept DEF captureLogVars

LEMMA InitLog == ReportInit => CaptureLogInv
<1> SUFFICES ASSUME ReportInit PROVE CaptureLogInv
  OBVIOUS
<1>1. PICK n \in Nat : CaptureLogInit(n)
  BY ReportStart
<1>2. lines = <<>> /\ Len(lines) = 0 /\ lines \in Seq(LineType)
  BY <1>1 DEF CaptureLogInit
<1>3. IsFiniteSet(cut)
  BY <1>1, FS_EmptySet DEF CaptureLogInit
<1>4. LogTypes
  BY <1>1, <1>2 DEF LogTypes, CaptureLogInit, AppendPCs
<1>5. acked = {} /\ \A v \in Writers : wpc[v] = "idle"
  BY <1>1 DEF CaptureLogInit
<1> QED
  BY <1>2, <1>3, <1>4, <1>5
     DEF CaptureLogInv, WritersHoldFlock, EntriesAreFresh, LinesAreApart, GluedAreCut,
         LoggedEndALine

LEMMA CaptureLogInductive == ReportSpec => []CaptureLogInv
<1>1. CaptureLogInv /\ [ReportNext]_reportVars => CaptureLogInv'
  BY ReportSteps, StepLogTypes, StepFlock, StepFresh, StepApart, StepGlued, StepLogged,
     StepCutFinite DEF CaptureLogInv
<1> QED
  BY InitLog, <1>1, PTL DEF ReportSpec

-----------------------------------------------------------------------------
(* The theorem. *)

\* An entry that is lost although it was logged is on a line with one that was cut, and
\* the last of that line.
LEMMA CutsAreCounted == CaptureLogInv => CutsCostOneNeighbour
<1> SUFFICES ASSUME CaptureLogInv PROVE CutsCostOneNeighbour
  OBVIOUS
<1> USE DEF CaptureLogInv
<1> DEFINE readable == {Head(l.entries) : l \in {k \in ToSet(lines) : Parses(k)}}
           lost == acked \ readable
           Glued(n, c) == \E i \in 1 .. Len(lines) :
                             LastOf(lines[i]) = n /\ c \in EntriesOf(lines[i])
           f == [n \in lost |-> CHOOSE c \in cut : Glued(n, c)]
<1>1. ASSUME NEW n \in lost PROVE \E c \in cut : Glued(n, c)
  <2>1. PICK i \in 1 .. Len(lines) : lines[i].whole /\ LastOf(lines[i]) = n
    BY DEF LoggedEndALine, EndsALine
  <2>2. /\ Len(lines[i].entries) \in Nat /\ Len(lines[i].entries) > 0
        /\ lines[i].entries \in Seq(Nat \ {0})
    BY LineFacts DEF GluedAreCut
  <2>3. Len(lines[i].entries) # 1
    <3>1. SUFFICES ASSUME Len(lines[i].entries) = 1 PROVE n \in readable
      OBVIOUS
    <3>2. Parses(lines[i]) /\ lines[i] \in ToSet(lines)
      BY <2>1, <3>1, LineFacts DEF Parses, ToSet, LogTypes
    <3>3. Head(lines[i].entries) = n
      BY <2>1, <2>2, <3>1 DEF LastOf
    <3> QED
      BY <3>2, <3>3
  <2> DEFINE j == Len(lines[i].entries) - 1
  <2>4. j \in 1 .. Len(lines[i].entries) - 1 /\ j \in 1 .. Len(lines[i].entries)
    <3> DEFINE size == Len(lines[i].entries)
    <3>1. size \in Nat /\ size > 0 /\ size # 1 /\ j = size - 1
      BY <2>2, <2>3
    <3> HIDE DEF size, j
    <3>2. j \in 1 .. size - 1 /\ j \in 1 .. size
      BY <3>1
    <3> QED
      BY <3>2 DEF size
  <2>5. lines[i].entries[j] \in cut /\ lines[i].entries[j] \in EntriesOf(lines[i])
    BY <2>4 DEF GluedAreCut, EntriesOf
  <2> QED
    BY <2>1, <2>5
<1>2. ASSUME NEW n, NEW m, NEW c, Glued(n, c), Glued(m, c) PROVE n = m
  BY <1>2 DEF LinesAreApart
<1> HIDE DEF Glued, lost
<1>3. \A n \in lost : f[n] \in cut /\ Glued(n, f[n])
  BY <1>1
<1>4. f \in [lost -> cut] /\ \A n, m \in lost : f[n] = f[m] => n = m
  BY <1>2, <1>3
<1> HIDE DEF f
<1>5. f \in Injection(lost, cut)
  BY <1>4 DEF Injection, IsInjective
<1>6. Cardinality(lost) <= Cardinality(cut)
  BY <1>5, FS_Injection
<1> QED
  BY <1>6 DEF lost, CutsCostOneNeighbour

\* However captures of any number of processes interleave, and wherever a full disk or
\* the death of a process cuts a write, what Append reported as logged is read back by
\* Tail but for at most one entry for each write that was cut.
THEOREM CutsAreCheap == ReportSpec => []CutsCostOneNeighbour
BY CaptureLogInductive, CutsAreCounted, PTL

-----------------------------------------------------------------------------
(***************************************************************************)
(* What Tail reads.                                                        *)
(*                                                                         *)
(* The lines are visited from the last one up; by induction on how many    *)
(* were visited, what was found so far is the newest of them (NewestFrom). *)
(***************************************************************************)

\* Induction over the natural numbers, for a set.
LEMMA SetInduction ==
    ASSUME NEW T, 0 \in T, \A n \in Nat : n \in T => n + 1 \in T
    PROVE  \A n \in Nat : n \in T
<1> DEFINE R == OpToRel(<, Nat)
           U == Nat \ T
<1>1. IsWellFoundedOn(R, Nat)
  BY NatLessThanWellFounded
<1>2. SUFFICES ASSUME U # {} PROVE FALSE
  OBVIOUS
<1>3. ASSUME NEW x \in Nat, NEW y \in Nat, x < y PROVE <<x, y>> \in R
  BY <1>3 DEF OpToRel
<1> HIDE DEF R
<1>4. PICK x \in U : \A y \in U : <<y, x>> \notin R
  <2>1. U \subseteq Nat
    OBVIOUS
  <2> HIDE DEF U
  <2> QED
    BY <1>1, <1>2, <2>1, WFMin
<1>5. x \in Nat /\ x \notin T
  OBVIOUS
<1>6. x # 0
  BY <1>5
<1>7. x - 1 \in Nat /\ x - 1 < x /\ (x - 1) + 1 = x
  BY <1>5, <1>6
<1>8. x - 1 \notin U
  BY <1>3, <1>4, <1>5, <1>7
<1>9. x - 1 \in T
  BY <1>7, <1>8
<1> QED
  BY <1>5, <1>7, <1>9

\* One turn of the loop, with what the lines below give.
ScannedFrom(limit, wanted, k, f) ==
    IF k > Len(lines) THEN <<>> ELSE Visited(lines[k], f[k + 1], limit, wanted)

Scans(limit, wanted, f) ==
    f = [k \in 1 .. Len(lines) + 1 |-> ScannedFrom(limit, wanted, k, f)]

LEMMA HistoryIs ==
    ASSUME NEW limit, NEW wanted
    PROVE  LET f == CHOOSE f : Scans(limit, wanted, f) IN History(limit, wanted) = f[1]
BY DEF History, Scans, ScannedFrom

LEMMA ScanEnds ==
    ASSUME Len(lines) \in Nat, NEW limit, NEW wanted
    PROVE  \E f : Scans(limit, wanted, f)
<1> DEFINE size == Len(lines)
           places == 1 .. size + 1
           scan(k, f) == ScannedFrom(limit, wanted, k, f)
           fits(f, n) == /\ f = [k \in places |-> f[k]]
                         /\ \A k \in places : size + 1 - k <= n => f[k] = scan(k, f)
           T == {n \in Nat : \E f : fits(f, n)}
<1>1. size \in Nat
  OBVIOUS
<1> HIDE DEF size
<1>2. 0 \in T
  <2> DEFINE f == [k \in places |-> <<>>]
  <2>1. f = [k \in places |-> f[k]]
    OBVIOUS
  <2>2. ASSUME NEW k \in places, size + 1 - k <= 0 PROVE f[k] = scan(k, f)
    <3>1. k > size
      BY <1>1, <2>2
    <3> QED
      BY <3>1 DEF ScannedFrom, size
  <2> HIDE DEF f
  <2>3. fits(f, 0)
    BY <2>1, <2>2
  <2> HIDE DEF fits
  <2> QED
    BY <2>3
<1>3. ASSUME NEW n \in Nat, n \in T PROVE n + 1 \in T
  <2>1. PICK f : fits(f, n)
    BY <1>3
  <2> DEFINE h == [k \in places |-> IF size + 1 - k <= n THEN f[k] ELSE scan(k, f)]
  <2>2. h = [k \in places |-> h[k]]
    OBVIOUS
  <2>3. ASSUME NEW k \in places
        PROVE  h[k] = IF size + 1 - k <= n THEN f[k] ELSE scan(k, f)
    OBVIOUS
  <2> HIDE DEF h, scan
  <2>4. ASSUME NEW k \in places, size + 1 - k <= n + 1 PROVE h[k] = scan(k, h)
    <3>1. h[k] = scan(k, f)
      <4>1. size + 1 - k <= n => f[k] = scan(k, f)
        BY <2>1
      <4> QED
        BY <2>3, <4>1
    <3>2. CASE k > size
      BY <3>1, <3>2 DEF scan, ScannedFrom, size
    <3>3. CASE ~(k > size)
      <4>1. k + 1 \in places /\ size + 1 - (k + 1) <= n
        BY <1>1, <2>4, <3>3
      <4>2. h[k + 1] = f[k + 1]
        BY <2>3, <4>1
      <4>3. scan(k, h) = scan(k, f)
        BY <4>2 DEF scan, ScannedFrom
      <4> QED
        BY <3>1, <4>3
    <3> QED
      BY <3>2, <3>3
  <2>5. fits(h, n + 1)
    BY <2>2, <2>4
  <2> HIDE DEF fits
  <2> QED
    BY <2>5
<1>4. PICK f : fits(f, size)
  <2> HIDE DEF fits
  <2>1. size \in T
    <3> HIDE DEF T
    <3> QED
      BY <1>1, <1>2, <1>3, SetInduction
  <2> QED
    BY <2>1
<1>5. \A k \in places : f[k] = scan(k, f)
  <2>1. \A k \in places : size + 1 - k <= size
    BY <1>1
  <2> QED
    BY <1>4, <2>1
<1>6. f = [k \in places |-> f[k]]
  BY <1>4
<1>7. f = [k \in places |-> scan(k, f)]
  <2> HIDE DEF places, scan
  <2> QED
    BY <1>5, <1>6
<1>8. Scans(limit, wanted, f)
  BY <1>7 DEF Scans, size
<1> QED
  BY <1>8

LEMMA ScanIs ==
    ASSUME Len(lines) \in Nat, NEW limit, NEW wanted
    PROVE  \E f : /\ History(limit, wanted) = f[1]
                  /\ \A k \in 1 .. Len(lines) + 1 : f[k] = ScannedFrom(limit, wanted, k, f)
<1> DEFINE f == CHOOSE f : Scans(limit, wanted, f)
<1>1. History(limit, wanted) = f[1]
  BY HistoryIs
<1>2. Scans(limit, wanted, f)
  BY ScanEnds
<1> HIDE DEF f
<1>3. \A k \in 1 .. Len(lines) + 1 : f[k] = ScannedFrom(limit, wanted, k, f)
  BY <1>2 DEF Scans
<1> QED
  BY <1>1, <1>3

\* The line an entry is on, as HistoryIsNewest has it.
PlaceOf(n) == CHOOSE i \in DOMAIN lines : Parses(lines[i]) /\ lines[i].entries = <<n>>

LEMMA PlaceFacts ==
    ASSUME LogTypes, LinesAreApart, NEW i \in 1 .. Len(lines), Parses(lines[i])
    PROVE  LET n == Head(lines[i].entries)
           IN  n \in Nat /\ lines[i].entries = <<n>> /\ PlaceOf(n) = i
<1> DEFINE n == Head(lines[i].entries)
<1>1. DOMAIN lines = 1 .. Len(lines)
  BY DEF LogTypes
<1>2. lines[i].entries \in Seq(Nat \ {0}) /\ Len(lines[i].entries) = 1
  BY LineFacts DEF Parses
<1>3. lines[i].entries = <<n>> /\ n \in Nat
  BY <1>2
<1> HIDE DEF n
<1>4. ASSUME NEW j \in 1 .. Len(lines), lines[j].entries = <<n>> PROVE j = i
  <2>1. n \in EntriesOf(lines[i]) /\ n \in EntriesOf(lines[j])
    BY <1>3, <1>4 DEF EntriesOf
  <2> QED
    BY <2>1 DEF LinesAreApart
<1> QED
  BY <1>1, <1>3, <1>4 DEF PlaceOf, n

\* A place whose entry passes the filters.
Matches(i, wanted) == Parses(lines[i]) /\ Head(lines[i].entries) \in wanted

\* What was found from a line on: entries of lines that match, from the last line up, all
\* of them unless there are enough, and no newer one is left out.
NewestFrom(k, found, limit, wanted) ==
    /\ found \in Seq(Nat) /\ Len(found) <= Clamp(limit)
    /\ \A x \in 1 .. Len(found) :
          found[x] \in wanted /\ PlaceOf(found[x]) \in k .. Len(lines)
    /\ \A x, y \in 1 .. Len(found) : x < y => PlaceOf(found[x]) > PlaceOf(found[y])
    /\ \A i \in k .. Len(lines) :
          Matches(i, wanted) =>
             \/ \E x \in 1 .. Len(found) : found[x] = Head(lines[i].entries)
             \/ /\ Len(found) = Clamp(limit)
                /\ \A x \in 1 .. Len(found) : PlaceOf(found[x]) > i

LEMMA ClampFacts ==
    ASSUME NEW limit \in Int
    PROVE  /\ Clamp(limit) \in Nat /\ Clamp(limit) <= MaxLimit
           /\ Clamp(limit) <= IF limit < 1 THEN DefaultLimit ELSE limit
           /\ Clamp(limit) = MaxLimit \/ Clamp(limit) = IF limit < 1 THEN DefaultLimit ELSE limit
<1>1. MaxLimit \in Nat /\ DefaultLimit \in Nat /\ DefaultLimit <= MaxLimit
  BY CaptureLogAssumption
<1>2. CASE limit <= 0
  BY <1>1, <1>2 DEF Clamp
<1>3. CASE ~(limit <= 0)
  <2>1. Clamp(limit) = CHOOSE x \in {limit, MaxLimit} : \A y \in {limit, MaxLimit} : x <= y
    BY <1>3 DEF Clamp, Min
  <2>2. \E x \in {limit, MaxLimit} : \A y \in {limit, MaxLimit} : x <= y
    BY <1>1
  <2>3. /\ Clamp(limit) \in {limit, MaxLimit}
        /\ \A y \in {limit, MaxLimit} : Clamp(limit) <= y
    BY <2>1, <2>2
  <2> QED
    BY <1>1, <1>3, <2>3
<1> QED
  BY <1>2, <1>3

\* One more line.
LEMMA LineIsVisited ==
    ASSUME LogTypes, LinesAreApart, NEW limit \in Int, NEW wanted,
           NEW k \in 1 .. Len(lines), NEW found, NewestFrom(k + 1, found, limit, wanted)
    PROVE  NewestFrom(k, Visited(lines[k], found, limit, wanted), limit, wanted)
<1> DEFINE size == Len(lines)
           n == Head(lines[k].entries)
           m == Len(found)
           enough == Clamp(limit)
<1>1. size \in Nat /\ k \in Int /\ enough \in Nat
  BY LineFacts, ClampFacts
<1>2. \A i \in k .. size : i = k \/ i \in k + 1 .. size
  BY <1>1
<1>3. \A i \in k + 1 .. size : i \in k .. size /\ i > k
  BY <1>1
<1>4. /\ found \in Seq(Nat) /\ m \in Nat /\ m <= enough
      /\ \A x \in 1 .. m : found[x] \in wanted /\ PlaceOf(found[x]) \in k + 1 .. size
      /\ \A x, y \in 1 .. m : x < y => PlaceOf(found[x]) > PlaceOf(found[y])
      /\ \A i \in k + 1 .. size :
            Matches(i, wanted) =>
               \/ \E x \in 1 .. m : found[x] = Head(lines[i].entries)
               \/ m = enough /\ \A x \in 1 .. m : PlaceOf(found[x]) > i
  BY DEF NewestFrom
<1>5. CASE m < enough /\ Matches(k, wanted)
  <2> DEFINE out == Append(found, n)
  <2>1. Visited(lines[k], found, limit, wanted) = out
    BY <1>5 DEF Visited, Matches
  <2>2. n \in Nat /\ n \in wanted /\ PlaceOf(n) = k
    BY <1>5, PlaceFacts DEF Matches
  <2> HIDE DEF n
  <2>3. /\ out \in Seq(Nat) /\ Len(out) = m + 1 /\ out[m + 1] = n
        /\ \A x \in 1 .. m : out[x] = found[x]
    BY <1>4, <2>2
  <2> HIDE DEF out, m, enough
  <2>4. \A x \in 1 .. m + 1 : x = m + 1 \/ x \in 1 .. m
    BY <1>4
  <2>5. ASSUME NEW x \in 1 .. m + 1 PROVE out[x] \in wanted /\ PlaceOf(out[x]) \in k .. size
    <3>1. CASE x \in 1 .. m
      BY <1>3, <1>4, <2>3, <3>1
    <3>2. CASE x = m + 1
      <4>1. k \in k .. size
        BY <1>1
      <4> QED
        BY <2>2, <2>3, <3>2, <4>1
    <3> QED
      BY <2>4, <3>1, <3>2
  <2>6. ASSUME NEW x \in 1 .. m + 1, NEW y \in 1 .. m + 1, x < y
        PROVE  PlaceOf(out[x]) > PlaceOf(out[y])
    <3>1. x \in 1 .. m
      BY <1>4, <2>6
    <3>2. CASE y = m + 1
      BY <1>3, <1>4, <2>2, <2>3, <3>1, <3>2
    <3>3. CASE y \in 1 .. m
      BY <1>4, <2>3, <2>6, <3>1, <3>3
    <3> QED
      BY <2>4, <3>2, <3>3
  <2>7. ASSUME NEW i \in k .. size, Matches(i, wanted)
        PROVE  \E x \in 1 .. m + 1 : out[x] = Head(lines[i].entries)
    <3>1. CASE i = k
      <4>1. m + 1 \in 1 .. m + 1 /\ out[m + 1] = Head(lines[i].entries)
        BY <1>4, <2>3, <3>1 DEF n
      <4> QED
        BY <4>1
    <3>2. CASE i \in k + 1 .. size
      <4>1. m # enough
        BY <1>1, <1>4, <1>5
      <4>2. PICK x \in 1 .. m : found[x] = Head(lines[i].entries)
        BY <1>4, <2>7, <3>2, <4>1
      <4>3. x \in 1 .. m + 1 /\ out[x] = Head(lines[i].entries)
        BY <1>4, <2>3, <4>2
      <4> QED
        BY <4>3
    <3> QED
      BY <1>2, <3>1, <3>2
  <2>8. m + 1 <= enough
    BY <1>1, <1>4, <1>5
  <2>9. NewestFrom(k, out, limit, wanted)
    BY <2>3, <2>5, <2>6, <2>7, <2>8 DEF NewestFrom, enough
  <2> QED
    BY <2>1, <2>9
<1>6. CASE ~(m < enough /\ Matches(k, wanted))
  <2>1. Visited(lines[k], found, limit, wanted) = found
    BY <1>6 DEF Visited, Matches
  <2> HIDE DEF m, enough
  <2>2. ASSUME NEW i \in k .. size, Matches(i, wanted)
        PROVE  \/ \E x \in 1 .. m : found[x] = Head(lines[i].entries)
               \/ m = enough /\ \A x \in 1 .. m : PlaceOf(found[x]) > i
    <3>1. CASE i = k
      BY <1>1, <1>3, <1>4, <1>6, <2>2, <3>1
    <3>2. CASE i \in k + 1 .. size
      BY <1>4, <2>2, <3>2
    <3> QED
      BY <1>2, <3>1, <3>2
  <2>3. \A x \in 1 .. m : found[x] \in wanted /\ PlaceOf(found[x]) \in k .. size
    BY <1>3, <1>4
  <2>4. NewestFrom(k, found, limit, wanted)
    BY <1>4, <2>2, <2>3 DEF NewestFrom, m, enough
  <2> QED
    BY <2>1, <2>4
<1> QED
  BY <1>5, <1>6

LEMMA HistoryNewest ==
    ASSUME LogTypes, LinesAreApart, NEW limit \in Int, NEW wanted
    PROVE  NewestFrom(1, History(limit, wanted), limit, wanted)
<1> DEFINE size == Len(lines)
           good(k, f) == NewestFrom(k, f[k], limit, wanted)
<1>1. size \in Nat
  BY LineFacts
<1>2. PICK f : /\ History(limit, wanted) = f[1]
               /\ \A k \in 1 .. size + 1 : f[k] = ScannedFrom(limit, wanted, k, f)
  BY <1>1, ScanIs
<1> DEFINE T == {n \in Nat : \A k \in 1 .. size + 1 : size + 1 - k = n => good(k, f)}
<1>3. 0 \in T
  <2>1. f[size + 1] = <<>>
    <3>1. size + 1 \in 1 .. size + 1 /\ size + 1 > size
      BY <1>1
    <3> QED
      BY <1>2, <3>1 DEF ScannedFrom
  <2>2. good(size + 1, f)
    <3>1. size + 1 .. size = {}
      BY <1>1
    <3>2. Len(<<>>) = 0 /\ <<>> \in Seq(Nat) /\ 1 .. 0 = {}
      OBVIOUS
    <3>3. 0 <= Clamp(limit)
      BY ClampFacts
    <3> QED
      BY <2>1, <3>1, <3>2, <3>3 DEF NewestFrom
  <2> HIDE DEF good, size
  <2>3. \A k \in 1 .. size + 1 : size + 1 - k = 0 => k = size + 1
    BY <1>1
  <2> QED
    BY <2>2, <2>3
<1>4. ASSUME NEW n \in Nat, n \in T PROVE n + 1 \in T
  <2>1. ASSUME NEW k \in 1 .. size + 1, size + 1 - k = n + 1 PROVE good(k, f)
    <3>1. k + 1 \in 1 .. size + 1 /\ size + 1 - (k + 1) = n /\ k \in 1 .. size /\ ~(k > size)
      BY <1>1, <2>1
    <3>2. good(k + 1, f)
      BY <1>4, <3>1
    <3>3. f[k] = Visited(lines[k], f[k + 1], limit, wanted)
      BY <1>2, <3>1 DEF ScannedFrom
    <3> QED
      BY <3>1, <3>2, <3>3, LineIsVisited
  <2> HIDE DEF good
  <2> QED
    BY <2>1
<1>5. size \in T
  <2> HIDE DEF T
  <2> QED
    BY <1>1, <1>3, <1>4, SetInduction
<1>6. good(1, f)
  <2> HIDE DEF good
  <2>1. 1 \in 1 .. size + 1 /\ size + 1 - 1 = size
    BY <1>1
  <2> QED
    BY <1>5, <2>1
<1> QED
  BY <1>2, <1>6

LEMMA HistoryFits == CaptureLogInv => HistoryIsNewest
<1> SUFFICES ASSUME CaptureLogInv PROVE HistoryIsNewest
  OBVIOUS
<1> DEFINE size == Len(lines)
           readable == {Head(l.entries) : l \in {k \in ToSet(lines) : Parses(k)}}
           places == {i \in 1 .. size : Parses(lines[i])}
           entry == [i \in places |-> Head(lines[i].entries)]
<1>1. LogTypes /\ LinesAreApart
  BY DEF CaptureLogInv
<1>2. size \in Nat /\ DOMAIN lines = 1 .. size
  BY <1>1, LineFacts DEF LogTypes
<1>3. \A n \in readable : \E i \in places : entry[i] = n
  BY <1>2 DEF ToSet
<1>4. ASSUME NEW n \in readable
      PROVE  PlaceOf(n) \in places /\ Head(lines[PlaceOf(n)].entries) = n
  <2>1. PICK i \in places : Head(lines[i].entries) = n
    BY <1>3
  <2>2. PlaceOf(Head(lines[i].entries)) = i
    BY <1>1, PlaceFacts
  <2> QED
    BY <2>1, <2>2
<1>5. IsFiniteSet(readable)
  <2>1. \A i \in places : entry[i] \in readable
    BY <1>2 DEF ToSet
  <2>2. IsFiniteSet(1 .. size)
    BY <1>2, FS_Interval
  <2>3. IsFiniteSet(places)
    <3>1. places \subseteq 1 .. size
      OBVIOUS
    <3> HIDE DEF places
    <3> QED
      BY <2>2, <3>1, FS_Subset
  <2>4. entry \in [places -> readable]
    BY <2>1
  <2> HIDE DEF entry, places, readable
  <2>5. entry \in Surjection(places, readable)
    BY <1>3, <2>4 DEF Surjection
  <2> QED
    BY <2>3, <2>5, FS_Surjection
<1> HIDE DEF entry, readable
<1>6. ASSUME NEW limit \in -1 .. MaxLimit + 1, NEW wanted \in SUBSET readable
      PROVE  LET history == History(limit, wanted)
             IN  /\ ToSet(history) \subseteq wanted
                 /\ Len(history) = Min({Cardinality(wanted), MaxLimit,
                                        IF limit < 1 THEN DefaultLimit ELSE limit})
                 /\ \A i, j \in DOMAIN history :
                       i < j => PlaceOf(history[i]) > PlaceOf(history[j])
                 /\ \A n \in wanted \ ToSet(history), i \in DOMAIN history :
                       PlaceOf(history[i]) > PlaceOf(n)
  <2> DEFINE history == History(limit, wanted)
             m == Len(history)
             asked == IF limit < 1 THEN DefaultLimit ELSE limit
             enough == Clamp(limit)
             many == Cardinality(wanted)
  <2>1. limit \in Int /\ MaxLimit \in Nat /\ DefaultLimit \in Nat
    BY CaptureLogAssumption
  <2>2. NewestFrom(1, history, limit, wanted)
    BY <1>1, <2>1, HistoryNewest
  <2> HIDE DEF history
  <2>3. m \in Nat /\ DOMAIN history = 1 .. m
    BY <2>2 DEF NewestFrom
  <2>4. ToSet(history) \subseteq wanted
    BY <2>2, <2>3 DEF NewestFrom, ToSet
  <2>5. \A i, j \in DOMAIN history : i < j => PlaceOf(history[i]) > PlaceOf(history[j])
    BY <2>2, <2>3 DEF NewestFrom
  <2>6. ASSUME NEW n \in wanted \ ToSet(history)
        PROVE  m = enough /\ \A x \in 1 .. m : PlaceOf(history[x]) > PlaceOf(n)
    <3>1. PlaceOf(n) \in 1 .. size /\ Matches(PlaceOf(n), wanted)
      BY <1>4 DEF Matches
    <3>2. \A x \in 1 .. m : history[x] # Head(lines[PlaceOf(n)].entries)
      BY <1>4, <2>3 DEF ToSet
    <3> QED
      BY <2>2, <3>1, <3>2 DEF NewestFrom
  <2>7. IsFiniteSet(wanted) /\ many \in Nat
    BY <1>5, FS_Subset, FS_CardinalityType
  <2>8. /\ m <= enough /\ enough \in Nat /\ enough <= MaxLimit /\ enough <= asked
        /\ enough = MaxLimit \/ enough = asked
    BY <2>1, <2>2, ClampFacts DEF NewestFrom
  <2>9. Cardinality(ToSet(history)) = m /\ IsFiniteSet(ToSet(history))
    <3>1. \A x, y \in 1 .. m : history[x] = history[y] => x = y
      <4>1. \A x \in 1 .. m : PlaceOf(history[x]) \in Int
        BY <2>2 DEF NewestFrom
      <4>2. ASSUME NEW x \in 1 .. m, NEW y \in 1 .. m, history[x] = history[y] PROVE x = y
        <5>1. ~(x < y) /\ ~(y < x)
          BY <2>3, <2>5, <4>1, <4>2
        <5> QED
          BY <2>3, <5>1
      <4> QED
        BY <4>2
    <3>2. /\ history \in [1 .. m -> ToSet(history)]
          /\ \A n \in ToSet(history) : \E x \in 1 .. m : history[x] = n
      <4>1. history = [x \in 1 .. m |-> history[x]]
        BY <2>2, <2>3 DEF NewestFrom
      <4> QED
        BY <2>3, <4>1 DEF ToSet
    <3>3. history \in Bijection(1 .. m, ToSet(history))
      BY <3>1, <3>2 DEF Bijection, Injection, Surjection, IsInjective
    <3>4. ExistsBijection(1 .. m, ToSet(history))
      BY <3>3 DEF ExistsBijection
    <3>5. IsFiniteSet(1 .. m) /\ Cardinality(1 .. m) = m
      <4> HIDE DEF m
      <4> QED
        BY <2>3, FS_Interval
    <3> QED
      BY <3>4, <3>5, FS_Bijection
  <2>10. m <= many
    BY <2>4, <2>7, <2>9, FS_Subset
  <2>11. m = many \/ m = enough
    <3>1. CASE ToSet(history) = wanted
      BY <2>9, <3>1
    <3>2. CASE ToSet(history) # wanted
      BY <2>4, <2>6, <3>2
    <3> QED
      BY <3>1, <3>2
  <2>12. m = Min({many, MaxLimit, asked})
    <3> DEFINE S == {many, MaxLimit, asked}
    <3>1. m \in Nat /\ many \in Nat /\ MaxLimit \in Nat /\ asked \in Nat
      BY <2>1, <2>3, <2>7
    <3> HIDE DEF m, many, asked, enough
    <3>2. m \in S /\ \A y \in S : m <= y
      BY <2>8, <2>10, <2>11, <3>1
    <3>3. S \subseteq Nat
      BY <3>1
    <3>4. \A x \in S : (\A y \in S : x <= y) => x = m
      BY <3>2, <3>3
    <3> HIDE DEF S
    <3>5. m = CHOOSE x \in S : \A y \in S : x <= y
      BY <3>2, <3>4
    <3> QED
      BY <3>5 DEF Min, S
  <2> QED
    BY <2>3, <2>4, <2>5, <2>6, <2>12 DEF history
<1> QED
  BY <1>6 DEF HistoryIsNewest, PlaceOf, readable

\* Whatever captures are being appended, glued or cut at that moment, Tail answers the
\* newest readable entries that pass the filters, in order, as many as were asked for.
THEOREM HistoryStaysNewest == ReportSpec => []HistoryIsNewest
BY CaptureLogInductive, HistoryFits, PTL

-----------------------------------------------------------------------------
(***************************************************************************)
(* The tools.                                                              *)
(*                                                                         *)
(* A call reads Vault's client three times and EncKeyLoaded once, with     *)
(* boots in between.  That its OK can be trusted rests on the order of the *)
(* injections: the client is there before the keys are said to be loaded,  *)
(* and is never taken away (KeysFollowVault), so that a call which found   *)
(* the keys loaded looks at Vault's health at the end.                     *)
(*                                                                         *)
(* That a client found to be away behind an active gate is replaced rests  *)
(* on the order of a boot: between a claim and the next client nothing     *)
(* opens the gate (ReplacedBeforeActive).                                  *)
(***************************************************************************)

\* A call asks a client for its health, one that was injected.
ChecksAClient ==
    \A c \in Reports :
        /\ checked[c] <= vault
        /\ dpc[c] \in {"health", "status"} => checked[c] # 0

\* Keys are said to be loaded when Vault's client is there.
KeysFollowVault ==
    /\ keyed \/ boot = "bundle" => vault # 0
    /\ \A c \in Reports : result[c].keyed => vault # 0

\* OK is the last a call says.
OkIsLast ==
    \A c \in Reports :
        result[c].ok => dpc[c] = "done" /\ result[c].healthy /\ result[c].keyed

\* Only a running boot injects, and one that is past Vault's client has replaced those
\* found to be away before it.
ReplacedBeforeActive ==
    /\ boot # "none" => gate = "booting"
    /\ \A n \in sick : n <= vault
    /\ gate = "active" \/ boot \notin {"none", "vault"} => vault \notin sick

ReportInv ==
    /\ DiagnosticsTypeOK
    /\ ChecksAClient
    /\ KeysFollowVault
    /\ OkIsLast
    /\ ReplacedBeforeActive

LEMMA ReportInvInit ==
    ASSUME NEW asked \in BOOLEAN, DiagnosticsInit(asked)
    PROVE  ReportInv
<1> USE ReportAssumption
<1>1. DiagnosticsTypeOK
  <2>1. boot \in {Steps[i] : i \in DOMAIN Steps} \union {"none"}
    BY DEF DiagnosticsInit, Steps
  <2>2. result \in [Reports -> [Findings -> BOOLEAN]]
    BY DEF DiagnosticsInit
  <2>3. dpc \in [Reports -> CallPCs]
    BY DEF DiagnosticsInit, CallPCs
  <2>4. {vault, embedder, envector} \subseteq 0 .. MaxClient /\ sick \subseteq 1 .. MaxClient
    BY DEF DiagnosticsInit
  <2> QED
    BY <2>1, <2>2, <2>3, <2>4 DEF DiagnosticsInit, DiagnosticsTypeOK
<1> QED
  BY <1>1 DEF DiagnosticsInit, ReportInv, ChecksAClient, KeysFollowVault, OkIsLast,
     ReplacedBeforeActive, Findings, Steps

\* The boot's steps leave the calls alone, the calls' steps leave the clients alone.
LEMMA BootKeepsReportInv ==
    ASSUME ReportInv,
           BootInjects \/ BootFails \/ ReloadPipelines \/ OtherAsksInfo \/ OtherHasInfo
    PROVE  ReportInv'
<1> USE ReportAssumption DEF ReportInv, clients
<1>1. CASE BootInjects
  <2>1. DiagnosticsTypeOK'
    BY <1>1 DEF BootInjects, DiagnosticsTypeOK, Steps
  <2>2. vault' \in {vault, vault + 1} /\ vault \in Nat /\ UNCHANGED <<dpc, checked, result, sick>>
    BY <1>1 DEF BootInjects, DiagnosticsTypeOK
  <2>3. ChecksAClient' /\ OkIsLast'
    BY <2>2 DEF ChecksAClient, OkIsLast, DiagnosticsTypeOK
  <2>4. KeysFollowVault'
    BY <1>1, <2>2 DEF BootInjects, KeysFollowVault
  <2>5. ReplacedBeforeActive'
    BY <1>1, <2>2 DEF BootInjects, ReplacedBeforeActive, DiagnosticsTypeOK
  <2> QED
    BY <2>1, <2>3, <2>4, <2>5
<1>2. CASE BootFails
  BY <1>2 DEF BootFails, DiagnosticsTypeOK, Steps, ChecksAClient, KeysFollowVault, OkIsLast,
     ReplacedBeforeActive
<1>3. CASE ReloadPipelines
  BY <1>3 DEF ReloadPipelines, Retrigger, DiagnosticsTypeOK, Steps, ChecksAClient,
     KeysFollowVault, OkIsLast, ReplacedBeforeActive
<1>4. CASE OtherAsksInfo \/ OtherHasInfo
  <2>1. /\ infoHeld' \in BOOLEAN
        /\ UNCHANGED <<gate, boot, vault, keyed, embedder, envector, dpc, checked, probe, result,
                       sick>>
    BY <1>4, Zenon DEF OtherAsksInfo, OtherHasInfo
  <2>2. DiagnosticsTypeOK'
    BY <2>1 DEF DiagnosticsTypeOK
  <2> QED
    BY <2>1, <2>2 DEF ChecksAClient, KeysFollowVault, OkIsLast, ReplacedBeforeActive
<1> QED
  BY <1>1, <1>2, <1>3, <1>4

LEMMA CallsKeepReportInv ==
    ASSUME ReportInv, NEW c \in Reports,
           BeginVaultStatus(c) \/ BeginDiagnostics(c) \/ ReportStep(c) \/ ProbeReturns(c)
    PROVE  ReportInv'
<1> USE ReportAssumption
    DEF ReportInv, clients, DiagnosticsTypeOK, DiagnosticsGoes, Found, CallPCs, Findings
<1>1. CASE BeginVaultStatus(c)
  BY <1>1 DEF BeginVaultStatus, ChecksAClient, KeysFollowVault, OkIsLast, ReplacedBeforeActive
<1>2. CASE BeginDiagnostics(c)
  BY <1>2 DEF BeginDiagnostics, ChecksAClient, KeysFollowVault, OkIsLast, ReplacedBeforeActive
<1>3. CASE PickVault(c)
  BY <1>3 DEF PickVault, ChecksAClient, KeysFollowVault, OkIsLast, ReplacedBeforeActive
<1>4. CASE HealthChecked(c)
  <2>1. PICK serving \in BOOLEAN : Found(c, "healthy", serving)
    BY <1>4 DEF HealthChecked
  <2>2. DiagnosticsTypeOK'
    BY <1>4, <2>1 DEF HealthChecked, AfterHealth
  <2>3. /\ dpc[c] # "done" /\ UNCHANGED <<gate, boot, vault, keyed, checked, sick>>
        /\ \A d \in Reports : /\ d # c => dpc'[d] = dpc[d] /\ result'[d] = result[d]
                              /\ result'[d].ok = result[d].ok
                              /\ result'[d].keyed = result[d].keyed
        /\ dpc'[c] \notin {"health", "status"}
    BY <1>4, <2>1 DEF HealthChecked, AfterHealth
  <2> QED
    BY <2>2, <2>3 DEF ChecksAClient, KeysFollowVault, OkIsLast, ReplacedBeforeActive
<1>5. CASE HealthCheckFails(c)
  <2>1. checked[c] \in 1 .. MaxClient /\ checked[c] <= vault
    BY <1>5 DEF HealthCheckFails, ChecksAClient
  <2>2. sick' \subseteq 1 .. MaxClient /\ \A n \in sick' : n <= vault
    BY <1>5, <2>1 DEF HealthCheckFails, ReplacedBeforeActive
  <2>3. DiagnosticsTypeOK' /\ ChecksAClient' /\ KeysFollowVault' /\ OkIsLast'
    BY <1>5, <2>2 DEF HealthCheckFails, AfterHealth, Retrigger, Steps, ChecksAClient,
       KeysFollowVault, OkIsLast
  <2>4. ReplacedBeforeActive'
    BY <1>5, <2>2 DEF HealthCheckFails, Retrigger, ReplacedBeforeActive
  <2> QED
    BY <2>3, <2>4
<1>6. CASE ReadKeys(c)
  BY <1>6 DEF ReadKeys, ChecksAClient, KeysFollowVault, OkIsLast, ReplacedBeforeActive
<1>7. CASE ReadPipelines(c)
  BY <1>7 DEF ReadPipelines, ChecksAClient, KeysFollowVault, OkIsLast, ReplacedBeforeActive
<1>8. CASE AskInfo(c) \/ AskHealth(c) \/ Invalidate(c)
  <2>1. /\ UNCHANGED <<vault, keyed, embedder, envector, infoHeld, checked, probe, result, sick>>
        /\ dpc[c] \in {"info", "embedder", "invalidate"}
        /\ \E to \in {"embedder", "invalidate", "probe"} : dpc' = [dpc EXCEPT ![c] = to]
        /\ RpcEnds
    BY <1>8 DEF AskInfo, AskHealth, Invalidate, RpcEnds
  <2>2. DiagnosticsTypeOK'
    BY <2>1 DEF RpcEnds, Retrigger, Steps
  <2>3. ChecksAClient' /\ KeysFollowVault' /\ OkIsLast'
    BY <2>1 DEF RpcEnds, Retrigger, ChecksAClient, KeysFollowVault, OkIsLast
  <2>4. ReplacedBeforeActive'
    BY <2>1 DEF RpcEnds, Retrigger, ReplacedBeforeActive
  <2> QED
    BY <2>2, <2>3, <2>4
<1>9. CASE StartProbe(c)
  BY <1>9 DEF StartProbe, ChecksAClient, KeysFollowVault, OkIsLast, ReplacedBeforeActive
<1>10. CASE ProbeReturns(c)
  BY <1>10 DEF ProbeReturns, RpcEnds, Retrigger, Steps, ChecksAClient, KeysFollowVault, OkIsLast,
     ReplacedBeforeActive
<1>11. CASE CollectProbe(c)
  <2>1. /\ result' \in [Reports -> [Findings -> BOOLEAN]]
        /\ \A d \in Reports : /\ result'[d].ok = result[d].ok
                              /\ result'[d].keyed = result[d].keyed
                              /\ result'[d].healthy = result[d].healthy
    <3>1. CASE \E reachable \in BOOLEAN : Found(c, "reachable", reachable)
      BY <3>1
    <3>2. CASE UNCHANGED result
      BY <3>2
    <3> QED
      BY <1>11, <3>1, <3>2 DEF CollectProbe
  <2>2. DiagnosticsTypeOK' /\ dpc[c] = "wait" /\ dpc' = [dpc EXCEPT ![c] = "verdict"]
    BY <1>11, <2>1 DEF CollectProbe
  <2> QED
    BY <1>11, <2>1, <2>2 DEF CollectProbe, ChecksAClient, KeysFollowVault, OkIsLast,
       ReplacedBeforeActive
<1>12. CASE Verdict(c)
  BY <1>12 DEF Verdict, ChecksAClient, KeysFollowVault, OkIsLast, ReplacedBeforeActive
<1> QED
  BY <1>1, <1>2, <1>3, <1>4, <1>5, <1>6, <1>7, <1>8, <1>9, <1>10, <1>11, <1>12
     DEF ReportStep

LEMMA ReportInvHolds == ReportSpec => []ReportInv
<1>1. ReportInit => ReportInv
  BY ReportStart, ReportInvInit
<1>2. ReportInv /\ [ReportNext]_reportVars => ReportInv'
  <2>1. CASE UNCHANGED diagnosticVars
    BY <2>1 DEF diagnosticVars, clients, ReportInv, DiagnosticsTypeOK, ChecksAClient,
       KeysFollowVault, OkIsLast, ReplacedBeforeActive
  <2> QED
    BY <2>1, ReportSteps, BootKeepsReportInv, CallsKeepReportInv DEF DiagnosticsNext
<1> QED
  BY <1>1, <1>2, PTL DEF ReportSpec

-----------------------------------------------------------------------------
\* Every variable of the tools and of the boot beside them keeps its type.
THEOREM ReportTypeCorrect == ReportSpec => []DiagnosticsTypeOK
BY ReportInvHolds, PTL DEF ReportInv

\* Diagnostics says OK only of a Vault that answered it to be serving and of keys that
\* were loaded, whatever was injected between its looks.
THEOREM OkIsEarned == ReportSpec => []OkMeansChecked
<1>1. ReportInv => OkMeansChecked
  BY DEF ReportInv, OkIsLast, OkMeansChecked
<1> QED
  BY <1>1, ReportInvHolds, PTL

\* Whichever boot answers the claim of a failed probe, and however often it fails, the
\* gate does not open again on the Vault client that was found to be away.
THEOREM SickVaultGoes == ReportSpec => []SickVaultIsReplaced
<1>1. ReportInv => SickVaultIsReplaced
  BY DEF ReportInv, ReplacedBeforeActive, SickVaultIsReplaced
<1> QED
  BY <1>1, ReportInvHolds, PTL
=============================================================================
