----------------------------- MODULE CaptureLog -----------------------------
(***************************************************************************)
(* capture_log.jsonl (internal/adapters/logio): every capture of every     *)
(* process appends one line, under the mutex of its process and a flock on *)
(* the file, and capture_history reads the newest entries back without any *)
(* lock.  A write may end in the middle, by a full disk or the death of    *)
(* the process; the next append then goes on in the same line.             *)
(*                                                                         *)
(* Entries are numbers, one for each capture; what they say is left out    *)
(* but for the set a filter lets pass.                                     *)
(***************************************************************************)
EXTENDS SequencesExt, FiniteSetsExt, Integers

CONSTANTS Writers,       \* captures that log at the same time
          ProcOf,        \* the process a capture runs in
          NoWriter,
          DefaultLimit,  \* what Tail takes for a limit that is not positive
          MaxLimit       \* and the most it returns

ASSUME CaptureLogAssumption ==
    /\ DOMAIN ProcOf = Writers
    /\ NoWriter \notin Writers
    /\ MaxLimit \in Nat /\ DefaultLimit \in 1 .. MaxLimit

VARIABLES
    captures,  \* bound: captures left to be logged
    wpc,       \* program counter of Append
    logging,   \* the entry a capture logs, 0 for none
    mutex,     \* CaptureLog.mu of each process
    flock,     \* the capture whose open file has the lock
    lines,     \* the file: of each line the entries in it, whether the last of them
               \* is complete and whether the line is
    acked,     \* entries whose Append returned no error
    cut        \* entries whose write ended in the middle

captureLogVars == <<captures, wpc, logging, mutex, flock, lines, acked, cut>>

\* The processes with the log at the same path.
Owners == {ProcOf[w] : w \in Writers}

AppendPCs == {"idle", "lock", "open", "flock", "write", "rest", "sync"}

CaptureLogTypeOK ==
    /\ captures \in Nat
    /\ wpc \in [Writers -> AppendPCs]
    /\ logging \in [Writers -> Nat]
    /\ mutex \in [Owners -> Writers \union {NoWriter}]
    /\ flock \in Writers \union {NoWriter}
    /\ lines \in Seq([entries : Seq(Nat \ {0}), whole : BOOLEAN, ended : BOOLEAN])
    /\ acked \subseteq Nat \ {0} /\ cut \subseteq Nat \ {0}

CaptureLogInit(work) ==
    /\ captures = work
    /\ wpc = [w \in Writers |-> "idle"]
    /\ logging = [w \in Writers |-> 0]
    /\ mutex = [p \in Owners |-> NoWriter]
    /\ flock = NoWriter
    /\ lines = <<>>
    /\ acked = {} /\ cut = {}

AppendGoes(w, to) == wpc' = [wpc EXCEPT ![w] = to]

\* The deferred calls: unlock the file, close it, unlock the mutex.
Release(w) ==
    /\ AppendGoes(w, "idle")
    /\ logging' = [logging EXCEPT ![w] = 0]
    /\ mutex' = [mutex EXCEPT ![ProcOf[w]] = NoWriter]
    /\ flock' = IF flock = w THEN NoWriter ELSE flock

-----------------------------------------------------------------------------
(* Append. *)

\* A capture is stored and comes to its log entry.
BeginAppend(w) ==
    /\ wpc[w] = "idle" /\ captures > 0
    /\ captures' = captures - 1
    /\ logging' = [logging EXCEPT ![w] = captures]
    /\ AppendGoes(w, "lock")
    /\ UNCHANGED <<mutex, flock, lines, acked, cut>>

LockMutex(w) ==
    /\ wpc[w] = "lock" /\ mutex[ProcOf[w]] = NoWriter
    /\ mutex' = [mutex EXCEPT ![ProcOf[w]] = w]
    /\ AppendGoes(w, "open")
    /\ UNCHANGED <<captures, logging, flock, lines, acked, cut>>

OpenLog(w) ==
    /\ wpc[w] = "open"
    /\ AppendGoes(w, "flock")
    /\ UNCHANGED <<captures, logging, mutex, flock, lines, acked, cut>>

\* Fault: the error path returns with the mutex held.
AppendFailsLocked(w) ==
    /\ wpc[w] \in {"open", "flock", "write"}
    /\ AppendGoes(w, "idle")
    /\ logging' = [logging EXCEPT ![w] = 0]
    /\ flock' = IF flock = w THEN NoWriter ELSE flock
    /\ UNCHANGED <<captures, mutex, lines, acked, cut>>

\* OpenFile, Flock or a Write of nothing fails; the capture goes on without.
AppendFails(w) ==
    /\ wpc[w] \in {"open", "flock", "write"}
    /\ Release(w)
    /\ UNCHANGED <<captures, lines, acked, cut>>

\* Fault: the lock is asked for without waiting and its refusal ignored.
TryFlock(w) ==
    /\ wpc[w] = "flock"
    /\ flock' = IF flock = NoWriter THEN w ELSE flock
    /\ AppendGoes(w, "write")
    /\ UNCHANGED <<captures, logging, mutex, lines, acked, cut>>

TakeFlock(w) ==
    /\ wpc[w] = "flock" /\ flock = NoWriter
    /\ flock' = w
    /\ AppendGoes(w, "write")
    /\ UNCHANGED <<captures, logging, mutex, lines, acked, cut>>

\* O_APPEND: bytes go to the end of the file, into the last line if that has none.
Extended(n, whole) ==
    IF lines = <<>> \/ Last(lines).ended
    THEN Append(lines, [entries |-> <<n>>, whole |-> whole, ended |-> FALSE])
    ELSE [lines EXCEPT ![Len(lines)].entries = Append(@, n), ![Len(lines)].whole = whole]

\* A part of the entry is in the file, at most all of it but the line feed.
WriteSome(w) ==
    /\ wpc[w] = "write"
    /\ \E whole \in BOOLEAN : lines' = Extended(logging[w], whole)
    /\ AppendGoes(w, "rest")
    /\ UNCHANGED <<captures, logging, mutex, flock, acked, cut>>

WriteRest(w) ==
    /\ wpc[w] = "rest"
    /\ lines' = [lines EXCEPT ![Len(lines)].whole = TRUE, ![Len(lines)].ended = TRUE]
    /\ AppendGoes(w, "sync")
    /\ UNCHANGED <<captures, logging, mutex, flock, acked, cut>>

\* The disk is full in the middle of the line.
WriteFallsShort(w) ==
    /\ wpc[w] = "rest"
    /\ cut' = cut \union {logging[w]}
    /\ Release(w)
    /\ UNCHANGED <<captures, lines, acked>>

\* fsync, with or without success; then the deferred calls.
SyncLog(w) ==
    /\ wpc[w] = "sync"
    /\ acked' \in {acked, acked \union {logging[w]}}
    /\ Release(w)
    /\ UNCHANGED <<captures, lines, cut>>

\* The process dies: the kernel closes its files and drops its flock.
KillAppends(p) ==
    LET dead == {w \in Writers : ProcOf[w] = p /\ wpc[w] # "idle"}
    IN  /\ wpc' = [w \in Writers |-> IF w \in dead THEN "idle" ELSE wpc[w]]
        /\ logging' = [w \in Writers |-> IF w \in dead THEN 0 ELSE logging[w]]
        /\ mutex' = [mutex EXCEPT ![p] = NoWriter]
        /\ flock' = IF flock \in dead THEN NoWriter ELSE flock
        /\ cut' = cut \union {logging[w] : w \in {v \in dead : wpc[v] = "rest"}}
        /\ UNCHANGED <<captures, lines, acked>>

AppendStep(w) ==
    \/ LockMutex(w) \/ OpenLog(w) \/ AppendFails(w) \/ TakeFlock(w)
    \/ WriteSome(w) \/ WriteRest(w) \/ WriteFallsShort(w) \/ SyncLog(w)

CaptureLogNext == \E w \in Writers : BeginAppend(w) \/ AppendStep(w)

-----------------------------------------------------------------------------
(* Tail. *)

\* Whether json.Unmarshal takes a line, ended or not.
Parses(line) == Len(line.entries) = 1 /\ line.whole

\* Fault: a limit that is not positive is taken as it is.
ClampAbove(limit) == Min({limit, MaxLimit})

Clamp(limit) == IF limit <= 0 THEN DefaultLimit ELSE Min({limit, MaxLimit})

\* The entries found with one more line: it is skipped if it is malformed, does not pass
\* the filters or there are enough.
Visited(line, found, limit, wanted) ==
    IF Len(found) < Clamp(limit) /\ Parses(line) /\ Head(line.entries) \in wanted
    THEN Append(found, Head(line.entries))
    ELSE found

\* From the last line up.
History(limit, wanted) ==
    LET found[k \in 1 .. Len(lines) + 1] ==
            IF k > Len(lines) THEN <<>>
            ELSE Visited(lines[k], found[k + 1], limit, wanted)
    IN  found[1]

-----------------------------------------------------------------------------
(* Properties. *)

\* An append that ended in the middle costs at most one entry besides its own, the
\* one that was glued to it, however processes and captures interleave: what was
\* logged without an error is read back otherwise.
CutsCostOneNeighbour ==
    LET readable == {Head(l.entries) : l \in {k \in ToSet(lines) : Parses(k)}}
    IN  Cardinality(acked \ readable) <= Cardinality(cut)

\* At any moment, appends in progress included, the history is made of readable
\* entries that pass the filters, newest first, as many as there are up to the limit,
\* and none of those it leaves out is newer.
HistoryIsNewest ==
    LET at(n)    == CHOOSE i \in DOMAIN lines : Parses(lines[i]) /\ lines[i].entries = <<n>>
        readable == {Head(l.entries) : l \in {k \in ToSet(lines) : Parses(k)}}
    IN  \A limit \in -1 .. MaxLimit + 1, wanted \in SUBSET readable :
            LET history == History(limit, wanted)
            IN  /\ ToSet(history) \subseteq wanted
                /\ Len(history) = Min({Cardinality(wanted), MaxLimit,
                                       IF limit < 1 THEN DefaultLimit ELSE limit})
                /\ \A i, j \in DOMAIN history : i < j => at(history[i]) > at(history[j])
                /\ \A n \in wanted \ ToSet(history), i \in DOMAIN history :
                      at(history[i]) > at(n)
=============================================================================
