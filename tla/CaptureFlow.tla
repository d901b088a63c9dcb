---------------------------- MODULE CaptureFlow ----------------------------
(***************************************************************************)
(* capture and batch_capture (internal/service/capture.go, recovery.go) of *)
(* one process, while boot loops exchange the clients and the Vault bundle *)
(* the services use.                                                       *)
(*                                                                         *)
(* A call handles its items one after the other: novelty check, embedding  *)
(* and sealing, insert with one retry, capture log.  The boot is reduced   *)
(* to what BootLifecycle is proved to do, with the two fields of the       *)
(* bundle written one by one.  The enVector server is external: a request  *)
(* sent to it is committed at some later time or never, at most once per   *)
(* request id, and the reply may be lost however the request fared.        *)
(***************************************************************************)
EXTENDS Naturals, Sequences, Functions

CONSTANTS Calls,      \* tool calls, one each
          Batch,      \* the items each call brings; an item is its insight
          MaxGen      \* bound: generations of clients, numbered from 1

ASSUME CaptureAssumption ==
    /\ MaxGen \in Nat \ {0}
    /\ DOMAIN Batch = Calls
    /\ \A c \in Calls : Batch[c] \in Seq(Range(Batch[c])) \ {<<>>}

VARIABLES
    gate,      \* Manager.state, the transient ones as "booting"
    stage,     \* what the running boot does next
    gen,       \* the generation of the last boot attempt past its Vault dial
    agentId,   \* CaptureService.AgentID, as the generation it came with
    agentKey,  \* CaptureService.AgentDEK, likewise
    wired,     \* CaptureService.Envector
    doomed,    \* replaced enVector clients whose delayed Close is pending
    closed,    \* enVector clients that were closed
    pc,        \* program counter of each call
    results,   \* the statuses in BatchCaptureResult.Results so far
    seen,      \* rows the novelty check of the current item looked at, 0 if it
               \* was degraded
    sealed,    \* agent id and key the current item was sealed with
    client,    \* the client the current insert uses
    tries,     \* inserts of the current item that were sent
    quiet,     \* history: the gate was active ever since the current item began
    inflight,  \* requests the server may still commit
    rows       \* the index, in commit order

boot   == <<gate, stage, gen, agentId, agentKey, wired, doomed, closed>>
item   == <<seen, sealed, client, tries>>
server == <<inflight, rows>>
vars   == <<boot, pc, results, item, quiet, server>>

Gens == 1 .. MaxGen
PCs  == {"idle", "novelty", "seal", "insert", "reply", "wait", "retry", "done"}
Statuses == {"captured", "near_duplicate", "error"}
Insights == UNION {Range(Batch[c]) : c \in Calls}

\* newInsertRequestID: the item is the identity of its one request.
Current(c) == Len(results[c]) + 1
Insight(c) == Batch[c][Current(c)]

\* Fault: every attempt draws a request id of its own.
RequestPerTry(c) == <<c, Current(c), tries[c]>>

Request(c) == <<c, Current(c), 0>>
RequestIds == Calls \X Nat \X Nat

Committed(r) == \E k \in 1 .. Len(rows) : rows[k].id = r

TypeOK ==
    /\ gate \in {"booting", "active", "dormant"}
    /\ stage \in {"vault", "key", "envector", "open"}
    /\ {gen, agentId, agentKey, wired} \subseteq Gens
    /\ doomed \subseteq Gens /\ closed \subseteq Gens
    /\ pc \in [Calls -> PCs]
    /\ results \in [Calls -> Seq(Statuses)]
    /\ \A c \in Calls : Len(results[c]) <= Len(Batch[c])
    /\ seen \in [Calls -> Nat]
    /\ sealed \in [Calls -> Gens \X Gens]
    /\ client \in [Calls -> Gens]
    /\ tries \in [Calls -> 0 .. 2]
    /\ quiet \in [Calls -> BOOLEAN]
    /\ inflight \subseteq [id : RequestIds, insight : Insights, seen : Nat]
    /\ rows \in Seq([id : RequestIds, insight : Insights, seen : Nat])

\* The process has booted.
Init ==
    /\ gate = "active" /\ stage = "vault" /\ gen = 1
    /\ agentId = 1 /\ agentKey = 1 /\ wired = 1
    /\ doomed = {} /\ closed = {}
    /\ pc = [c \in Calls |-> "idle"]
    /\ results = [c \in Calls |-> <<>>]
    /\ seen = [c \in Calls |-> 0]
    /\ sealed = [c \in Calls |-> <<1, 1>>]
    /\ client = [c \in Calls |-> 1]
    /\ tries = [c \in Calls |-> 0]
    /\ quiet = [c \in Calls |-> TRUE]
    /\ inflight = {} /\ rows = <<>>

-----------------------------------------------------------------------------
(* Helpers. *)

Goto(c, to) == pc' = [pc EXCEPT ![c] = to]

\* Handle returned for the current item; Batch classifies it and goes on.  The
\* locals of Handle are gone.
FinishItem(c, status) ==
    /\ results' = [results EXCEPT ![c] = Append(@, status)]
    /\ Goto(c, IF Current(c) = Len(Batch[c]) THEN "done" ELSE "novelty")
    /\ seen' = [seen EXCEPT ![c] = 0]
    /\ sealed' = [sealed EXCEPT ![c] = <<1, 1>>]
    /\ client' = [client EXCEPT ![c] = 1]
    /\ tries' = [tries EXCEPT ![c] = 0]
    /\ quiet' = [quiet EXCEPT ![c] = (gate = "active" \/ Current(c) = Len(Batch[c]))]

\* envector.Client.Insert sends the request of the current item.
Send(c) ==
    /\ inflight' = inflight \union
          {[id |-> Request(c), insight |-> Insight(c), seen |-> seen[c]]}
    /\ tries' = [tries EXCEPT ![c] = @ + 1]

-----------------------------------------------------------------------------
(* The handler. *)

\* CheckState, once per call.
Begin(c) ==
    /\ pc[c] = "idle"
    /\ gate = "active"
    /\ Goto(c, "novelty")
    /\ UNCHANGED <<boot, results, item, quiet, server>>

\* Fault: the item is inserted all the same.
NearDuplicateInserted(c) ==
    /\ pc[c] = "novelty"
    /\ \E k \in 1 .. Len(rows) : rows[k].insight = Insight(c)
    /\ seen' = [seen EXCEPT ![c] = Len(rows)]
    /\ Goto(c, "seal")
    /\ UNCHANGED <<boot, results, sealed, client, tries, quiet, server>>

\* runNoveltyCheck finds a virtually identical row.
NearDuplicate(c) ==
    /\ pc[c] = "novelty"
    /\ \E k \in 1 .. Len(rows) : rows[k].insight = Insight(c)
    /\ FinishItem(c, "near_duplicate")
    /\ UNCHANGED <<boot, server>>

\* runNoveltyCheck finds none, or fails, which is not fatal.
Novel(c) ==
    /\ pc[c] = "novelty"
    /\ \/ /\ \A k \in 1 .. Len(rows) : rows[k].insight # Insight(c)
          /\ seen' = [seen EXCEPT ![c] = Len(rows) + 1]
       \/ seen' = [seen EXCEPT ![c] = 0]
    /\ Goto(c, "seal")
    /\ UNCHANGED <<boot, results, sealed, client, tries, quiet, server>>

\* EmbedBatch, then sealMetadata with the fields of the bundle as they are now.
EmbedAndSeal(c) ==
    /\ pc[c] = "seal"
    /\ sealed' = [sealed EXCEPT ![c] = <<agentId, agentKey>>]
    /\ Goto(c, "insert")
    /\ UNCHANGED <<boot, results, seen, client, tries, quiet, server>>

EmbedFails(c) ==
    /\ pc[c] = "seal"
    /\ FinishItem(c, "error")
    /\ UNCHANGED <<boot, server>>

\* The first attempt of insertWithRecovery, on the client injected now.
Insert(c) ==
    /\ pc[c] = "insert"
    /\ client' = [client EXCEPT ![c] = wired]
    /\ Send(c)
    /\ Goto(c, "reply")
    /\ UNCHANGED <<boot, results, seen, sealed, quiet, rows>>

\* The second attempt, on the same client.  Its Close may have come in between:
\* then Insert fails without sending anything.
Retry(c) ==
    /\ pc[c] = "retry"
    /\ \/ /\ client[c] \notin closed
          /\ Send(c)
          /\ Goto(c, "reply")
          /\ UNCHANGED <<results, seen, sealed, client, quiet>>
       \/ /\ client[c] \in closed
          /\ FinishItem(c, "error")
          /\ UNCHANGED inflight
    /\ UNCHANGED <<boot, rows>>

\* Fault: an insert that fails for good is taken for one that was committed.
InsertFailsUnnoticed(c) ==
    /\ pc[c] = "reply"
    /\ IF tries[c] = 1
       THEN Goto(c, "wait") /\ UNCHANGED <<results, item, quiet>>
       ELSE FinishItem(c, "captured")
    /\ UNCHANGED <<boot, server>>

\* Insert answers, or says ErrAlreadyExists, which counts as success: the first
\* attempt was committed.  CaptureLog.Append follows; its failures change nothing.
InsertAnswers(c) ==
    /\ pc[c] = "reply"
    /\ Committed(Request(c))
    /\ FinishItem(c, "captured")
    /\ UNCHANGED <<boot, server>>

\* Insert fails, whatever became of the request.  A retryable failure of the
\* first attempt waits for an active state.
InsertFails(c) ==
    /\ pc[c] = "reply"
    /\ \/ /\ tries[c] = 1
          /\ Goto(c, "wait")
          /\ UNCHANGED <<results, item, quiet>>
       \/ FinishItem(c, "error")
    /\ UNCHANGED <<boot, server>>

\* WaitForActive: true once the gate is active; false on dormant, after
\* RecoverTimeout, or when the call's context ends.
WaitForActive(c) ==
    /\ pc[c] = "wait"
    /\ \/ /\ gate = "active"
          /\ Goto(c, "retry")
          /\ UNCHANGED <<results, item, quiet>>
       \/ FinishItem(c, "error")
    /\ UNCHANGED <<boot, server>>

-----------------------------------------------------------------------------
(* The server. *)

\* An atomic batch insert, once per request id.
Commit(r) ==
    /\ r \in inflight
    /\ inflight' = inflight \ {r}
    /\ rows' = IF Committed(r.id) THEN rows ELSE Append(rows, r)
    /\ UNCHANGED <<boot, pc, results, item, quiet>>

-----------------------------------------------------------------------------
(* The boot loops. *)

\* Manager.Retrigger by anybody.
Retrigger ==
    /\ gate \in {"active", "dormant"}
    /\ gate' = "booting"
    /\ quiet' = [c \in Calls |-> pc[c] \in {"idle", "done"}]
    /\ UNCHANGED <<stage, gen, agentId, agentKey, wired, doomed, closed>>
    /\ UNCHANGED <<pc, results, item, server>>

\* ApplyVaultBundle writes AgentID ...
ApplyAgentId ==
    /\ gate = "booting" /\ stage = "vault"
    /\ gen < MaxGen
    /\ gen' = gen + 1
    /\ agentId' = gen + 1
    /\ stage' = "key"
    /\ UNCHANGED <<gate, agentKey, wired, doomed, closed>>
    /\ UNCHANGED <<pc, results, item, quiet, server>>

\* Fault: the key is kept.
KeepAgentKey ==
    /\ gate = "booting" /\ stage = "key"
    /\ stage' = "envector"
    /\ UNCHANGED <<gate, gen, agentId, agentKey, wired, doomed, closed>>
    /\ UNCHANGED <<pc, results, item, quiet, server>>

\* ... then AgentDEK.
ApplyAgentKey ==
    /\ gate = "booting" /\ stage = "key"
    /\ agentKey' = gen
    /\ stage' = "envector"
    /\ UNCHANGED <<gate, gen, agentId, wired, doomed, closed>>
    /\ UNCHANGED <<pc, results, item, quiet, server>>

InjectEnvector ==
    /\ gate = "booting" /\ stage = "envector"
    /\ wired' = gen
    /\ doomed' = doomed \union {wired}
    /\ stage' = "open"
    /\ UNCHANGED <<gate, gen, agentId, agentKey, closed>>
    /\ UNCHANGED <<pc, results, item, quiet, server>>

\* An attempt that fails after ApplyVaultBundle.
AttemptFails ==
    /\ gate = "booting" /\ stage = "envector"
    /\ stage' = "vault"
    /\ UNCHANGED <<gate, gen, agentId, agentKey, wired, doomed, closed>>
    /\ UNCHANGED <<pc, results, item, quiet, server>>

\* The boot ends active, or dormant before it dials.
BootEnds ==
    /\ gate = "booting"
    /\ \/ stage = "open" /\ gate' = "active"
       \/ stage = "vault" /\ gate' = "dormant"
    /\ stage' = "vault"
    /\ UNCHANGED <<gen, agentId, agentKey, wired, doomed, closed>>
    /\ UNCHANGED <<pc, results, item, quiet, server>>

\* The goroutine of closeAfterInterval; inserts that still use the client are
\* not waited for.
CloseStale(g) ==
    /\ g \in doomed
    /\ doomed' = doomed \ {g}
    /\ closed' = closed \union {g}
    /\ UNCHANGED <<gate, stage, gen, agentId, agentKey, wired>>
    /\ UNCHANGED <<pc, results, item, quiet, server>>

-----------------------------------------------------------------------------
CallContinues(c) ==
    \/ NearDuplicate(c) \/ Novel(c) \/ EmbedAndSeal(c) \/ EmbedFails(c)
    \/ Insert(c) \/ Retry(c) \/ InsertAnswers(c) \/ InsertFails(c)
    \/ WaitForActive(c)

BootStep ==
    \/ Retrigger \/ ApplyAgentId \/ ApplyAgentKey \/ InjectEnvector
    \/ AttemptFails \/ BootEnds \/ \E g \in Gens : CloseStale(g)

Next ==
    \/ \E c \in Calls : Begin(c) \/ CallContinues(c)
    \/ \E r \in inflight : Commit(r)
    \/ BootStep

Spec == Init /\ [][Next]_vars

-----------------------------------------------------------------------------
(* Properties. *)

\* The requests and rows of item i of call c.
OfItem(r, c, i) == r.id[1] = c /\ r.id[2] = i
Stored(c, i) == \E k \in 1 .. Len(rows) : OfItem(rows[k], c, i)

\* An item is stored at most once, although its insert is retried after replies
\* that were lost and requests that are only late.
StoredOnce ==
    \A c \in Calls : \A i \in 1 .. Len(Batch[c]) : \A j, k \in 1 .. Len(rows) :
        OfItem(rows[j], c, i) /\ OfItem(rows[k], c, i) => j = k

\* What the agent is told is what the index holds: an item reported captured is
\* stored, one reported as near duplicate is not and never will be.  An item
\* reported as error may be stored, now or later.
ResultsMatchIndex ==
    \A c \in Calls : \A i \in 1 .. Len(results[c]) :
        /\ results[c][i] = "captured" => Stored(c, i)
        /\ results[c][i] = "near_duplicate" =>
              ~Stored(c, i) /\ \A r \in inflight : ~OfItem(r, c, i)

\* The index holds an insight twice only if the second row's novelty check was
\* degraded or ran before the first row was committed (two calls at once, or an
\* insert that was given up and arrived late).
DuplicatesOverlapOrDegraded ==
    \A j, k \in 1 .. Len(rows) :
        /\ j < k
        /\ rows[j].insight = rows[k].insight
        /\ rows[k].seen # 0
        => rows[k].seen <= j

\* An item handled while the gate stayed active is sealed with the id and the key
\* of one Vault bundle and sent through the client of that same boot.
QuietItemIsCoherent ==
    \A c \in Calls :
        quiet[c] /\ pc[c] = "reply" => sealed[c] = <<client[c], client[c]>>
=============================================================================
