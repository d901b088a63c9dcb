--------------------------- MODULE EmbedderClient ---------------------------
(***************************************************************************)
(* The client of the embedder daemon (internal/adapters/embedder), shared  *)
(* by the tool calls of one process: EmbedBatch with its splitting and its *)
(* retries, the Info cache behind a mutex, and Health, which clears the    *)
(* cache when the daemon's uptime went back.                               *)
(*                                                                         *)
(* runed is external: it answers, hangs, dies and comes back, each time as *)
(* another daemon with a batch limit of its own.                           *)
(***************************************************************************)
EXTENDS Integers, Sequences

CONSTANTS Calls,      \* EmbedBatch, EmbedSingle and Info calls
          Size,       \* number of texts of each call, 0 for Info
          Timed,      \* the calls whose context has a deadline
          Checks,     \* Health calls
          Limit,      \* MaxBatchSize of each daemon, 0 for none
          NoCall,     \* infoCache.mu is free
          MaxDaemon,  \* bound: daemons, numbered from 1
          MaxUptime   \* bound: seconds a daemon counts

ASSUME EmbedderAssumption ==
    /\ MaxDaemon \in Nat \ {0} /\ MaxUptime \in Nat
    /\ Size \in [Calls -> Nat]
    /\ Timed \subseteq Calls
    /\ Limit \in [1 .. MaxDaemon -> Nat]
    /\ NoCall \notin Calls

VARIABLES
    daemon,      \* the daemon that has the socket or had it last
    up,          \* its uptime
    serving,     \* whether it answers
    info,        \* infoCache.snap, as the daemon it describes; 0 if not loaded
    cooling,     \* infoRetryCooldown has not passed since a failed attempt
    mutex,       \* the call that holds infoCache.mu during its RPC
    lastUptime,  \* client.lastUptime
    pc,          \* program counter of each call
    plan,        \* the Info a call goes by, as its daemon; 0 if none
    got,         \* the texts whose vectors a call has, in order
    tries,       \* failed attempts of the current chunk
    hpc,         \* program counter of each Health call
    answer,      \* daemon and uptime of the reply a Health call got
    outdated     \* history: the newest daemon for which Health cleared the cache

runed  == <<daemon, up, serving>>
cache  == <<info, cooling, mutex>>
calls  == <<pc, plan, got, tries>>
checks == <<lastUptime, hpc, answer, outdated>>
vars   == <<runed, cache, calls, checks>>

Daemons == 1 .. MaxDaemon
Attempts == 3  \* Len(RetryBackoffs)

TypeOK ==
    /\ daemon \in Daemons
    /\ up \in 0 .. MaxUptime
    /\ serving \in {"ok", "hung", "down"}
    /\ info \in Daemons \union {0}
    /\ cooling \in BOOLEAN
    /\ mutex \in Calls \union {NoCall}
    /\ lastUptime \in 0 .. MaxUptime
    /\ pc \in [Calls -> {"idle", "lock", "info", "store", "reply", "backoff",
                         "done", "failed", "oversize"}]
    /\ plan \in [Calls -> Daemons \union {0}]
    /\ \A c \in Calls : got[c] \in Seq(1 .. Size[c]) /\ Len(got[c]) <= Size[c]
    /\ tries \in [Calls -> 0 .. Attempts - 1]
    /\ hpc \in [Checks -> {"idle", "compare", "invalidate", "store", "done"}]
    /\ answer \in [Checks -> (Daemons \union {0}) \X (0 .. MaxUptime)]
    /\ outdated \in Daemons \union {0}

Init ==
    /\ daemon = 1 /\ up = 0
    /\ serving \in {"ok", "down"}
    /\ info = 0 /\ cooling = FALSE /\ mutex = NoCall
    /\ lastUptime = 0
    /\ pc = [c \in Calls |-> "idle"]
    /\ plan = [c \in Calls |-> 0]
    /\ got = [c \in Calls |-> <<>>]
    /\ tries = [c \in Calls |-> 0]
    /\ hpc = [h \in Checks |-> "idle"]
    /\ answer = [h \in Checks |-> <<0, 0>>]
    /\ outdated = 0

-----------------------------------------------------------------------------
(* Helpers. *)

Goto(c, to) == pc' = [pc EXCEPT ![c] = to]
HealthGoto(h, to) == hpc' = [hpc EXCEPT ![h] = to]

\* The call returns an error; its locals are gone.
Fail(c) ==
    /\ Goto(c, "failed")
    /\ plan' = [plan EXCEPT ![c] = 0]
    /\ got' = [got EXCEPT ![c] = <<>>]
    /\ tries' = [tries EXCEPT ![c] = 0]

Unlock(c) == mutex' = IF mutex = c THEN NoCall ELSE mutex

\* Fault: the texts are never split.
ChunkWhole(c) == [k \in 1 .. Size[c] - Len(got[c]) |-> Len(got[c]) + k]

\* The texts of the next request: what is left, up to MaxBatchSize.
Chunk(c) ==
    LET left == Size[c] - Len(got[c])
        most == IF plan[c] = 0 \/ Limit[plan[c]] = 0 THEN left ELSE Limit[plan[c]]
    IN  [k \in 1 .. IF most < left THEN most ELSE left |-> Len(got[c]) + k]

Accepts(d, chunk) == Limit[d] = 0 \/ Len(chunk) <= Limit[d]

\* Info is there: EmbedBatch sends its first chunk, Info returns.
Informed(c) == Goto(c, IF Size[c] = 0 THEN "done" ELSE "reply")

-----------------------------------------------------------------------------
(* infoCache.Get. *)

\* EmbedSingle, of one text, does not ask for Info.
Begin(c) ==
    /\ pc[c] = "idle"
    /\ \/ Goto(c, "lock")
       \/ Size[c] = 1 /\ Goto(c, "reply")
    /\ UNCHANGED <<runed, cache, checks, plan, got, tries>>

\* Get once it has the mutex, up to the RPC, for which it keeps the mutex.
\* Waiting for the mutex does not look at the context.
Get(c) ==
    /\ pc[c] = "lock"
    /\ mutex = NoCall
    /\ \/ /\ info # 0
          /\ plan' = [plan EXCEPT ![c] = info]
          /\ Informed(c)
          /\ UNCHANGED <<mutex, got, tries>>
       \/ /\ info = 0 /\ cooling
          /\ Fail(c)
          /\ UNCHANGED mutex
       \/ /\ info = 0 /\ ~cooling
          /\ mutex' = c
          /\ Goto(c, "info")
          /\ UNCHANGED <<plan, got, tries>>
    /\ UNCHANGED <<runed, info, cooling, checks>>

\* Fault: the mutex is given back before the snapshot is stored.
InfoAnsweredUnlocked(c) ==
    /\ pc[c] = "info" /\ serving = "ok"
    /\ plan' = [plan EXCEPT ![c] = daemon]
    /\ Unlock(c)
    /\ Goto(c, "store")
    /\ UNCHANGED <<runed, info, cooling, checks, got, tries>>

InfoAnswered(c) ==
    /\ pc[c] = "info" /\ serving = "ok"
    /\ plan' = [plan EXCEPT ![c] = daemon]
    /\ Goto(c, "store")
    /\ UNCHANGED <<runed, cache, checks, got, tries>>

InfoStored(c) ==
    /\ pc[c] = "store"
    /\ info' = plan[c]
    /\ Unlock(c)
    /\ Informed(c)
    /\ UNCHANGED <<runed, cooling, checks, plan, got, tries>>

\* The error is kept for the calls that come within the cooldown, which is counted
\* from the beginning of the RPC.
InfoError(c) ==
    /\ cooling' \in BOOLEAN
    /\ Unlock(c)
    /\ Fail(c)

\* Fault: an early return keeps the mutex.
InfoFailsLocked(c) ==
    /\ pc[c] = "info" /\ serving # "hung"
    /\ cooling' \in BOOLEAN
    /\ Fail(c)
    /\ UNCHANGED <<runed, info, mutex, checks>>

InfoFails(c) ==
    /\ pc[c] = "info" /\ serving # "hung"
    /\ InfoError(c)
    /\ UNCHANGED <<runed, info, checks>>

CooldownPasses ==
    /\ cooling
    /\ cooling' = FALSE
    /\ UNCHANGED <<runed, info, mutex, calls, checks>>

-----------------------------------------------------------------------------
(* embedBatchOnce and retry. *)

\* Fault: the vectors of a chunk go before those of the chunks before it.
ChunkPrepended(c) ==
    LET all == Chunk(c) \o got[c] IN
    /\ pc[c] = "reply" /\ serving = "ok"
    /\ Accepts(daemon, Chunk(c))
    /\ got' = [got EXCEPT ![c] = all]
    /\ tries' = [tries EXCEPT ![c] = 0]
    /\ IF Len(all) = Size[c]
       THEN Goto(c, "done") /\ plan' = [plan EXCEPT ![c] = 0]
       ELSE Goto(c, "reply") /\ UNCHANGED plan
    /\ UNCHANGED <<runed, cache, checks>>

ChunkAnswered(c) ==
    LET all == got[c] \o Chunk(c) IN
    /\ pc[c] = "reply" /\ serving = "ok"
    /\ Accepts(daemon, Chunk(c))
    /\ got' = [got EXCEPT ![c] = all]
    /\ tries' = [tries EXCEPT ![c] = 0]
    /\ IF Len(all) = Size[c]
       THEN Goto(c, "done") /\ plan' = [plan EXCEPT ![c] = 0]
       ELSE Goto(c, "reply") /\ UNCHANGED plan
    /\ UNCHANGED <<runed, cache, checks>>

\* InvalidArgument, which is not retried.
ChunkRejected(c) ==
    /\ pc[c] = "reply" /\ serving = "ok"
    /\ ~Accepts(daemon, Chunk(c))
    /\ Goto(c, "oversize")
    /\ UNCHANGED <<runed, cache, checks, plan, got, tries>>

\* Fault: the attempts are not counted.
ChunkFailsUncounted(c) ==
    /\ pc[c] = "reply" /\ serving # "hung"
    /\ tries' = [tries EXCEPT ![c] = @ + 1]
    /\ Goto(c, "backoff")
    /\ UNCHANGED <<runed, cache, checks, plan, got>>

\* Unavailable, ResourceExhausted or DeadlineExceeded is retried, the third time
\* and any other error (a wrong number of vectors too) end the call.
ChunkFails(c) ==
    /\ pc[c] = "reply" /\ serving # "hung"
    /\ \/ /\ tries[c] + 1 < Attempts
          /\ tries' = [tries EXCEPT ![c] = @ + 1]
          /\ Goto(c, "backoff")
          /\ UNCHANGED <<plan, got>>
       \/ Fail(c)
    /\ UNCHANGED <<runed, cache, checks>>

BackoffEnds(c) ==
    /\ pc[c] = "backoff"
    /\ Goto(c, "reply")
    /\ UNCHANGED <<runed, cache, checks, plan, got, tries>>

\* The context ends, by its deadline or because the client cancels the tool call:
\* during an RPC or between two attempts.
Interrupted(c) ==
    /\ \/ pc[c] = "info" /\ InfoError(c)
       \/ /\ pc[c] \in {"reply", "backoff"}
          /\ Fail(c)
          /\ UNCHANGED <<cooling, mutex>>
    /\ UNCHANGED <<runed, info, checks>>

-----------------------------------------------------------------------------
(* Health. *)

\* Health failed, or was answered.  It is not retried and every caller sets a
\* deadline, so the RPC itself holds nobody up.
HealthAnswered(h) ==
    /\ hpc[h] = "idle" /\ serving = "ok"
    /\ answer' = [answer EXCEPT ![h] = <<daemon, up>>]
    /\ HealthGoto(h, "compare")
    /\ UNCHANGED <<runed, cache, calls, lastUptime, outdated>>

\* lastUptime is loaded here and stored after the invalidation, by another step.
CompareUptime(h) ==
    /\ hpc[h] = "compare"
    /\ HealthGoto(h, IF lastUptime > 0 /\ answer[h][2] < lastUptime
                     THEN "invalidate" ELSE "store")
    /\ UNCHANGED <<runed, cache, calls, lastUptime, answer, outdated>>

Invalidate(h) ==
    /\ hpc[h] = "invalidate"
    /\ mutex = NoCall
    /\ info' = 0 /\ cooling' = FALSE
    /\ outdated' = IF answer[h][1] > outdated THEN answer[h][1] ELSE outdated
    /\ HealthGoto(h, "store")
    /\ UNCHANGED <<runed, mutex, calls, lastUptime, answer>>

StoreUptime(h) ==
    /\ hpc[h] = "store"
    /\ lastUptime' = answer[h][2]
    /\ answer' = [answer EXCEPT ![h] = <<0, 0>>]
    /\ HealthGoto(h, "done")
    /\ UNCHANGED <<runed, cache, calls, outdated>>

-----------------------------------------------------------------------------
(* runed. *)

Tick ==
    /\ serving # "down" /\ up < MaxUptime
    /\ up' = up + 1
    /\ UNCHANGED <<daemon, serving, cache, calls, checks>>

\* It hangs, goes on, or dies.
ServingChanges ==
    /\ serving # "down"
    /\ serving' \in {"ok", "hung", "down"} \ {serving}
    /\ UNCHANGED <<daemon, up, cache, calls, checks>>

Restart ==
    /\ serving = "down" /\ daemon < MaxDaemon
    /\ daemon' = daemon + 1
    /\ up' = 0
    /\ serving' = "ok"
    /\ UNCHANGED <<cache, calls, checks>>

-----------------------------------------------------------------------------
CallContinues(c) ==
    \/ Get(c) \/ InfoAnswered(c) \/ InfoStored(c) \/ InfoFails(c)
    \/ ChunkAnswered(c) \/ ChunkRejected(c) \/ ChunkFails(c) \/ BackoffEnds(c)

HealthContinues(h) == CompareUptime(h) \/ Invalidate(h) \/ StoreUptime(h)

Next ==
    \/ \E c \in Calls : Begin(c) \/ CallContinues(c) \/ Interrupted(c)
    \/ \E h \in Checks : HealthAnswered(h) \/ HealthContinues(h)
    \/ CooldownPasses
    \/ Tick \/ ServingChanges \/ Restart

Spec == Init /\ [][Next]_vars

\* Goroutines run, a daemon that does not hang answers or fails, deadlines pass.
\* That runed recovers or comes back is not assumed, nor that anybody cancels.
FairSpec ==
    /\ Spec
    /\ \A c \in Calls : WF_vars(CallContinues(c))
    /\ \A c \in Timed : WF_vars(Interrupted(c))

-----------------------------------------------------------------------------
(* Properties. *)

Waiting(c) == pc[c] \in {"lock", "info", "store", "reply", "backoff"}

\* EmbedBatch that succeeds has the vector of every text, in order, however it was
\* split and whatever was retried.
BatchIsComplete ==
    \A c \in Calls : pc[c] = "done" => got[c] = [k \in 1 .. Size[c] |-> k]

\* A request is too large for the daemon that gets it only if the call went by the Info
\* of a daemon before it: a text alone, sent without Info, never is.
OversizeMeansRestart ==
    \A c \in Calls : pc[c] = "oversize" => plan[c] \in 1 .. daemon - 1

\* Once a Health call has found the uptime lower and cleared the cache, Info of a
\* daemon older than the one it asked does not come back, not even by an RPC that
\* was under way.
RegressionOutdatesInfo == info = 0 \/ info >= outdated

\* The calls end if runed does not hang for ever: nobody keeps the mutex.  (A call
\* is made once, so calls that all end are all ended some time.)
EmbedderCallsEnd ==
    <>[](serving # "hung") => []<>(\A c \in Calls : ~Waiting(c))

\* service/recall.go, on its deadlines: "These exist so a hung dependency surfaces
\* as a typed error in seconds instead of stalling the MCP request indefinitely".
TimedCallsEnd ==
    <>[](serving = "hung") => \A c \in Timed : Waiting(c) ~> ~Waiting(c)
=============================================================================
