-------------------------- MODULE RecallPipeline --------------------------
(***************************************************************************)
(* recall (internal/service/recall.go), while boot loops exchange the      *)
(* enVector client, records are captured and the services behind it fail.  *)
(*                                                                         *)
(* A recall runs one search per expansion of its query, one for the query  *)
(* itself unless it is one of them, and at most two for the missing        *)
(* members of groups.  A search asks enVector for scores, Vault for the    *)
(* best of them, enVector for their metadata and Vault to decrypt it; each *)
(* step may fail.                                                          *)
(***************************************************************************)
EXTENDS RecallRanking

CONSTANTS Recalls,      \* recall calls, one each
          Original,     \* the query
          Expansions,   \* what Parse makes of it
          TopK,         \* top_k of the recalls
          RoleLimits,   \* the limits the token's role may set on top_k
          Sim,          \* similarity of queries, groups' queries too, and records
          Indexes,      \* the index behind each generation of the enVector client
          Coming,       \* rows captured meanwhile, here or elsewhere
          NotAsked      \* neither query nor group

Gens    == DOMAIN Indexes
Queries == Range(Expansions) \union {Original} \union Groups

ASSUME PipelineAssumption ==
    /\ Expansions \in Seq(Range(Expansions))
    /\ TopK \in Nat \ {0} /\ RoleLimits \subseteq Nat
    /\ Indexes \in Seq(Seq(Row)) /\ Indexes # <<>>
    /\ Sim \in [Queries -> [Ids -> (1 - Scale) .. Scale]]
    /\ Coming \subseteq Row
    /\ NotAsked \notin Queries

VARIABLES
    gate,       \* Manager.state, the transient ones as "booting"
    wired,      \* generation of the client the services use
    index,      \* the rows behind each client, in insertion order
    roleTopK,   \* top_k limit of the token's role
    infoHeld,   \* another call keeps infoCache.mu while it asks runed for Info
    pc,         \* program counter of each call
    stage,      \* the searches a recall is at
    todo,       \* its searches to come, the running one first
    client,     \* the client the running search got its scores from
    entries,    \* positions and scores Vault selected
    found,      \* hits so far
    answer,     \* what the call returned
    quiet       \* history: the gate was active ever since the call began

others == <<index, roleTopK, infoHeld>>
boot   == <<gate, wired>>
vars   == <<boot, others, pc, stage, todo, client, entries, found, answer, quiet>>

PCs == {"idle", "embed", "search", "score", "decrypt", "metadata", "rank", "done"}
Search == [query : Queries, k : Nat, group : Groups \union {NotAsked}]
Entry  == [pos : Nat \ {0}, score : Int]
NoAnswer == [status |-> "none", hits |-> <<>>]

TypeOK ==
    /\ gate \in {"booting", "active", "dormant"}
    /\ wired \in Gens
    /\ index \in Seq(Seq(Row)) /\ DOMAIN index = Gens
    /\ roleTopK \in RoleLimits
    /\ infoHeld \in BOOLEAN
    /\ pc \in [Recalls -> PCs]
    /\ stage \in [Recalls -> {"expansions", "original", "groups"}]
    /\ client \in [Recalls -> Gens]
    /\ quiet \in [Recalls -> BOOLEAN]
    /\ todo \in [Recalls -> Seq(Search)]
    /\ entries \in [Recalls -> Seq(Entry)]
    /\ found \in [Recalls -> Seq(Hit)]
    /\ answer \in [Recalls -> [status : {"none", "ok", "error", "topk_limit"}, hits : Seq(Hit)]]

Init ==
    /\ gate = "active" /\ wired = 1
    /\ index = Indexes
    /\ roleTopK \in RoleLimits
    /\ infoHeld = FALSE
    /\ pc = [c \in Recalls |-> "idle"]
    /\ stage = [c \in Recalls |-> "expansions"]
    /\ todo = [c \in Recalls |-> <<>>]
    /\ client = [c \in Recalls |-> 1]
    /\ entries = [c \in Recalls |-> <<>>]
    /\ found = [c \in Recalls |-> <<>>]
    /\ answer = [c \in Recalls |-> NoAnswer]
    /\ quiet = [c \in Recalls |-> TRUE]

-----------------------------------------------------------------------------
(* Helpers. *)

Goto(c, to) == pc' = [pc EXCEPT ![c] = to]

Reply(c, status, hits) ==
    /\ answer' = [answer EXCEPT ![c] = [status |-> status, hits |-> hits]]
    /\ Goto(c, "done")

\* The running search is over, with or without hits.
NextSearch(c) ==
    /\ todo' = [todo EXCEPT ![c] = Tail(@)]
    /\ entries' = [entries EXCEPT ![c] = <<>>]
    /\ Goto(c, "search")

\* What Vault makes of the scores of all rows: the best k.  Equal scores come in
\* either order.
Best_k(rows, query, k, newestFirst) ==
    LET n       == Len(rows)
        At(p)   == IF newestFirst THEN n + 1 - p ELSE p
        Like(p) == Sim[query][rows[p].id]
        order   == Order([p \in 1 .. n |-> Like(At(p))])
    IN  [i \in 1 .. Min({k, n}) |-> [pos |-> At(order[i]), score |-> Like(At(order[i]))]]

\* The entries the metadata of which can be read.
Read(selected, rows, readable) ==
    {i \in DOMAIN selected :
        rows[selected[i].pos].form = "plain" \/ selected[i].pos \in readable}

\* Fault: the scores are matched with the hits, not with the entries.
ShiftedHits(selected, rows, readable) ==
    LET kept == Kept(selected, Read(selected, rows, readable))
    IN  [i \in DOMAIN kept |-> [row |-> rows[kept[i].pos], score |-> selected[i].score]]

\* Fault: metadata that could not be read makes a hit too, with toSearchHit's
\* default for the id.
UnreadHits(selected, rows, readable) ==
    [i \in DOMAIN selected |->
        LET row == rows[selected[i].pos]
        IN  [row |-> IF i \in Read(selected, rows, readable)
                     THEN row ELSE [row EXCEPT !.id = "unknown"],
             score |-> selected[i].score]]

\* resolveMetadata: the hits of the entries that are read.
ResolvedHits(selected, rows, readable) ==
    LET kept == Kept(selected, Read(selected, rows, readable))
    IN  [i \in DOMAIN kept |-> [row |-> rows[kept[i].pos], score |-> kept[i].score]]

-----------------------------------------------------------------------------
(* recall. *)

\* The expansions that are searched.
Used == SubSeq(Expansions, 1, Min({3, Len(Expansions)}))

\* CheckState, then Parse.
Begin(c) ==
    /\ pc[c] = "idle"
    /\ gate = "active"
    /\ todo' = [todo EXCEPT ![c] = [i \in DOMAIN Used |->
           [query |-> Used[i], k |-> TopK, group |-> NotAsked]]]
    /\ Goto(c, "embed")
    /\ UNCHANGED <<boot, others, stage, client, entries, found, answer, quiet>>

\* EmbedBatch: Info, from the cache or by an RPC, then the vectors.  Lock of the
\* cache's mutex comes first, and does not look at the deadline.
EmbedExpansions(c) ==
    /\ pc[c] = "embed"
    /\ ~infoHeld
    /\ Goto(c, "search")
    /\ UNCHANGED <<boot, others, stage, todo, client, entries, found, answer, quiet>>

EmbedFails(c) ==
    /\ pc[c] = "embed"
    /\ ~infoHeld
    /\ Reply(c, "error", <<>>)
    /\ UNCHANGED <<boot, others, stage, todo, client, entries, found, quiet>>

\* searchSingle begins, on the client injected now.
StartSearch(c) ==
    /\ pc[c] = "search" /\ todo[c] # <<>>
    /\ client' = [client EXCEPT ![c] = wired]
    /\ Goto(c, "score")
    /\ UNCHANGED <<boot, others, stage, todo, entries, found, answer, quiet>>

\* scoreWithRecovery returns, at once or after the client has recovered.
Score(c) ==
    /\ pc[c] = "score"
    /\ \E newestFirst \in BOOLEAN :
          LET search == Head(todo[c])
              best   == Best_k(index[client[c]], search.query, search.k, newestFirst)
          IN  IF best = <<>> THEN NextSearch(c)
              ELSE /\ entries' = [entries EXCEPT ![c] = best]
                   /\ Goto(c, "decrypt")
                   /\ UNCHANGED todo
    /\ UNCHANGED <<boot, others, stage, client, found, answer, quiet>>

DecryptScores(c) ==
    /\ pc[c] = "decrypt"
    /\ Head(todo[c]).k <= roleTopK
    /\ Goto(c, "metadata")
    /\ UNCHANGED <<boot, others, stage, todo, client, entries, found, answer, quiet>>

\* topKLimitErr.  expandPhaseChains takes it for any other failure.
TopKExceeded(c) ==
    /\ pc[c] = "decrypt"
    /\ Head(todo[c]).k > roleTopK
    /\ IF stage[c] = "groups"
       THEN NextSearch(c) /\ UNCHANGED answer
       ELSE Reply(c, "topk_limit", <<>>) /\ UNCHANGED <<todo, entries>>
    /\ UNCHANGED <<boot, others, stage, client, found, quiet>>

\* GetMetadata, on the client injected now, and resolveMetadata: all sealed
\* metadata is decrypted at once, or one by one if that fails.
Resolve(c) ==
    /\ pc[c] = "metadata"
    /\ LET rows   == index[wired]
           group  == Head(todo[c]).group
           places == {e.pos : e \in Range(entries[c])}
       IN  /\ places \subseteq DOMAIN rows
           /\ \E readable \in SUBSET {p \in places : rows[p].form = "sealed"} :
                 LET hits == ResolvedHits(entries[c], rows, readable)
                     more == IF group = NotAsked THEN hits ELSE Members(hits, group)
                 IN  found' = [found EXCEPT ![c] = Merged(@, more)]
    /\ NextSearch(c)
    /\ UNCHANGED <<boot, others, stage, client, answer, quiet>>

\* Fault: a failed search is tried again.
SearchFailsAgain(c) ==
    /\ pc[c] \in {"score", "decrypt", "metadata"}
    /\ Goto(c, "search")
    /\ UNCHANGED <<boot, others, stage, todo, client, entries, found, answer, quiet>>

\* Any step of a search fails, the embedding of the original query or of a group
\* query included: the recall goes on without it.
SearchFails(c) ==
    /\ pc[c] \in {"score", "decrypt", "metadata"}
    /\ NextSearch(c)
    /\ UNCHANGED <<boot, others, stage, client, found, answer, quiet>>

SearchesDone(c) == pc[c] = "search" /\ todo[c] = <<>>

\* The original query, unless it was an expansion.
AskOriginal(c) ==
    /\ SearchesDone(c) /\ stage[c] = "expansions"
    /\ stage' = [stage EXCEPT ![c] = "original"]
    /\ IF Original \in Range(Used)
       THEN UNCHANGED todo
       ELSE todo' = [todo EXCEPT ![c] =
               <<[query |-> Original, k |-> TopK, group |-> NotAsked]>>]
    /\ UNCHANGED <<boot, others, pc, client, entries, found, answer, quiet>>

\* expandPhaseChains: the two best groups with members that were not found.
ExpandGroups(c) ==
    /\ SearchesDone(c) /\ stage[c] = "original"
    /\ stage' = [stage EXCEPT ![c] = "groups"]
    /\ LET hits == ByScore(found[c])
       IN  /\ found' = [found EXCEPT ![c] = hits]
           /\ \E order \in GroupOrders(hits, Incomplete(hits)) :
                 todo' = [todo EXCEPT ![c] =
                     [i \in 1 .. Min({2, Len(order)}) |->
                         [query |-> order[i], group |-> order[i],
                          k |-> Head(Members(hits, order[i])).row.total]]]
    /\ UNCHANGED <<boot, others, pc, client, entries, answer, quiet>>

AssembleGroups(c) ==
    /\ SearchesDone(c) /\ stage[c] = "groups"
    /\ \E out \in Assemblies(found[c]) : found' = [found EXCEPT ![c] = out]
    /\ Goto(c, "rank")
    /\ UNCHANGED <<boot, others, stage, todo, client, entries, answer, quiet>>

Rank(c) ==
    /\ pc[c] = "rank"
    /\ Reply(c, "ok", Ranked(found[c], TopK))
    /\ UNCHANGED <<boot, others, stage, todo, client, entries, found, quiet>>

-----------------------------------------------------------------------------
(* The boot loops, see BootGate. *)

Retrigger ==
    /\ gate \in {"active", "dormant"}
    /\ gate' = "booting"
    /\ quiet' = [c \in Recalls |-> pc[c] \in {"idle", "done"}]
    /\ UNCHANGED <<wired, others, pc, stage, todo, client, entries, found, answer>>

InjectEnvector ==
    /\ gate = "booting"
    /\ wired + 1 \in Gens
    /\ wired' = wired + 1
    /\ UNCHANGED <<gate, others, pc, stage, todo, client, entries, found, answer, quiet>>

BootEnds ==
    /\ gate = "booting"
    /\ gate' \in {"active", "dormant"}
    /\ UNCHANGED <<wired, others, pc, stage, todo, client, entries, found, answer, quiet>>

\* A capture of this or another process: rows are only ever appended.
RowStored ==
    /\ \E r \in Coming \ Range(index[wired]) :
          index' = [index EXCEPT ![wired] = Append(@, r)]
    /\ UNCHANGED <<boot, roleTopK, infoHeld, pc, stage, todo, client, entries, found, answer,
                   quiet>>

\* infoCache.Get of another call, a capture for one, keeps the mutex until runed has
\* answered or failed, see EmbedderClient.  Bound: while a recall needs it.
OtherAsksInfo ==
    /\ ~infoHeld
    /\ \E c \in Recalls : pc[c] = "embed"
    /\ infoHeld' = TRUE
    /\ UNCHANGED <<boot, index, roleTopK, pc, stage, todo, client, entries, found, answer,
                   quiet>>

OtherHasInfo ==
    /\ infoHeld
    /\ infoHeld' = FALSE
    /\ UNCHANGED <<boot, index, roleTopK, pc, stage, todo, client, entries, found, answer,
                   quiet>>

-----------------------------------------------------------------------------
RecallContinues(c) ==
    \/ EmbedExpansions(c) \/ EmbedFails(c)
    \/ StartSearch(c) \/ Score(c) \/ DecryptScores(c) \/ TopKExceeded(c)
    \/ Resolve(c) \/ SearchFails(c)
    \/ AskOriginal(c) \/ ExpandGroups(c) \/ AssembleGroups(c) \/ Rank(c)

Next ==
    \/ \E c \in Recalls : Begin(c) \/ RecallContinues(c)
    \/ Retrigger \/ InjectEnvector \/ BootEnds \/ RowStored
    \/ OtherAsksInfo \/ OtherHasInfo

Spec == Init /\ [][Next]_vars

\* Every RPC a recall makes has a deadline.  The wait for the mutex has none: Go hands
\* a mutex that is given back to who has waited long enough (strong fairness), but
\* that runed answers who keeps it is not assumed.
FairSpec ==
    /\ Spec
    /\ \A c \in Recalls : WF_vars(RecallContinues(c))
    /\ \A c \in Recalls : SF_vars(EmbedExpansions(c) \/ EmbedFails(c))

-----------------------------------------------------------------------------
(* Properties. *)

\* No record is answered twice, whatever finds it: an expansion, the original
\* query or the search for the rest of its group, and although the index may hold
\* two rows of it (an earlier release's delete_capture added a reverted one).
RecordsAnsweredOnce ==
    \A c \in Recalls : \A i, j \in DOMAIN answer[c].hits :
        answer[c].hits[i].row.id = answer[c].hits[j].row.id => i = j

\* A hit carries its own score: the similarity of its record to a query that was
\* asked, although rows are filtered by their position between score and
\* metadata, and fields are decrypted one by one when the batch fails.  It is
\* what the index of the client in use holds if the gate stayed active.
ScoresAreGenuine ==
    \A c \in Recalls : pc[c] # "done" /\ quiet[c] => \A h \in Range(found[c]) :
        /\ h.row \in Range(index[wired])
        /\ \E q \in Queries : h.score = Sim[q][h.row.id]

\* The merge loop of assembleGroups puts every hit where its group or its score
\* puts it, loses none and doubles none.
AssembliesAreSound ==
    [][\A c \in Recalls :
          pc[c] = "search" /\ pc'[c] = "rank" => IsAssembly(found[c], found'[c])]_vars

\* The answer is the best of everything the searches found: no filter, no cut and
\* no order in between drops a better hit for a worse one.
BestAreAnswered ==
    \A c \in Recalls :
        answer[c].status = "ok" => IsBest(found[c], TopK, answer[c].hits)

\* A recall answers, however its searches fail and although the embedder's mutex is
\* taken again and again by calls before it.  It may hang with the call that keeps the
\* mutex if runed never answers that one, see TimedCallsEnd of EmbedderClient.
RecallReplies ==
    []<>~infoHeld => \A c \in Recalls : (pc[c] # "idle") ~> (pc[c] = "done")
=============================================================================
