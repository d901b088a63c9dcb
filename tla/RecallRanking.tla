--------------------------- MODULE RecallRanking ---------------------------
(***************************************************************************)
(* The pure part of recall (internal/service/recall.go, policy/rerank.go): *)
(* merging, grouping, assembling and ranking search hits.                  *)
(*                                                                         *)
(* A hit is a row of the index with the score of the search that found it. *)
(* Scores and decay are integers, Scale standing for 1.0.                  *)
(***************************************************************************)
EXTENDS Integers, Sequences, SequencesExt, FiniteSetsExt

\* "unknown" is what toSearchHit makes of a missing status, and stands for any other.
Statuses == {"accepted", "proposed", "superseded", "reverted", "unknown"}

CONSTANTS Ids,         \* record ids
          Groups,      \* group ids
          NoGroup,     \* the group of a standalone record
          Scale,       \* 1.0
          Age,         \* the decay of a record: 0.5 ^ (age in half-lives)
          Wanted,      \* the ids that pass the domain and date filters
          WantedStatus \* the statuses that pass the status filter

ASSUME RankingAssumption ==
    /\ NoGroup \notin Groups
    /\ Scale \in Nat \ {0}
    /\ Age \in [Ids -> 0 .. Scale]
    /\ Wanted \subseteq Ids /\ WantedStatus \subseteq Statuses

Forms == {"sealed", "plain", "garbled"}   \* see classifyMetadata

\* What the index holds for a record: toSearchHit's reading of the metadata, and
\* the form it is stored in.
Row == [id : Ids, group : Groups \union {NoGroup}, seq : Nat, total : Nat,
        status : Statuses, form : Forms]

Hit == [row : Row, score : Int]

-----------------------------------------------------------------------------
\* sort.SliceStable: the places that have a key, those of the greatest keys first.
Order(key) ==
    LET Before(i) == {j \in DOMAIN key : key[j] > key[i] \/ (key[j] = key[i] /\ j < i)}
    IN  [p \in 1 .. Cardinality(DOMAIN key) |->
            CHOOSE i \in DOMAIN key : Cardinality(Before(i)) = p - 1]

\* What is at these places, in that order.
Sorted(s, key) == LET order == Order(key) IN [p \in DOMAIN order |-> s[order[p]]]

\* What is at some places, in the order it has.
Kept(s, places) == Sorted(s, [i \in places |-> 0])

ByScore(hits) == Sorted(hits, [i \in DOMAIN hits |-> hits[i].score])

\* Fault: a hit is compared with the hits before it by its score, too.
MergedByScore(hits, more) ==
    hits \o Kept(more, {i \in DOMAIN more :
        more[i] \notin Range(hits) /\ \A j \in 1 .. i - 1 : more[j] # more[i]})

\* The hits of one more search: a record found before is not added again.
Merged(hits, more) ==
    hits \o Kept(more, {i \in DOMAIN more :
        /\ \A h \in Range(hits) : h.row.id # more[i].row.id
        /\ \A j \in 1 .. i - 1 : more[j].row.id # more[i].row.id})

GroupsOf(hits) == {h.row.group : h \in Range(hits)} \ {NoGroup}

\* The places of a group, or of the standalone hits.
PlacesOf(hits, g) == {i \in DOMAIN hits : hits[i].row.group = g}

Members(hits, g) == Kept(hits, PlacesOf(hits, g))

\* bestScore starts at zero.
Best(hits, g) == Max({0} \union {hits[i].score : i \in PlacesOf(hits, g)})

\* The groups in descending order of their best scores; a map is iterated, so
\* equal ones come in any order.
GroupOrders(hits, groups) ==
    {order \in SetToSeqs(groups) :
        \A i, j \in DOMAIN order : i < j => Best(hits, order[i]) >= Best(hits, order[j])}

\* expandPhaseChains: the groups some members of which were not found.
Incomplete(hits) ==
    {g \in GroupsOf(hits) :
        Head(Members(hits, g)).row.total > Len(Members(hits, g))}

\* What the merge loop compares: an exhausted list counts as -1.0.
GroupScore(hits, groups, gi) ==
    IF gi > Len(groups) THEN 0 - Scale ELSE Best(hits, groups[gi])
StandScore(alone, si) == IF si > Len(alone) THEN 0 - Scale ELSE alone[si].score

Phases(hits, g) == Sorted(hits, [i \in PlacesOf(hits, g) |-> 0 - hits[i].row.seq])

Standalone(hits) == Sorted(hits, [i \in PlacesOf(hits, NoGroup) |-> hits[i].score])

\* One turn of the merge loop with what the turns after it append: it takes a group or
\* a standalone hit.
Turn(hits, groups, alone, at, rest) ==
    LET gi == at[1]
        si == at[2]
    IN  IF GroupScore(hits, groups, gi) >= StandScore(alone, si)
        THEN Phases(hits, groups[gi]) \o rest[<<gi + 1, si>>]
        ELSE <<alone[si]>> \o rest[<<gi, si + 1>>]

\* Fault: the loop ends with the first list.
InterleavedShort(hits, groups, alone) ==
    LET rest[at \in (1 .. Len(groups) + 1) \X (1 .. Len(alone) + 1)] ==
            IF at[1] > Len(groups) \/ at[2] > Len(alone) THEN <<>>
            ELSE Turn(hits, groups, alone, at, rest)
    IN  rest[<<1, 1>>]

\* The merge loop of assembleGroups, from a group and a standalone hit on.
Interleaved(hits, groups, alone) ==
    LET rest[at \in (1 .. Len(groups) + 1) \X (1 .. Len(alone) + 1)] ==
            IF at[1] > Len(groups) /\ at[2] > Len(alone) THEN <<>>
            ELSE Turn(hits, groups, alone, at, rest)
    IN  rest[<<1, 1>>]

\* assembleGroups, for every order of equal groups.
Assemblies(hits) ==
    {Interleaved(hits, order, Standalone(hits)) : order \in GroupOrders(hits, GroupsOf(hits))}

\* StatusMultiplier in tenths; a status it does not know weighs 1.0.
Multiplier(status) ==
    CASE status = "accepted"   -> 10
      [] status = "proposed"   -> 9
      [] status = "superseded" -> 5
      [] status = "reverted"   -> 3
      [] OTHER                 -> 10

\* adjusted_score, in hundredths of a Scale.
AdjustedScore(h) == (7 * h.score + 3 * Age[h.row.id]) * Multiplier(h.row.status)

\* applyMetadataFilters and FilterByTime.
Passes(h) == h.row.id \in Wanted /\ h.row.status \in WantedStatus

\* Fault: the hits are cut before they are weighted.
CutThenRanked(hits, k) ==
    LET wanted == Kept(hits, {i \in DOMAIN hits : Passes(hits[i])})
        cut    == SubSeq(wanted, 1, Min({k, Len(wanted)}))
    IN  Sorted(cut, [i \in DOMAIN cut |-> AdjustedScore(cut[i])])

\* The filters, ApplyRecencyWeighting and the cut.
Ranked(hits, k) ==
    LET places == {i \in DOMAIN hits : Passes(hits[i])}
        wanted == Sorted(hits, [i \in places |-> AdjustedScore(hits[i])])
    IN  SubSeq(wanted, 1, Min({k, Len(wanted)}))

-----------------------------------------------------------------------------
(* What they are to compute. *)

\* The score that decides the place of a hit: that of its group, if it has one.
Standing(hits, h) == IF h.row.group = NoGroup THEN h.score ELSE Best(hits, h.row.group)

\* An assembly holds the same hits, members of a group side by side in the order
\* of their phases, and the whole in descending order of standing.
IsAssembly(hits, out) ==
    /\ Len(out) = Len(hits) /\ Range(out) = Range(hits)
    /\ \A i, j \in DOMAIN out :
          i < j =>
             /\ Standing(hits, out[i]) >= Standing(hits, out[j])
             /\ out[i].row.group = out[j].row.group /\ out[i].row.group # NoGroup =>
                   /\ out[i].row.seq <= out[j].row.seq
                   /\ \A k \in i .. j : out[k].row.group = out[i].row.group

\* The best k wanted hits, best first.
IsBest(hits, k, out) ==
    LET wanted == {h \in Range(hits) : Passes(h)}
    IN  /\ Range(out) \subseteq wanted
        /\ Len(out) = Min({k, Cardinality(wanted)})
        /\ \A i, j \in DOMAIN out : i < j => AdjustedScore(out[i]) >= AdjustedScore(out[j])
        /\ \A h \in wanted \ Range(out) : \A i \in DOMAIN out :
              AdjustedScore(out[i]) >= AdjustedScore(h)
=============================================================================
