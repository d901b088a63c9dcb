------------------------ MODULE RecordBuilderProofs ------------------------
(***************************************************************************)
(* Theorems of RecordBuilder, for any items, texts and classes of texts.   *)
(*                                                                         *)
(* The state says little; what is proved is what the builder makes of an   *)
(* item it accepts (RecordsAreBuilt).  Every record goes through           *)
(* Consistent (RecordFacts).  A group has one record for each object among *)
(* the first elements of its phases (ReadFacts), so that its total is its  *)
(* number.  That an item without a text says something follows what        *)
(* HasContent found to the field it is rendered from.                      *)
(***************************************************************************)
EXTENDS RecordBuilder, FiniteSetTheorems, FunctionTheorems, TLAPS

\* What a behaviour has built.
RecordsAreBuilt ==
    /\ item \in Items /\ text \in RawTexts
    /\ outcome \in {"received", "rejected", "failed", "built"}
    /\ outcome # "built" => records = <<>>
    /\ outcome = "built" =>
          /\ Accepted
          /\ \/ /\ Len(item.phases) <= 1
                /\ records = <<BuildSingle(Extraction, Redacted[text])>>
             \/ /\ Len(item.phases) > 1 /\ Len(Extraction.phases) > 1
                /\ records = BuildMulti(item, Extraction, Redacted[text])

LEMMA RecordsAreBuiltHolds == Spec => []RecordsAreBuilt
<1>1. Init => RecordsAreBuilt
  BY DEF Init, RecordsAreBuilt
<1>2. RecordsAreBuilt /\ [Next]_vars => RecordsAreBuilt'
  <2> SUFFICES ASSUME RecordsAreBuilt, [Next]_vars
               PROVE  RecordsAreBuilt'
    OBVIOUS
  <2> USE DEF RecordsAreBuilt, Accepted, Extraction
  <2>1. CASE RejectItem
    BY <2>1 DEF RejectItem
  <2>2. CASE BuildFails
    BY <2>2 DEF BuildFails
  <2>3. CASE BuildPhases
    <3>1. Len(Parse(item).phases) > 1 => Len(item.phases) > 1
      <4>1. Len(item.phases) \in Nat
        BY RecordAssumption
      <4>2. ~(Len(item.phases) > 1) => Len(Parse(item).phases) = 0
        BY DEF Parse
      <4> QED
        BY <4>1, <4>2
    <3> QED
      BY <2>3, <3>1 DEF BuildPhases
  <2>4. CASE UNCHANGED vars
    BY <2>4 DEF vars
  <2> QED
    BY <2>1, <2>2, <2>3, <2>4 DEF Next
<1> QED
  BY <1>1, <1>2, PTL DEF Spec

-----------------------------------------------------------------------------
(* Reading phases. *)

\* Of n numbers the k-th is where k - 1 of them are smaller, for each k to n.
LEMMA Places ==
    ASSUME NEW n \in Nat, NEW S \in SUBSET (1 .. n)
    PROVE  /\ Cardinality(S) \in Nat /\ Cardinality(S) <= n
           /\ \A k \in 1 .. Cardinality(S) : \E i \in S : Cardinality({j \in S : j < i}) = k - 1
<1> DEFINE before(i) == {j \in S : j < i}
           size == Cardinality(S)
           rank == [i \in S |-> Cardinality(before(i)) + 1]
<1>1. IsFiniteSet(S) /\ size \in Nat /\ size <= n
  <2>1. IsFiniteSet(1 .. n) /\ Cardinality(1 .. n) = n
    BY FS_Interval
  <2>2. IsFiniteSet(S) /\ size <= n
    BY <2>1, FS_Subset
  <2> QED
    BY <2>2, FS_CardinalityType
<1>2. ASSUME NEW i \in S
      PROVE  /\ IsFiniteSet(before(i)) /\ Cardinality(before(i)) \in Nat
             /\ Cardinality(before(i)) < size
  <2>1. before(i) \in SUBSET S /\ before(i) # S
    <3>1. i \in Int /\ i \notin before(i)
      OBVIOUS
    <3> QED
      BY <3>1
  <2> QED
    BY <1>1, <2>1, FS_Subset, FS_CardinalityType
<1>3. ASSUME NEW i \in S, NEW j \in S, i < j
      PROVE  Cardinality(before(i)) < Cardinality(before(j))
  <2>1. S \subseteq Int /\ i \in Int /\ j \in Int
    OBVIOUS
  <2>2. before(i) \in SUBSET before(j) /\ i \in before(j) /\ i \notin before(i)
    <3>1. ASSUME NEW h \in S, h < i PROVE h < j
      BY <1>3, <2>1, <3>1
    <3>2. ~(i < i)
      BY <2>1
    <3> QED
      BY <1>3, <3>1, <3>2
  <2> HIDE DEF before
  <2> QED
    BY <1>2, <2>2, FS_Subset
<1> HIDE DEF before, size
<1>4. rank \in [S -> 1 .. size]
  BY <1>1, <1>2
<1>5. ASSUME NEW i \in S, NEW j \in S, rank[i] = rank[j] PROVE i = j
  <2>1. Cardinality(before(i)) = Cardinality(before(j))
    BY <1>2, <1>5
  <2>2. ~(i < j) /\ ~(j < i)
    BY <1>2, <1>3, <2>1
  <2> QED
    BY <2>2
<1> HIDE DEF rank
<1>6. rank \in Injection(S, 1 .. size)
  BY <1>4, <1>5, Fun_IsInj
<1>7. rank \in Surjection(S, 1 .. size)
  <2>1. IsFiniteSet(1 .. size) /\ Cardinality(1 .. size) = size
    BY <1>1, FS_Interval
  <2> QED
    BY <1>6, <2>1, FS_Injection DEF size
<1>8. ASSUME NEW k \in 1 .. size PROVE \E i \in S : Cardinality(before(i)) = k - 1
  <2>1. PICK i \in S : rank[i] = k
    BY <1>7 DEF Surjection
  <2> QED
    BY <1>2, <2>1 DEF rank
<1> QED
  BY <1>1, <1>8 DEF size, before

LEMMA ReadFacts ==
    ASSUME NEW phases, NEW T, phases \in Seq(T), NEW most \in Nat
    PROVE  /\ Read(phases, most) \in Seq(ToSet(phases) \ {NotObject})
           /\ Len(Read(phases, most)) \in Nat /\ Len(Read(phases, most)) <= most
<1> DEFINE objects == {i \in DOMAIN phases : i <= most /\ phases[i] # NotObject}
           Place(k) == CHOOSE i \in objects : Cardinality({j \in objects : j < i}) = k - 1
           size == Cardinality(objects)
<1>1. objects \in SUBSET (1 .. most)
  OBVIOUS
<1>2. /\ size \in Nat /\ size <= most
      /\ \A k \in 1 .. size : Place(k) \in objects
  <2> HIDE DEF objects
  <2> QED
    BY <1>1, Places
<1>3. \A i \in objects : phases[i] \in ToSet(phases) \ {NotObject}
  BY DEF ToSet
<1>4. Read(phases, most) = [k \in 1 .. size |-> phases[Place(k)]]
  BY DEF Read
<1> HIDE DEF objects, Place, size
<1> QED
  BY <1>2, <1>3, <1>4

-----------------------------------------------------------------------------
(* One record. *)

LEMMA StatusIsKnown ==
    ASSUME NEW hint, NEW evidence, NEW clean
    PROVE  StatusFromHint(hint, evidence, clean) \in {"proposed", "accepted"}
BY DEF StatusFromHint

LEMMA EvidenceIsKnown ==
    ASSUME NEW clean
    PROVE  ExtractEvidence(clean) \in SUBSET {"quote", "paraphrase"}
BY DEF ExtractEvidence

\* A status without evidence and a certainty without its grounds do not get through.
Backed(r) ==
    /\ r.status \in {"proposed", "accepted"}
    /\ r.certainty \in {"supported", "partially_supported", "unknown"}
    /\ r.evidence \in SUBSET {"quote", "paraphrase"}
    /\ r.status = "accepted" => r.evidence # {}
    /\ r.certainty = "supported" => "quote" \in r.evidence /\ r.rationale # NoText

LEMMA RecordFacts ==
    ASSUME NEW id, NEW title, NEW what, NEW fields, NEW status \in {"proposed", "accepted"},
           NEW clean, NEW insight
    PROVE  LET r == Record(id, title, what, fields, status, clean, insight) IN
           /\ Backed(r)
           /\ r = [id |-> id, title |-> title, what |-> what, problem |-> fields.problem,
                   rationale |-> fields.rationale, options |-> fields.options,
                   evidence |-> r.evidence, certainty |-> r.certainty, status |-> r.status,
                   insight |-> insight, group |-> NoText, seq |-> 0, total |-> 0]
<1> DEFINE evidence == ExtractEvidence(clean)
           sure == DetermineCertainty(evidence, fields.rationale)
           raw == [id |-> id, title |-> title, what |-> what, problem |-> fields.problem,
                   rationale |-> fields.rationale, options |-> fields.options,
                   evidence |-> evidence, certainty |-> sure, status |-> status,
                   insight |-> insight, group |-> NoText, seq |-> 0, total |-> 0]
           r == Consistent(raw)
<1>1. evidence \in SUBSET {"quote", "paraphrase"}
  BY EvidenceIsKnown
<1>2. /\ sure \in {"supported", "partially_supported", "unknown"}
      /\ sure = "supported" => "quote" \in evidence /\ fields.rationale # NoText
  BY DEF DetermineCertainty
<1>3. Record(id, title, what, fields, status, clean, insight) = r
  BY DEF Record
<1> HIDE DEF evidence, sure
<1>4. r = [raw EXCEPT
              !.certainty = IF sure = "supported" /\ evidence = {} THEN "unknown" ELSE sure,
              !.status = IF status = "accepted" /\ evidence = {} THEN "proposed" ELSE status]
  BY DEF Consistent
<1>5. r = [id |-> id, title |-> title, what |-> what, problem |-> fields.problem,
           rationale |-> fields.rationale, options |-> fields.options, evidence |-> evidence,
           certainty |-> IF sure = "supported" /\ evidence = {} THEN "unknown" ELSE sure,
           status |-> IF status = "accepted" /\ evidence = {} THEN "proposed" ELSE status,
           insight |-> insight, group |-> NoText, seq |-> 0, total |-> 0]
  BY <1>4
<1> HIDE DEF raw, r
<1>6. /\ r.evidence = evidence
      /\ r.rationale = fields.rationale
      /\ r.certainty = IF sure = "supported" /\ evidence = {} THEN "unknown" ELSE sure
      /\ r.status = IF status = "accepted" /\ evidence = {} THEN "proposed" ELSE status
  BY <1>5
<1>7. Backed(r)
  BY <1>1, <1>2, <1>6 DEF Backed
<1> QED
  BY <1>3, <1>5, <1>6, <1>7

\* What a record renders: its fields are the ones it was built from.
Shows(r, f) ==
    /\ f.title # NoText => r.title = f.title
    /\ r.problem = f.problem /\ r.rationale = f.rationale /\ r.options = f.options

LEMMA SingleFacts ==
    ASSUME NEW e, NEW clean
    PROVE  LET r == BuildSingle(e, clean) IN
           Backed(r) /\ Shows(r, e.single) /\ r.insight = e.summary
<1> DEFINE f == e.single
           title == Or(f.title,
                       ExtractTitle(FirstNonEmpty(<<clean, e.summary, f.rationale, f.problem>>)))
           status == StatusFromHint(f.hint, ExtractEvidence(clean), clean)
           r == Record(<<Slug[title]>>, title, clean, f, status, clean, e.summary)
<1>1. BuildSingle(e, clean) = r
  BY DEF BuildSingle
<1>2. f.title # NoText => title = f.title
  BY DEF Or
<1>3. status \in {"proposed", "accepted"}
  BY StatusIsKnown
<1> HIDE DEF title, status
<1>4. /\ Backed(r)
      /\ r.title = title /\ r.insight = e.summary
      /\ r.problem = f.problem /\ r.rationale = f.rationale /\ r.options = f.options
  <2> DEFINE id == <<Slug[title]>>
  <2> HIDE DEF id, f
  <2>1. /\ Backed(r)
        /\ r = [id |-> id, title |-> title, what |-> clean, problem |-> f.problem,
                rationale |-> f.rationale, options |-> f.options, evidence |-> r.evidence,
                certainty |-> r.certainty, status |-> r.status, insight |-> e.summary,
                group |-> NoText, seq |-> 0, total |-> 0]
    BY <1>3, RecordFacts DEF id
  <2> HIDE DEF r
  <2> QED
    BY <2>1
<1> HIDE DEF r
<1> QED
  BY <1>1, <1>2, <1>4 DEF Shows

LEMMA PhaseFacts ==
    ASSUME NEW x, NEW e, NEW clean, NEW k
    PROVE  LET r == BuildPhase(x, e, clean, k) IN
           /\ Backed(r) /\ Shows(r, e.phases[k])
           /\ r.what = e.phases[k].decision /\ r.insight = e.summary
           /\ r.id[3] = k - 1 /\ r.seq = k - 1 /\ r.total = PhaseTotal(x)
           /\ r.group = <<"grp", Slug[GroupTitle(e, clean)]>>
<1> DEFINE p == e.phases[k]
           title == Or(p.title, PhaseNames[k])
           id == PhaseId(title, Or(e.type, "phase_chain"), k)
           status == StatusFromHint(e.hint, ExtractEvidence(clean), clean)
           r == Record(id, title, p.decision, p, status, clean, e.summary)
           group == <<"grp", Slug[GroupTitle(e, clean)]>>
           total == PhaseTotal(x)
           place == k - 1
           b == [r EXCEPT !.group = group, !.seq = place, !.total = total]
<1>1. BuildPhase(x, e, clean, k) = b
  BY DEF BuildPhase
<1>2. (p.title # NoText => title = p.title) /\ id[3] = k - 1
  BY DEF Or, PhaseId
<1>3. status \in {"proposed", "accepted"}
  BY StatusIsKnown
<1> HIDE DEF title, status, id, p, group, total, place
<1>4. /\ Backed(r)
      /\ r = [id |-> id, title |-> title, what |-> p.decision, problem |-> p.problem,
              rationale |-> p.rationale, options |-> p.options, evidence |-> r.evidence,
              certainty |-> r.certainty, status |-> r.status, insight |-> e.summary,
              group |-> NoText, seq |-> 0, total |-> 0]
  BY <1>3, RecordFacts
<1>5. /\ b.title = title /\ b.what = p.decision /\ b.insight = e.summary /\ b.id = id
      /\ b.problem = p.problem /\ b.rationale = p.rationale /\ b.options = p.options
      /\ b.evidence = r.evidence /\ b.certainty = r.certainty /\ b.status = r.status
      /\ b.seq = place /\ b.total = total /\ b.group = group
  <2> DEFINE ev == r.evidence
             ce == r.certainty
             st == r.status
  <2>1. r = [id |-> id, title |-> title, what |-> p.decision, problem |-> p.problem,
             rationale |-> p.rationale, options |-> p.options, evidence |-> ev,
             certainty |-> ce, status |-> st, insight |-> e.summary,
             group |-> NoText, seq |-> 0, total |-> 0]
    BY <1>4
  <2> HIDE DEF r, ev, ce, st
  <2>2. b.evidence = ev /\ b.certainty = ce /\ b.status = st
    BY <2>1
  <2> QED
    BY <2>1, <2>2 DEF ev, ce, st
<1>6. r.rationale = p.rationale
  <2> HIDE DEF r
  <2> QED
    BY <1>4
<1> HIDE DEF r, b
<1>7. Backed(b)
  BY <1>4, <1>5, <1>6 DEF Backed
<1> QED
  BY <1>1, <1>2, <1>5, <1>7 DEF Shows, p, group, total, place

-----------------------------------------------------------------------------
(* All records of an item. *)

LEMMA ObjectsFacts ==
    ASSUME NEW x \in Items
    PROVE  /\ Len(x.phases) \in Nat /\ x.phases \in Seq(ToSet(x.phases))
           /\ Objects(x) \in Seq(ToSet(x.phases) \ {NotObject})
           /\ Len(Objects(x)) \in Nat /\ Len(Objects(x)) <= MaxPhases
           /\ DOMAIN Objects(x) = 1 .. Len(Objects(x))
<1> DEFINE phases == x.phases
<1>1. phases \in Seq(ToSet(phases)) /\ MaxPhases \in Nat
  BY RecordAssumption
<1> HIDE DEF phases
<1>2. /\ Read(phases, MaxPhases) \in Seq(ToSet(phases) \ {NotObject})
      /\ Len(Read(phases, MaxPhases)) \in Nat /\ Len(Read(phases, MaxPhases)) <= MaxPhases
  BY <1>1, ReadFacts
<1>3. Len(phases) \in Nat
  BY <1>1
<1> QED
  BY <1>1, <1>2, <1>3 DEF Objects, phases

\* A group, if there are several records: one for each object that was kept.
IsGroup ==
    /\ Len(item.phases) > 1
    /\ Len(records) > 1 /\ Len(records) = Len(Objects(item))
    /\ \A k \in DOMAIN records : records[k] = BuildPhase(item, Extraction, Redacted[text], k)

\* One record, from the fields of the item or of its only phase.
IsSingle ==
    /\ ~(Len(item.phases) > 1)
    /\ Len(records) = 1
    /\ records[1] = BuildSingle(Extraction, Redacted[text])

LEMMA BuiltFacts ==
    ASSUME RecordsAreBuilt
    PROVE  /\ DOMAIN records = 1 .. Len(records)
           /\ Len(records) \in Nat /\ Len(records) <= MaxPhases
           /\ outcome = "built" => Accepted /\ (IsSingle \/ IsGroup)
           /\ outcome # "built" => Len(records) = 0
           /\ \A r \in Built : Backed(r)
<1> USE DEF RecordsAreBuilt
<1>1. MaxPhases \in Nat \ {0}
  BY RecordAssumption
<1>2. CASE outcome # "built"
  BY <1>1, <1>2 DEF Built, ToSet
<1>3. CASE outcome = "built" /\ ~(Len(item.phases) > 1)
  <2> DEFINE r == BuildSingle(Extraction, Redacted[text])
  <2>1. records = <<r>>
    BY <1>3, ObjectsFacts
  <2>2. Backed(r)
    BY SingleFacts
  <2> HIDE DEF r
  <2>3. Len(records) = 1 /\ DOMAIN records = 1 .. 1 /\ records[1] = r /\ Built = {r}
    BY <2>1 DEF Built, ToSet
  <2> QED
    BY <1>1, <1>3, <2>2, <2>3 DEF IsSingle, r
<1>4. CASE outcome = "built" /\ Len(item.phases) > 1
  <2> DEFINE phase(k) == BuildPhase(item, Extraction, Redacted[text], k)
             kept == Objects(item)
  <2>1. Extraction.phases = kept
    BY <1>4 DEF Extraction, Parse
  <2>2. records = [k \in DOMAIN kept |-> phase(k)]
    <3>1. records = BuildMulti(item, Extraction, Redacted[text])
      BY <1>4, ObjectsFacts
    <3> QED
      BY <2>1, <3>1 DEF BuildMulti
  <2>3. \A k : Backed(phase(k))
    BY PhaseFacts
  <2>4. Len(kept) \in Nat /\ Len(kept) <= MaxPhases /\ DOMAIN kept = 1 .. Len(kept)
    BY ObjectsFacts
  <2> HIDE DEF phase, kept
  <2>5. Len(records) = Len(kept) /\ DOMAIN records = 1 .. Len(kept)
    BY <2>2, <2>4
  <2>6. \A k \in DOMAIN records : records[k] = phase(k)
    BY <2>2, <2>4
  <2>7. \A r \in Built : Backed(r)
    BY <2>3, <2>6 DEF Built, ToSet
  <2>8. Len(kept) > 1
    BY <1>4, <2>1, ObjectsFacts
  <2>9. IsGroup
    BY <1>4, <2>5, <2>6, <2>8 DEF IsGroup, phase, kept
  <2> QED
    BY <1>4, <2>4, <2>5, <2>7, <2>9
<1> QED
  BY <1>2, <1>3, <1>4

\* The state keeps its types; in particular an item never makes more records than
\* maxPhases, whatever number of phases the agent sent.
THEOREM RecordsTypeCorrect == Spec => []TypeOK
<1>1. RecordsAreBuilt => TypeOK
  <2> SUFFICES ASSUME RecordsAreBuilt PROVE TypeOK
    OBVIOUS
  <2> QED
    BY BuiltFacts DEF TypeOK, RecordsAreBuilt, Built, Backed
<1> QED
  BY <1>1, RecordsAreBuiltHolds, PTL

\* No record claims more than it carries, whatever hint the agent sent and whatever the
\* texts are: the consistency check of buildSingle and buildPhase is the last word.
THEOREM ClaimsStayBacked == Spec => []ClaimsAreBacked
<1>1. RecordsAreBuilt => ClaimsAreBacked
  <2> SUFFICES ASSUME RecordsAreBuilt PROVE ClaimsAreBacked
    OBVIOUS
  <2> QED
    BY BuiltFacts DEF ClaimsAreBacked, Backed
<1> QED
  BY <1>1, RecordsAreBuiltHolds, PTL

\* A record of a group knows its place, its group and how many there are.
LEMMA GroupFacts ==
    ASSUME RecordsAreBuilt, Len(records) > 1
    PROVE  \A k \in 1 .. Len(records) :
              /\ records[k].seq = k - 1 /\ records[k].id[3] = k - 1
              /\ records[k].total = Len(records)
              /\ records[k].group = <<"grp", Slug[GroupTitle(Extraction, Redacted[text])]>>
<1>1. IsGroup
  <2>1. outcome = "built"
    BY BuiltFacts
  <2>2. Len(records) # 1
    BY BuiltFacts
  <2> QED
    BY <2>1, <2>2, BuiltFacts DEF IsSingle
<1>2. PhaseTotal(item) = Len(records)
  BY <1>1 DEF PhaseTotal, IsGroup
<1>3. ASSUME NEW k \in 1 .. Len(records)
      PROVE  records[k] = BuildPhase(item, Extraction, Redacted[text], k)
  BY <1>1, BuiltFacts DEF IsGroup
<1> QED
  BY <1>2, <1>3, PhaseFacts

LEMMA IdsDiffer ==
    ASSUME RecordsAreBuilt
    PROVE  IdsAreDistinct
<1> DEFINE n == Len(records)
           ids == {r.id : r \in Built}
<1>1. n \in Nat /\ DOMAIN records = 1 .. n
  BY BuiltFacts
<1>2. Built = {records[k] : k \in 1 .. n}
  BY <1>1 DEF Built, ToSet
<1>3. CASE n = 0
  BY <1>2, <1>3, FS_EmptySet DEF IdsAreDistinct
<1>4. CASE n = 1
  <2>1. ids = {records[1].id}
    BY <1>2, <1>4
  <2> QED
    BY <1>4, <2>1, FS_Singleton DEF IdsAreDistinct
<1>5. CASE n > 1
  <2> DEFINE f == [k \in 1 .. n |-> records[k].id]
  <2>1. \A k \in 1 .. n : records[k].id[3] = k - 1
    BY <1>5, GroupFacts
  <2>2. ids = {records[k].id : k \in 1 .. n}
    BY <1>2
  <2> HIDE DEF n, ids
  <2>3. f \in [1 .. n -> ids]
    BY <2>2
  <2>4. \A a, b \in 1 .. n : f[a] = f[b] => a = b
    <3>1. ASSUME NEW a \in 1 .. n, NEW b \in 1 .. n, f[a] = f[b] PROVE a = b
      <4>1. a - 1 = b - 1
        BY <2>1, <3>1
      <4> QED
        BY <1>1, <4>1
    <3> QED
      BY <3>1
  <2>5. \A t \in ids : \E k \in 1 .. n : f[k] = t
    BY <2>2
  <2> HIDE DEF f
  <2>6. f \in Bijection(1 .. n, ids)
    BY <2>3, <2>4, <2>5, Fun_IsBij
  <2>7. ExistsBijection(1 .. n, ids)
    BY <2>6 DEF ExistsBijection
  <2>8. Cardinality(ids) = n
    BY <1>1, <2>7, FS_CountingElements
  <2> QED
    BY <2>8 DEF IdsAreDistinct, ids, n
<1> QED
  BY <1>1, <1>3, <1>4, <1>5

\* A recall that meets one record of a group can ask for the others and tell them
\* apart: they carry one group id, positions from 0 and the number that is stored as
\* their total, and ids that end in the position, although phases were cut off or
\* passed over and titles agree.
THEOREM GroupsCanBeRecalled == Spec => []GroupCanBeRecalled
<1>1. RecordsAreBuilt => GroupCanBeRecalled
  <2> SUFFICES ASSUME RecordsAreBuilt PROVE GroupIsWhole
    BY IdsDiffer DEF GroupCanBeRecalled
  <2> SUFFICES ASSUME Len(records) > 1
               PROVE  /\ \A r, s \in Built : r.group = s.group
                      /\ {r.seq : r \in Built} = 0 .. Len(records) - 1
                      /\ \A r \in Built : r.total = Len(records)
    BY DEF GroupIsWhole
  <2> DEFINE n == Len(records)
  <2>1. n \in Nat /\ Built = {records[k] : k \in 1 .. n}
    BY BuiltFacts DEF Built, ToSet
  <2>2. \A k \in 1 .. n : records[k].seq = k - 1 /\ records[k].total = n
    BY GroupFacts
  <2>3. \A k, l \in 1 .. n : records[k].group = records[l].group
    BY GroupFacts
  <2> HIDE DEF n
  <2>4. {r.seq : r \in Built} = {k - 1 : k \in 1 .. n}
    BY <2>1, <2>2
  <2>5. {k - 1 : k \in 1 .. n} = 0 .. n - 1
    <3>1. ASSUME NEW i \in 0 .. n - 1 PROVE i + 1 \in 1 .. n /\ i = (i + 1) - 1
      BY <2>1
    <3>2. ASSUME NEW k \in 1 .. n PROVE k - 1 \in 0 .. n - 1
      BY <2>1
    <3> QED
      BY <3>1, <3>2
  <2> QED
    BY <2>1, <2>2, <2>3, <2>4, <2>5 DEF n
<1> QED
  BY <1>1, RecordsAreBuiltHolds, PTL

-----------------------------------------------------------------------------
(* What is embedded. *)

\* The fields of the item or of a phase that every record shows.
Fields(f) == ({f.title, f.rationale, f.problem} \ {NoText}) \union f.options

LEMMA FieldsAreRendered ==
    ASSUME NEW r, NEW f, Shows(r, f)
    PROVE  /\ Fields(f) \subseteq RenderPayloadText(r)
           /\ r.what # NoText => r.what \in RenderPayloadText(r)
<1>1. f.title # NoText => f.title \in RenderPayloadText(r)
  BY DEF Shows, RenderPayloadText
<1>2. f.rationale # NoText => f.rationale \in RenderPayloadText(r)
  BY DEF Shows, RenderPayloadText
<1>3. f.problem # NoText => f.problem \in RenderPayloadText(r)
  BY DEF Shows, RenderPayloadText
<1>4. f.options \subseteq RenderPayloadText(r)
  BY DEF Shows, RenderPayloadText
<1>5. r.what # NoText => r.what \in RenderPayloadText(r)
  BY DEF RenderPayloadText
<1> QED
  BY <1>1, <1>2, <1>3, <1>4, <1>5 DEF Fields

\* The fields of a single record are the item's or those of its phase.
LEMMA SingleIsSaid ==
    ASSUME item \in Items
    PROVE  Fields(Single(item)) \subseteq Said
<1> DEFINE x == item
           values(o) == ({o.title, o.rationale, o.problem} \ {NoText}) \union o.options
<1>1. values(x) \subseteq Said
  BY DEF Said, Values
<1>2. CASE x.phases = <<>>
  <2>1. /\ Single(x).title = x.title /\ Single(x).rationale = x.rationale
        /\ Single(x).problem = x.problem /\ Single(x).options = x.options
    BY <1>2 DEF Single
  <2> QED
    BY <1>1, <2>1 DEF Fields
<1>3. CASE x.phases # <<>> /\ x.phases[1] = NotObject
  <2>1. Single(x) = NoFields
    BY <1>3 DEF Single
  <2> QED
    BY <2>1 DEF NoFields, Fields
<1>4. CASE x.phases # <<>> /\ x.phases[1] # NotObject
  <2> DEFINE p == x.phases[1]
  <2>1. p \in ToSet(x.phases) \ {NotObject}
    <3> DEFINE phases == x.phases
               T == ToSet(x.phases)
    <3>1. phases \in Seq(T) /\ phases # <<>>
      BY <1>4, ObjectsFacts
    <3> HIDE DEF phases, T
    <3>2. phases[1] \in T
      BY <3>1
    <3> QED
      BY <1>4, <3>2 DEF phases, T
  <2>2. values(p) \subseteq Said
    BY <2>1 DEF Said, Values
  <2>3. /\ Single(x).title = Or(p.title, x.title)
        /\ Single(x).rationale = Or(p.rationale, x.rationale)
        /\ Single(x).problem = Or(p.problem, x.problem) /\ Single(x).options = p.options
    BY <1>4 DEF Single
  <2>4. \A a, b : Or(a, b) \in {a, b}
    BY DEF Or
  <2> HIDE DEF p
  <2>5. Single(x).title # NoText => Single(x).title \in Said
    BY <1>1, <2>2, <2>3, <2>4
  <2>6. Single(x).rationale # NoText => Single(x).rationale \in Said
    BY <1>1, <2>2, <2>3, <2>4
  <2>7. Single(x).problem # NoText => Single(x).problem \in Said
    BY <1>1, <2>2, <2>3, <2>4
  <2>8. Single(x).options \subseteq Said
    BY <2>2, <2>3
  <2> QED
    BY <2>5, <2>6, <2>7, <2>8 DEF Fields
<1> QED
  BY <1>2, <1>3, <1>4

\* A single record is embedded by the insight or, for want of one, by its fields.
LEMMA SingleSaysSomething ==
    ASSUME item \in Items, IsSingle, HasContent(Extraction)
    PROVE  \E r \in Built : PickEmbedText(r) \intersect Said # {}
<1> DEFINE e == Extraction
           r == records[1]
<1>1. /\ e.title = Single(item).title /\ e.summary = item.reusable_insight
      /\ e.single = Single(item) /\ e.phases = <<>>
  BY DEF Extraction, Parse, IsSingle
<1>2. Shows(r, e.single) /\ r.insight = e.summary
  BY SingleFacts DEF IsSingle
<1>3. r \in Built
  BY DEF Built, ToSet, IsSingle
<1>4. HasContent(e)
  OBVIOUS
<1> HIDE DEF e, r
<1>5. CASE e.summary # NoText
  <2>1. e.summary \in PickEmbedText(r)
    BY <1>2, <1>5 DEF PickEmbedText
  <2>2. e.summary \in Said
    BY <1>1, <1>5 DEF Said
  <2> QED
    BY <1>3, <2>1, <2>2
<1>6. CASE e.summary = NoText
  <2>1. PickEmbedText(r) = RenderPayloadText(r)
    BY <1>2, <1>6 DEF PickEmbedText
  <2>2. Fields(e.single) # {}
    <3>1. ToSet(e.phases) = {}
      BY <1>1 DEF ToSet
    <3>2. \/ e.single.title # NoText \/ e.single.rationale # NoText
          \/ e.single.problem # NoText \/ e.single.options # {}
      BY <1>1, <1>4, <1>6, <3>1 DEF HasContent
    <3> QED
      BY <3>2 DEF Fields
  <2>3. PICK v : v \in Fields(e.single)
    BY <2>2
  <2>4. v \in PickEmbedText(r)
    BY <1>2, <2>1, <2>3, FieldsAreRendered
  <2>5. v \in Said
    BY <1>1, <2>3, SingleIsSaid
  <2> QED
    BY <1>3, <2>4, <2>5
<1> QED
  BY <1>5, <1>6

LEMMA InSeq == ASSUME NEW T, NEW s \in Seq(T), NEW k \in DOMAIN s PROVE s[k] \in T
OBVIOUS

\* A group is embedded by the insight, by its title or by the fields of each phase.
LEMMA GroupSaysSomething ==
    ASSUME item \in Items, IsGroup, DOMAIN records = 1 .. Len(records), Len(records) \in Nat,
           HasContent(Extraction)
    PROVE  \E r \in Built : PickEmbedText(r) \intersect Said # {}
<1> DEFINE e == Extraction
           n == Len(records)
<1>1. /\ e.title = item.group_title
      /\ e.summary = Or(item.reusable_insight, item.group_title)
      /\ e.single = NoFields /\ e.phases = Objects(item)
  BY DEF Extraction, Parse, IsGroup
<1>2. \A k \in 1 .. n : Shows(records[k], e.phases[k])
  BY PhaseFacts DEF IsGroup
<1>3. \A k \in 1 .. n : records[k].insight = e.summary
  BY PhaseFacts DEF IsGroup
<1>4. \A k \in 1 .. n : records[k].what = e.phases[k].decision
  BY PhaseFacts DEF IsGroup
<1>5. \A k \in 1 .. n : records[k] \in Built
  BY DEF Built, ToSet
<1>6. e.phases \in Seq(ToSet(item.phases) \ {NotObject}) /\ DOMAIN e.phases = 1 .. n
  BY <1>1, ObjectsFacts DEF IsGroup
<1>7. HasContent(e) /\ 1 \in 1 .. n
  BY DEF IsGroup
<1> HIDE DEF e, n
<1>8. CASE e.summary # NoText
  <2>1. e.summary \in PickEmbedText(records[1])
    BY <1>3, <1>7, <1>8 DEF PickEmbedText
  <2>2. e.summary \in Said
    BY <1>1, <1>8 DEF Said, Or
  <2> QED
    BY <1>5, <1>7, <2>1, <2>2
<1>9. CASE e.summary = NoText
  <2>1. e.title = NoText
    BY <1>1, <1>9 DEF Or
  <2>2. PICK k \in 1 .. n : Values(e.phases[k]) # {}
    <3>1. ~(\E f \in {e.single} : f.title # NoText \/ f.rationale # NoText
                                  \/ f.problem # NoText \/ f.options # {})
      BY <1>1 DEF NoFields
    <3>2. \E p \in ToSet(e.phases) : \/ p.title # NoText \/ p.rationale # NoText
                                     \/ p.problem # NoText \/ p.options # {}
                                     \/ p.decision # NoText
      BY <1>7, <1>9, <2>1, <3>1 DEF HasContent
    <3>3. \E p \in ToSet(e.phases) : Values(p) # {}
      BY <3>2 DEF Values
    <3> QED
      BY <1>6, <3>3 DEF ToSet
  <2> DEFINE r == records[k]
             p == e.phases[k]
  <2>3. /\ Shows(r, p) /\ r.what = p.decision /\ r \in Built
        /\ PickEmbedText(r) = RenderPayloadText(r)
    BY <1>2, <1>3, <1>4, <1>5, <1>9 DEF PickEmbedText
  <2>4. p \in ToSet(item.phases) \ {NotObject}
    <3> DEFINE T == ToSet(item.phases) \ {NotObject}
               s == e.phases
    <3>1. s \in Seq(T) /\ DOMAIN s = 1 .. n
      BY <1>6
    <3> HIDE DEF T, s
    <3>2. k \in DOMAIN s
      BY <3>1
    <3>3. s[k] \in T
      BY <3>1, <3>2, InSeq
    <3> QED
      BY <3>3 DEF T, s
  <2>5. Values(p) \subseteq Said
    BY <2>4 DEF Said
  <2> HIDE DEF r, p
  <2>6. PICK v : v \in Values(p)
    BY <2>2 DEF p
  <2>7. v \in Fields(p) \/ (v # NoText /\ v = r.what)
    BY <2>3, <2>6 DEF Values, Fields
  <2>8. v \in PickEmbedText(r)
    BY <2>3, <2>7, FieldsAreRendered
  <2> QED
    BY <2>3, <2>5, <2>6, <2>8
<1> QED
  BY <1>8, <1>9

\* A capture without a text that is stored can be found by something the agent said:
\* whatever the guard takes for content, parser, builder and renderer carry through to
\* a text that is embedded.
THEOREM StoredCanBeFound == Spec => []StoredSaysSomething
<1>1. RecordsAreBuilt => StoredSaysSomething
  <2> SUFFICES ASSUME RecordsAreBuilt, outcome = "built", text \in Blank
               PROVE  \E r \in Built : PickEmbedText(r) \intersect Said # {}
    BY DEF StoredSaysSomething
  <2>1. HasContent(Extraction) /\ (IsSingle \/ IsGroup)
    BY BuiltFacts DEF Accepted
  <2>2. item \in Items
    BY DEF RecordsAreBuilt
  <2> QED
    BY <2>1, <2>2, BuiltFacts, SingleSaysSomething, GroupSaysSomething
<1> QED
  BY <1>1, RecordsAreBuiltHolds, PTL
=============================================================================
