--------------------------- MODULE RecordBuilder ---------------------------
(***************************************************************************)
(* From what an agent sends to the records that are stored: parsing of the *)
(* flat item (internal/domain/extraction.go), the guard against items      *)
(* without content (internal/service/capture.go), one record per phase     *)
(* (internal/policy/record_builder.go) and what of it is embedded.         *)
(*                                                                         *)
(* A text is a value of which only the classes below are known.  A list    *)
(* (alternatives and trade-offs as one, tags) is a set, its caps left out; *)
(* so are confidence, source, user, channel and the day in an id.  The     *)
(* domain is "general" for every item.                                     *)
(***************************************************************************)
EXTENDS Naturals, FiniteSets, SequencesExt

CONSTANTS Items,        \* extracted objects an agent may send
          RawTexts,     \* texts of a capture, NoText for an item of a batch
          Blank,        \* texts that are empty after trimming
          Opening,      \* texts whose first sentence has more than 10 bytes
          Lengthy,      \* texts of at least 20 bytes
          Quoting,      \* texts with a quotation of at least 10 bytes
          Accepting,    \* texts that speak of a decision made
          Redacted,     \* what RedactSensitive makes of a raw text
          Slug,         \* the first words of a title, as they go into an id
          PhaseNames,   \* "Phase 1" and so on
          NotObject,    \* an element of phases that is no object
          MaxPhases     \* 7 in the code

NoText == ""

ASSUME RecordAssumption ==
    /\ \A x \in Items : x.phases \in Seq(ToSet(x.phases))
    /\ MaxPhases \in Nat \ {0}
    /\ NoText \in Blank /\ RawTexts \intersect Blank \subseteq {NoText}
    /\ Opening \intersect Blank = {}
    /\ Len(PhaseNames) >= MaxPhases
    /\ Redacted \in [RawTexts -> RawTexts]

VARIABLES
    item,     \* the extracted object
    text,     \* the raw text it came with
    outcome,  \* where Handle is with it
    records   \* what BuildPhases made of it

vars == <<item, text, outcome, records>>

TypeOK ==
    /\ item \in Items
    /\ text \in RawTexts
    /\ outcome \in {"received", "rejected", "failed", "built"}
    /\ \A r \in ToSet(records) :
          /\ r.status \in {"proposed", "accepted"}
          /\ r.certainty \in {"supported", "partially_supported", "unknown"}
          /\ r.evidence \in SUBSET {"quote", "paraphrase"}
    /\ Len(records) <= MaxPhases

Init ==
    /\ item \in Items
    /\ text \in RawTexts
    /\ outcome = "received"
    /\ records = <<>>

-----------------------------------------------------------------------------
(* ParseExtractionFromAgent. *)

Or(a, b) == IF a # NoText THEN a ELSE b
OrElse(s, t) == IF s # {} THEN s ELSE t

NoFields == [title |-> NoText, rationale |-> NoText, problem |-> NoText, options |-> {},
             hint |-> NoText, tags |-> {}]

\* The objects among the first elements, the k-th being the one with k - 1 before it.
Read(phases, most) ==
    LET objects == {i \in DOMAIN phases : i <= most /\ phases[i] # NotObject}
        Place(k) == CHOOSE i \in objects : Cardinality({j \in objects : j < i}) = k - 1
    IN  [k \in 1 .. Cardinality(objects) |-> phases[Place(k)]]

\* Fault: one phase more is read.
OneObjectMore(x) == Read(x.phases, MaxPhases + 1)

\* The phases among the first MaxPhases elements.
Objects(x) == Read(x.phases, MaxPhases)

\* A single phase is folded into the record, its decision is not read.
Single(x) ==
    IF x.phases = <<>>
    THEN [title |-> x.title, rationale |-> x.rationale, problem |-> x.problem,
          options |-> x.options, hint |-> x.hint, tags |-> x.tags]
    ELSE LET p == x.phases[1] IN
         IF p = NotObject THEN NoFields
         ELSE [title |-> Or(p.title, x.title),
               rationale |-> Or(p.rationale, x.rationale),
               problem |-> Or(p.problem, x.problem),
               options |-> p.options, hint |-> x.hint,
               tags |-> OrElse(p.tags, x.tags)]

Parse(x) ==
    IF Len(x.phases) > 1
    THEN [title |-> x.group_title, type |-> x.group_type,
          summary |-> Or(x.reusable_insight, x.group_title), hint |-> x.hint,
          tags |-> x.tags, single |-> NoFields, phases |-> Objects(x)]
    ELSE [title |-> Single(x).title, type |-> NoText, summary |-> x.reusable_insight,
          hint |-> Single(x).hint, tags |-> Single(x).tags,
          single |-> Single(x), phases |-> <<>>]

\* Fault: tags are taken for content.
HasContentOrTags(e) ==
    \/ e.title # NoText \/ e.summary # NoText \/ e.tags # {}
    \/ \E p \in {e.single} \union ToSet(e.phases) :
          p.title # NoText \/ p.rationale # NoText \/ p.problem # NoText \/ p.options # {}
    \/ \E p \in ToSet(e.phases) : p.decision # NoText

HasContent(e) ==
    \/ e.title # NoText \/ e.summary # NoText
    \/ \E p \in {e.single} \union ToSet(e.phases) :
          p.title # NoText \/ p.rationale # NoText \/ p.problem # NoText \/ p.options # {}
    \/ \E p \in ToSet(e.phases) : p.decision # NoText

-----------------------------------------------------------------------------
(* BuildPhases. *)

FirstNonEmpty(s) ==
    LET full == SelectSeq(s, LAMBDA t : t \notin Blank)
    IN  IF full = <<>> THEN NoText ELSE Head(full)

ExtractTitle(t) == IF t \in Opening THEN t ELSE "General decision"

ExtractEvidence(clean) ==
    CASE clean \in Quoting -> {"quote"}
      [] clean \in Lengthy \ Quoting -> {"paraphrase"}
      [] OTHER -> {}

DetermineCertainty(evidence, rationale) ==
    CASE evidence = {} -> "unknown"
      [] "quote" \in evidence /\ rationale # NoText -> "supported"
      [] OTHER -> "partially_supported"

StatusFromHint(hint, evidence, clean) ==
    CASE hint = "accepted" -> "accepted"
      [] hint \in {"rejected", "proposed"} -> "proposed"
      [] OTHER -> IF evidence # {} /\ clean \in Accepting THEN "accepted" ELSE "proposed"

\* Fault: a record is stored as the hint has it.
Unchecked(r) == r

\* EnsureEvidenceCertaintyConsistency.
Consistent(r) ==
    [r EXCEPT !.certainty = IF @ = "supported" /\ r.evidence = {} THEN "unknown" ELSE @,
              !.status = IF @ = "accepted" /\ r.evidence = {} THEN "proposed" ELSE @]

\* The parts a single record and a phase have in common.
Record(id, title, what, fields, status, clean, insight) ==
    Consistent([id |-> id, title |-> title, what |-> what, problem |-> fields.problem,
                rationale |-> fields.rationale, options |-> fields.options,
                evidence |-> ExtractEvidence(clean),
                certainty |-> DetermineCertainty(ExtractEvidence(clean), fields.rationale),
                status |-> status, insight |-> insight,
                group |-> NoText, seq |-> 0, total |-> 0])

BuildSingle(e, clean) ==
    LET f == e.single
        title == Or(f.title,
                    ExtractTitle(FirstNonEmpty(<<clean, e.summary, f.rationale, f.problem>>)))
    IN  Record(<<Slug[title]>>, title, clean, f,
               StatusFromHint(f.hint, ExtractEvidence(clean), clean), clean, e.summary)

GroupTitle(e, clean) ==
    Or(e.title,
       ExtractTitle(FirstNonEmpty(
           <<clean, e.summary>> \o
           FlattenSeq([k \in DOMAIN e.phases |-> <<e.phases[k].title, e.phases[k].decision>>]))))

PhaseId(title, type, k) == <<Slug[title], IF type = "bundle" THEN "_b" ELSE "_p", k - 1>>

\* Fault: the total counts the phases the agent sent.
TotalSent(x) == Len(x.phases)

\* phaseTotal, of what Parse kept.
PhaseTotal(x) == Len(Objects(x))

BuildPhase(x, e, clean, k) ==
    LET p == e.phases[k]
        title == Or(p.title, PhaseNames[k])
        r == Record(PhaseId(title, Or(e.type, "phase_chain"), k), title, p.decision, p,
                    StatusFromHint(e.hint, ExtractEvidence(clean), clean), clean, e.summary)
    IN  [r EXCEPT !.group = <<"grp", Slug[GroupTitle(e, clean)]>>,
                  !.seq = k - 1, !.total = PhaseTotal(x)]

BuildMulti(x, e, clean) == [k \in DOMAIN e.phases |-> BuildPhase(x, e, clean, k)]

-----------------------------------------------------------------------------
(* Embedding. *)

\* What the payload text says of the fields sent.  The rest is headings, placeholders,
\* tags and the evidence, which repeats the raw text.
RenderPayloadText(r) ==
    {t \in {r.title, r.what, r.problem, r.rationale} : t # NoText} \union r.options

\* pickEmbedText.
PickEmbedText(r) == IF r.insight # NoText THEN {r.insight} ELSE RenderPayloadText(r)

-----------------------------------------------------------------------------
(* CaptureService.Handle up to the novelty check. *)

Extraction == Parse(item)

\* Items of a batch come without a text, a single capture with one that is not blank.
Accepted == text \notin Blank \/ HasContent(Extraction)

RejectItem ==
    /\ outcome = "received"
    /\ ~Accepted
    /\ outcome' = "rejected"
    /\ UNCHANGED <<item, text, records>>

\* One object or none is left of several phases: neither shape is there.
BuildFails ==
    /\ outcome = "received"
    /\ Accepted
    /\ Len(item.phases) > 1 /\ Len(Extraction.phases) <= 1
    /\ outcome' = "failed"
    /\ UNCHANGED <<item, text, records>>

BuildPhases ==
    /\ outcome = "received"
    /\ Accepted
    /\ \/ /\ Len(item.phases) <= 1
          /\ records' = <<BuildSingle(Extraction, Redacted[text])>>
       \/ /\ Len(Extraction.phases) > 1
          /\ records' = BuildMulti(item, Extraction, Redacted[text])
    /\ outcome' = "built"
    /\ UNCHANGED <<item, text>>

Next == RejectItem \/ BuildFails \/ BuildPhases

Spec == Init /\ [][Next]_vars

-----------------------------------------------------------------------------
(* Properties. *)

Built == ToSet(records)

\* What a record claims is backed by what it carries: accepted by evidence, which an
\* item of a batch never has, supported by a quotation and a rationale.  The recall
\* ranks by status, whatever hint the agent sent.
ClaimsAreBacked ==
    \A r \in Built :
        /\ r.status = "accepted" => r.evidence # {}
        /\ r.certainty = "supported" => "quote" \in r.evidence /\ r.rationale # NoText

\* The records of a group are all there is of it: one group id, positions from 0,
\* and as their total the number that is stored, although phases were cut off or
\* passed over.  A recall searches for the missing members of a group by that.
GroupIsWhole ==
    Len(records) > 1 =>
        /\ \A r, s \in Built : r.group = s.group
        /\ {r.seq : r \in Built} = 0 .. Len(records) - 1
        /\ \A r \in Built : r.total = Len(records)

\* The records of an item have ids of their own, although titles or their first words
\* agree.  A recall keeps one hit per id.
IdsAreDistinct == Cardinality({r.id : r \in Built}) = Len(records)

\* A recall that meets one record of a group can find, and tell apart, all of them.
GroupCanBeRecalled == GroupIsWhole /\ IdsAreDistinct

\* The values of an object, tags aside.
Values(o) == ({o.title, o.rationale, o.problem, o.decision} \ {NoText}) \union o.options

\* What the agent said that could be embedded.  White space counts, as for HasContent.
Said ==
    ({item.reusable_insight, item.group_title} \ {NoText}) \union Values(item)
        \union UNION {Values(p) : p \in ToSet(item.phases) \ {NotObject}}

\* An item without a text that is stored says something of what the agent sent in
\* what is embedded of it: the guard agrees with parser, builder and renderer.
StoredSaysSomething ==
    outcome = "built" /\ text \in Blank =>
        \E r \in Built : PickEmbedText(r) \intersect Said # {}
=============================================================================
