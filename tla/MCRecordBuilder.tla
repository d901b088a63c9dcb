-------------------------- MODULE MCRecordBuilder --------------------------
(* Items and texts for RecordBuilder. *)
EXTENDS RecordBuilder, TLC

CONSTANT other

Texts == {"", "ok", "plain", "quoted", "agreed", "secret"}

\* A redacted quotation may be too short for one.
Clean == [t \in Texts |-> IF t = "secret" THEN "plain" ELSE t]

Names == <<"Phase 1", "Phase 2", "Phase 3">>

\* "plain" and "agreed" begin with the same words, as do the two titles.
Slugs == [t \in Texts \union {" ", "t1", "t2", "dec", "why", "insight", "group", "General decision"} \union ToSet(Names)
            |-> CASE t \in {"plain", "agreed"} -> "plain"
                  [] t \in {"t1", "t2"} -> "t"
                  [] OTHER -> t]

Sent == [title |-> "", rationale |-> "", problem |-> "", decision |-> "", options |-> {},
         tags |-> {}, hint |-> "", reusable_insight |-> "", group_title |-> "",
         group_type |-> "", phases |-> <<>>]

Flat ==
    {[Sent EXCEPT !.title = t, !.rationale = r, !.decision = d, !.options = o,
                  !.tags = g, !.hint = h, !.reusable_insight = i, !.group_title = n] :
        t \in {"", "t1"}, r \in {"", "why"}, d \in {"", "dec"}, o \in {{}, {"option"}},
        g \in {{}, {"tag"}}, h \in {"", "accepted", "rejected"}, i \in {"", " ", "insight"},
        n \in {"", "group"}}

NoPhase == [title |-> "", rationale |-> "", problem |-> "", decision |-> "",
            options |-> {}, tags |-> {}]

Phases ==
    {other, NoPhase, [NoPhase EXCEPT !.title = "t1"],
     [NoPhase EXCEPT !.title = "t2", !.decision = "dec"],
     [NoPhase EXCEPT !.rationale = "why", !.tags = {"tag"}]}

Phased ==
    {[Sent EXCEPT !.phases = p, !.hint = h, !.reusable_insight = i, !.group_title = n,
                  !.group_type = k] :
        p \in UNION {[1 .. m -> Phases] : m \in 1 .. 3}, h \in {"", "accepted"},
        i \in {"", "insight"}, n \in {"", "group"}, k \in {"", "bundle"}}

AnyItem == Flat \union Phased
=============================================================================
