----------------------------- MODULE MCDataflow -----------------------------
(* Programs of three rules that derive p and q from the input e, negated   *)
(* or not, q aggregated or not; and one whose counted relation is derived  *)
(* in two strata.                                                          *)
EXTENDS DataflowMeaning

MCRules == 1..3

Shapes == {[head |-> "p", body |-> b, negates |-> n] :
             b \in {<<"e">>, <<"p", "e">>, <<"q">>, <<"q", "p">>, <<"p", "p">>}, n \in {{}, {"q"}}}
          \cup {[head |-> "q", body |-> b, negates |-> n] :
             b \in {<<"e">>, <<"e", "e">>, <<"p">>, <<"p", "e">>, <<"e", "p", "e">>}, n \in {{}, {"p"}}}

ProgramOf(shapes, aggregate, disableSharing) ==
    LET rules == SetToSeq(shapes)
    IN [head |-> [r \in MCRules |-> rules[r].head],
        body |-> [r \in MCRules |-> rules[r].body],
        reads |-> [r \in MCRules |-> ToSet(rules[r].body)],
        negates |-> [r \in MCRules |-> rules[r].negates],
        aggregate |-> aggregate,
        disableSharing |-> disableSharing]

Reads(shapes, g, h) == \E s \in shapes : s.head = g /\ h \in ToSet(s.body) \cup s.negates

\* No relation is read that nothing derives.
ShapesOfBoth == {s \in kSubset(3, Shapes) : {r.head : r \in s} = {"p", "q"}}

MCPrograms ==
    {ProgramOf(s, [p |-> "none", q |-> "none"], d) : s \in ShapesOfBoth, d \in BOOLEAN}
    \cup {ProgramOf(s, [p |-> "none", q |-> "min"], FALSE) :
            s \in {t \in ShapesOfBoth : ~ (Reads(t, "q", "p") /\ Reads(t, "p", "q"))}}

CountedApart == {ProgramOf({[head |-> "p", body |-> <<"e">>, negates |-> {}],
                            [head |-> "q", body |-> <<"e">>, negates |-> {}],
                            [head |-> "q", body |-> <<"p">>, negates |-> {}]},
                           [p |-> "none", q |-> "count"], FALSE)}

\* A relation that rules derive may be an input too.
MCDatabases == {[e |-> {<<1, 2>>, <<2, 3>>, <<3, 1>>}],
                [e |-> {<<1, 2>>, <<1, 3>>, <<3, 3>>}, p |-> {<<2, 1>>}]}
=============================================================================
