----------------------------- MODULE MCCompiler -----------------------------
(* Programs over the inputs a, b (two numbers), c (a number) and s (a      *)
(* symbol and a number), chosen so that each rewriting, each operator and  *)
(* each refusal happens.  The widest head is one for heap rows.            *)
EXTENDS Compiler

V(name) == <<"var", name>>
Wild == <<"any">>
N(n) == <<"number", n>>
S(text) == <<"symbol", text>>
L(name) == Literal(V(name))
Sum(x, y) == [init |-> V(x), rest |-> << <<"add", V(y)>> >>]
Quotient(x, y) == [init |-> x, rest |-> << <<"div", V(y)>> >>]

A(x, y) == [rel |-> "a", args |-> <<V(x), V(y)>>]
B(x, y) == [rel |-> "b", args |-> <<V(x), V(y)>>]
C(x) == [rel |-> "c", args |-> <<V(x)>>]
At(rel, args) == [rel |-> rel, args |-> args]
Cmp(left, op, right) == [left |-> left, op |-> op, right |-> right]
Filter(fn, args) == [fn |-> fn, args |-> args, out |-> "", lenient |-> FALSE]
Bind(out, fn, args) == [fn |-> fn, args |-> args, out |-> out, lenient |-> FALSE]
HeadOf(rel, args) == [rel |-> rel, args |-> args, agg |-> <<>>]
Rule(head, pos, neg, cmp, calls) ==
    [head |-> head, pos |-> pos, neg |-> neg, cmp |-> cmp, calls |-> calls, plan |-> FALSE, sip |-> FALSE]

Few == {N(n) : n \in 0..4}

MCFunctions ==
    [lt |-> [params |-> <<"number", "number">>, returns |-> "bool",
             apply |-> [t \in Few \X Few |-> IF t[1][2] < t[2][2] THEN <<"true">> ELSE <<"false">>]],
     divides |-> [params |-> <<"number", "number">>, returns |-> "bool",
             apply |-> [t \in Few \X Few |-> IF t[1][2] = 0 THEN <<"fault">>
                                             ELSE IF t[2][2] % t[1][2] = 0 THEN <<"true">> ELSE <<"false">>]],
     succ |-> [params |-> <<"number">>, returns |-> "number",
              apply |-> [t \in Few \X {} \cup {<<n>> : n \in Few} |-> IF t[1][2] = 2 THEN <<"fault">> ELSE N(t[1][2] + 1)]]]

Inputs4 == << [rel |-> "a", types |-> <<"number", "number">>], [rel |-> "b", types |-> <<"number", "number">>],
              [rel |-> "c", types |-> <<"number">>], [rel |-> "s", types |-> <<"symbol", "number">>] >>

Program(outputs, rules, strata) == [decls |-> Inputs4 \o outputs, rules |-> rules, strata |-> strata]

Stratum(recursive, rules) == [recursive |-> recursive, rules |-> rules]

\* A program of one rule, that derives a relation of numbers.
One(rule) == Program(<<[rel |-> "p", types |-> [k \in DOMAIN rule.head.args |-> "number"]]>>,
                     <<rule>>, <<Stratum(FALSE, <<1>>)>>)

Chain == <<A("x", "y"), B("y", "z"), A("z", "w")>>

Plain == Rule(HeadOf("p", <<L("x"), L("w")>>), Chain, <<>>, <<>>, <<>>)

MCRules ==
    {Rule(HeadOf("p", <<L("x"), L("z")>>), <<A("x", "y"), B("y", "z")>>, <<A("x", "z")>>,
          <<Cmp(L("x"), "differ", L("z"))>>, <<>>),
     [Plain EXCEPT !.calls = <<Filter("lt", <<V("x"), V("z")>>)>>],
     [Plain EXCEPT !.calls = <<Filter("divides", <<V("x"), V("z")>>)>>, !.neg = <<A("x", "z")>>],
     [Plain EXCEPT !.calls = <<Bind("r", "succ", <<V("w")>>), Filter("lt", <<V("x"), V("z")>>)>>],
     [Plain EXCEPT !.plan = TRUE, !.cmp = <<Cmp(Sum("x", "w"), "below", L("z"))>>],
     [Plain EXCEPT !.sip = TRUE, !.neg = <<B("x", "w")>>],
     Rule(HeadOf("p", <<L("x")>>), Append(Chain, C("y")), <<B("x", "w")>>,
          <<Cmp(Quotient(N(2), "w"), "below", L("x"))>>, <<>>),
     Rule(HeadOf("p", <<L("x"), Literal(N(1)), L("r")>>), <<A("x", "x"), At("b", <<V("x"), Wild>>)>>, <<>>,
          <<Cmp(L("r"), "differ", L("x"))>>, <<Bind("r", "succ", <<V("x")>>)>>),
     Rule(HeadOf("p", <<L("x"), L("u")>>), <<A("x", "y"), B("u", "v")>>, <<A("y", "v")>>,
          <<Cmp(L("y"), "below", L("v"))>>, <<>>),
     Rule(HeadOf("p", <<L("x"), L("y"), L("z"), Sum("z", "w"), L("x"), L("y"), L("z"), L("w")>>), Chain, <<>>,
          <<Cmp(L("y"), "differ", L("w"))>>, <<Filter("lt", <<V("x"), V("z")>>)>>),
     Rule(HeadOf("p", <<>>), <<A("x", "y")>>, <<>>, <<Cmp(L("x"), "below", L("y"))>>, <<>>),
     Rule(HeadOf("p", <<L("x")>>), <<A("x", "y"), At("s", <<S("t"), V("y")>>)>>, <<>>, <<>>, <<>>),
     [Rule(HeadOf("p", <<Sum("x", "y"), L("x")>>), <<A("x", "y")>>, <<>>, <<>>, <<>>)
        EXCEPT !.head.agg = <<1, "max">>],
     [Rule(HeadOf("p", <<L("x"), L("y")>>), <<A("x", "y")>>, <<>>, <<>>, <<>>)
        EXCEPT !.head.agg = <<2, "count">>]}

Counted(columns) ==
    Program(<<[rel |-> "n", types |-> columns]>>,
            <<[Rule(HeadOf("n", <<L("x"), L("k")>>), <<At("s", <<V("k"), V("x")>>)>>, <<>>, <<>>, <<>>)
                 EXCEPT !.head.agg = <<2, "count">>]>>, <<Stratum(FALSE, <<1>>)>>)

Minimal(atom) == [Rule(HeadOf("m", <<L("x"), L("y")>>), <<atom>>, <<>>, <<>>, <<>>)
                    EXCEPT !.head.agg = <<2, "min">>]

OfNumbers(rel, n) == [rel |-> rel, types |-> [k \in 1..n |-> "number"]]

Named(rel, args, pos) == Rule(HeadOf(rel, args), pos, <<>>, <<>>, <<>>)

MCSeveral ==
    {Counted(<<"number", "number">>), Counted(<<"number", "symbol">>),
     [Counted(<<>>) EXCEPT !.decls = Inputs4],
     Program(<<>>, <<Named("p", <<L("x"), Literal(S("t"))>>, <<C("x")>>)>>, <<Stratum(FALSE, <<1>>)>>),
     Program(<<OfNumbers("m", 2)>>, <<Minimal(A("x", "y")), Minimal(B("x", "y"))>>, <<Stratum(FALSE, <<1, 2>>)>>),
     Program(<<OfNumbers("t", 2)>>,
             <<Named("t", <<L("x"), L("y")>>, <<A("x", "y")>>),
               Named("t", <<L("x"), L("w")>>, <<At("t", <<V("x"), V("y")>>), A("y", "z"), B("z", "w")>>)>>,
             <<Stratum(TRUE, <<1, 2>>)>>),
     Program(<<OfNumbers("p", 2)>>,
             <<Named("q", <<L("x")>>, <<A("x", "y"), C("y")>>),
               [Named("p", <<L("x"), L("y")>>, <<B("x", "y")>>) EXCEPT !.neg = <<At("q", <<V("x")>>)>>]>>,
             <<Stratum(FALSE, <<1>>), Stratum(FALSE, <<2>>)>>),
     Program(<<>>,
             <<[Named("p", <<L("k"), L("x")>>, <<At("q", <<V("x"), V("k")>>), At("a", <<V("x"), Wild>>)>>)
                  EXCEPT !.cmp = <<Cmp(L("k"), "differ", Literal(S("u")))>>],
               Named("q", <<L("x"), L("k")>>, <<At("s", <<V("k"), V("x")>>)>>)>>,
             <<Stratum(FALSE, <<2>>), Stratum(FALSE, <<1>>)>>),
     \* p is read before the column of q that types it; q is derived two ways
     Program(<<>>,
             <<Named("p", <<L("x")>>, <<At("q", <<V("x")>>)>>), Named("q", <<L("x")>>, <<C("x")>>),
               Named("q", <<L("k")>>, <<At("s", <<V("k"), Wild>>)>>)>>, <<>>),
     Program(<<>>,
             <<Named("p", <<L("x")>>, <<At("q", <<V("x")>>), At("s", <<V("x"), Wild>>)>>),
               Named("q", <<L("x")>>, <<C("x")>>)>>, <<>>),
     Program(<<>>, <<Named("p", <<L("x"), L("u")>>, <<C("x")>>)>>, <<>>),
     Program(<<>>, <<Named("p", <<L("x")>>, <<C("x")>>), Named("p", <<L("x"), L("y")>>, <<A("x", "y")>>)>>, <<>>),
     Program(<<>>, <<Minimal(A("x", "y")), Named("m", <<L("x"), L("y")>>, <<B("x", "y")>>)>>, <<>>),
     Program(<<OfNumbers("a", 2)>>, <<Named("p", <<L("x")>>, <<C("x")>>)>>, <<>>)}

MCPrograms == {One(rule) : rule \in MCRules} \cup MCSeveral

MCLevels == 0..3

Pairs(set) == {<<N(p[1]), N(p[2])>> : p \in set}

MCDatabases ==
    {[a |-> Pairs(a), b |-> Pairs(b), c |-> {<<N(1)>>}, s |-> {<<S("t"), N(1)>>, <<S("u"), N(2)>>, <<S("u"), N(1)>>}] :
       a \in kSubset(2, (0..2) \X (0..2)) \cup
             {{<<0, 1>>, <<1, 1>>, <<2, 2>>}, {<<1, 1>>, <<1, 2>>, <<2, 0>>}, {<<0, 2>>, <<1, 2>>, <<2, 1>>},
              {<<0, 0>>, <<0, 1>>, <<1, 0>>}, {<<0, 0>>, <<0, 1>>, <<0, 2>>, <<1, 1>>}},
       b \in {{<<1, 1>>}, {<<1, 2>>, <<2, 0>>}, {<<0, 1>>, <<1, 0>>, <<2, 2>>}}}
-----------------------------------------------------------------------------
(* Programs that validation accepts, for the runs that expect a violation. *)

\* A comparison and a negated atom that share a variable after a wildcard.
NegatedCompared ==
    {One(Rule(HeadOf("p", <<L("x")>>), <<A("x", "y")>>, <<At("b", <<Wild, V("x")>>)>>,
              <<Cmp(L("y"), "below", L("x")), Cmp(L("x"), "below", Literal(N(2)))>>, <<>>))}

\* A head without columns over a join, over an antijoin, and one with the same
\* variable twice over an antijoin.
Shapes ==
    {One(Rule(HeadOf("p", <<>>), <<A("x", "y"), B("y", "z")>>, <<>>, <<>>, <<>>)),
     One(Rule(HeadOf("p", <<>>), <<C("x")>>, <<A("x", "x")>>, <<>>, <<>>)),
     One(Rule(HeadOf("p", <<L("x"), L("x")>>), <<C("x")>>, <<A("x", "x")>>, <<>>, <<>>))}

\* A recursive rule under sideways passing, a slice of which is one atom.
RecursiveSlices ==
    {Program(<<OfNumbers("t", 2)>>,
             <<Named("t", <<L("x"), L("y")>>, <<A("x", "y")>>),
               [Named("t", <<L("x"), L("w")>>, <<At("t", <<V("x"), V("y")>>), A("y", "z"), B("z", "w")>>)
                  EXCEPT !.cmp = <<Cmp(L("x"), "differ", L("y"))>>, !.sip = TRUE]>>,
             <<Stratum(TRUE, <<1, 2>>)>>)}

\* A division that the plan reaches after a filter that is listed later.
DividedLater ==
    {One(Rule(HeadOf("p", <<L("x")>>), <<A("x", "y"), B("y", "z")>>, <<>>,
              <<Cmp(Quotient(V("x"), "z"), "below", Literal(N(2))), Cmp(L("y"), "differ", Literal(N(1)))>>, <<>>))}

\* A count of two rules that sideways passing takes apart.
CountedApart ==
    {Program(<<OfNumbers("m", 2)>>,
             <<[Plain EXCEPT !.head.rel = "m", !.head.agg = <<2, "count">>, !.sip = TRUE],
               [Minimal(B("x", "y")) EXCEPT !.head.agg = <<2, "count">>]>>, <<Stratum(FALSE, <<1, 2>>)>>)}
=============================================================================
