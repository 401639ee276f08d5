----------------------------- MODULE Provenance -----------------------------
(***************************************************************************)
(* Why a row is in a relation: a rule of the program, as written, that     *)
(* derives it over the final states, and the rows its positive atoms       *)
(* matched.  Rules are tried in the order of the program.  A search runs   *)
(* over the rows of each relation in sorted order; here a solution is any  *)
(* of those it could meet.                                                 *)
(***************************************************************************)
EXTENDS RowProgram

CONSTANT GroupLimit   \* solutions kept of the group of an aggregated row

IsAggregated(rule, k) == rule.head.agg # <<>> /\ rule.head.agg[1] = k

\* The aggregated column binds like any other.
HeadBindingsAll(rule, row) ==
    {<<rule.head.args[k].init[2], row[k]>> :
       k \in {n \in DOMAIN row : IsSingle(rule.head.args[n]) /\ IsVar(rule.head.args[n].init)}}

\* The columns of a head that a row binds: plain variables, not aggregated.
HeadBindings(rule, row) ==
    {<<rule.head.args[k].init[2], row[k]>> :
       k \in {n \in DOMAIN row : /\ ~ IsAggregated(rule, n)
                                 /\ IsSingle(rule.head.args[n]) /\ IsVar(rule.head.args[n].init)}}

\* search: the solutions of the positive atoms in order, with the rows matched.
SearchAtom(states, solutions, atom) ==
    {[env |-> p[1].env @@ Bindings(atom, p[2]), parents |-> Append(p[1].parents, <<atom.rel, p[2]>>)] :
       p \in {q \in solutions \X states[atom.rel] : Matches(atom, q[2], q[1].env @@ Bindings(atom, q[2]))}}

Searched(rule, states, bound) ==
    LET start == [name \in {b[1] : b \in bound} |-> (CHOOSE b \in bound : b[1] = name)[2]]
    IN FoldLeft(LAMBDA solutions, atom : SearchAtom(states, solutions, atom),
                {[env |-> start, parents |-> <<>>]}, rule.pos)

matches_any(atom, env, states) == \E row \in states[atom.rel] : Matches(atom, row, env)

\* on_solution: the negated atoms, the relational comparisons, then the row
\* program or the plain head.
OnSolution(rule, states, env) ==
    LET relational == RelationalComparisons(rule)
        compared == AllTrue([k \in DOMAIN relational |-> Verdict(relational[k], env)])
        inputs == Inputs(rule)
    IN IF \E a \in Range(rule.neg) : matches_any(a, env, states) THEN [verdict |-> "false", row |-> <<>>]
       ELSE IF compared # "true" THEN [verdict |-> compared, row |-> <<>>]
       ELSE IF HasProgram(rule) THEN RunProgram(ProgramOf(rule), [k \in DOMAIN inputs |-> env[inputs[k]]])
       ELSE [verdict |-> "true", row |-> [k \in DOMAIN rule.head.args |-> env[rule.head.args[k].init[2]]]]

\* The aggregate of a group: its solutions are counted, the values of all of
\* them are added up.
AggregateOf(operator, group, value) ==
    CASE operator = "count" -> <<"number", Cardinality(group)>>
      [] operator = "sum" -> <<"number", MapThenSumSet(LAMBDA s : value[s][2], group)>>
      [] operator = "min" -> <<"number", Min({value[s][2] : s \in group})>>
      [] operator = "max" -> <<"number", Max({value[s][2] : s \in group})>>

\* witness_of: [parents, size] for each way a rule can derive a row, and the
\* fault of a solution that faults.  Of a large group only the first solutions
\* met are kept, and of those the extremum's are listed.
Witnessed(rule, row, outcome) ==
    LET held == {s \in DOMAIN outcome : outcome[s].verdict = "true"}
        faults == IF \E s \in DOMAIN outcome : outcome[s].verdict = "fault"
                  THEN {[parents |-> <<"fault">>, size |-> 0]} ELSE {}
        column == rule.head.agg[1]
        group == {s \in held : \A k \in DOMAIN row : k = column \/ outcome[s].row[k] = row[k]}
        value == [s \in group |-> outcome[s].row[column]]
        kept == kSubset(Min({GroupLimit, Cardinality(group)}), group)
        Shown(k) == IF rule.head.agg[2] \in {"min", "max"} THEN {s \in k : value[s] = row[column]} ELSE k
    IN faults \cup
       IF rule.head.agg = <<>>
       THEN {[parents |-> s.parents, size |-> 1] : s \in {h \in held : outcome[h].row = row}}
       ELSE IF group = {} \/ AggregateOf(rule.head.agg[2], group, value) # row[column] THEN {}
       ELSE {[parents |-> FlattenSeq([n \in DOMAIN SetToSeq(Shown(k)) |-> SetToSeq(Shown(k))[n].parents]),
              size |-> Cardinality(group)] : k \in kept}

WitnessesOf(rule, row, states) ==
    LET bound == HeadBindings(rule, row)
        agreed == \A b, c \in bound : b[1] = c[1] => b = c
        solutions == IF agreed THEN Searched(rule, states, bound) ELSE {}
    IN Witnessed(rule, row, [s \in solutions |-> OnSolution(rule, states, s.env)])

\* The first rule that has a witness; none, and rule 0, without one.
FirstWitnesses(found) ==
    LET deriving == {n \in DOMAIN found : found[n] # {}}
    IN IF deriving = {} THEN {[rule |-> 0, parents |-> <<>>, size |-> 0]}
       ELSE {[rule |-> Min(deriving), parents |-> w.parents, size |-> w.size] : w \in found[Min(deriving)]}

\* explain: a row that is absent has none.
Explanations(rules, rel, row, states) ==
    FirstWitnesses([n \in {m \in DOMAIN rules : rules[m].head.rel = rel /\ row \in states[rel]} |->
                      WitnessesOf(rules[n], row, states)])
=============================================================================
