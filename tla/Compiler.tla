------------------------------ MODULE Compiler ------------------------------
(***************************************************************************)
(* From a parsed program to its rows, and to why they are there: it is     *)
(* validated and typed, the rules of each stratum are prepared and         *)
(* planned, the plans are grouped and evaluated, and a row is explained.   *)
(* The strata are given; how they come about, and what collections plans   *)
(* share, is modelled apart.                                               *)
(***************************************************************************)
EXTENDS Rewrites, Validation, Provenance

CONSTANTS Programs,    \* programs, with strata << [recursive, rules] >>, rules
                       \* being indices into the program's
          Levels,      \* optimization levels, -1 for none
          Databases    \* what the inputs may hold: [relation -> rows]

VARIABLES program, level,
          stage,       \* "validate", "refused", "prepare", "plan", "load",
                       \* "evaluate", "answered", "explained", "faulted" or
                       \* "panicked"
          types,       \* the type of every column
          prepared,    \* strata prepared: [recursive, slices, rules], jobs
          groups,      \* << [recursive, rules] >>, rules planned
          done,        \* the groups evaluated
          facts,       \* the rows of the inputs
          rows,        \* the rows of every relation so far
          asked, witness   \* a row to explain, and why it is there

vars == <<program, level, stage, types, prepared, groups, done, facts, rows, asked, witness>>

-----------------------------------------------------------------------------
\* The aggregate of each group of distinct rows: all columns but one.
Aggregated(head, derived) ==
    LET column == head.agg[1]
        KeyOf(row) == [row EXCEPT ![column] = <<"any">>]
        Group(row) == {r \in derived : KeyOf(r) = KeyOf(row)}
    IN IF head.agg = <<>> THEN derived
       ELSE {[row EXCEPT ![column] = AggregateOf(head.agg[2], Group(row), [r \in Group(row) |-> r[column]])] :
               row \in derived}

HeadsOf(planned) == {p.head.rel : p \in Range(planned)}

\* non_recursive_collector: the rows a head had, if it had any, and those of
\* the rules of its group, as one set and aggregated once.
Collected(planned, results, before) ==
    [rel \in HeadsOf(planned) |->
       LET mine == {k \in DOMAIN planned : planned[k].head.rel = rel}
       IN Aggregated(planned[CHOOSE k \in mine : TRUE].head,
                     UNION {{r.val : r \in results[k].rows} : k \in mine}
                     \cup (IF rel \in DOMAIN before THEN before[rel] ELSE {}))]

-----------------------------------------------------------------------------
(* A recursive group.  A slice is no variable of the scope: the rules of a *)
(* round that come after it read what it derived in that round.            *)

IsSlice(planned, p) == p.head.rel \notin {r.head.rel : r \in Range(program.rules)}

\* Relations a plan reads.
ReadBy(plan) == {n.rel : n \in {m \in NodesOf(plan) : m.op = "lift"}}

\* The round after a rule: only the rows of a join are published for a slice.
Published(round, p, isSlice, result) ==
    IF result.fault THEN [round EXCEPT !.outcome = "faulted"]
    ELSE [round EXCEPT !.results = Append(@, result),
                       !.rows = IF isSlice /\ p.plan.op \in {"join", "antijoin"}
                                THEN (p.head.rel :> {r.val : r \in result.rows}) @@ @ ELSE @]

RECURSIVE Round(_, _, _)

\* The rules of a round one after the other.
Round(planned, fat, round) ==
    LET p == planned[Len(round.results) + 1]
    IN IF round.outcome # "fine" \/ Len(round.results) = Len(planned) THEN round
       ELSE IF ~ ReadBy(p.plan) \subseteq DOMAIN round.rows THEN [round EXCEPT !.outcome = "panicked"]
       ELSE Round(planned, fat, Published(round, p, IsSlice(planned, p), Evaluated(p.plan, round.rows, fat)))

RECURSIVE Iterated(_, _, _, _)

\* Rounds until the variables of the scope stay as they are.
IteratedAfter(planned, fat, outside, variables, round) ==
    LET next == [rel \in DOMAIN variables |-> Collected(planned, round.results, outside)[rel]]
    IN IF round.outcome # "fine" THEN [outcome |-> round.outcome, rows |-> variables]
       ELSE IF next = variables THEN [outcome |-> "fine", rows |-> variables]
       ELSE Iterated(planned, fat, outside, next)

Iterated(planned, fat, outside, variables) ==
    IteratedAfter(planned, fat, outside, variables,
                  Round(planned, fat, [rows |-> variables @@ outside, results |-> <<>>, outcome |-> "fine"]))

\* The heads of a group without a scope, and how that went.
CollectedOnce(planned, results) ==
    IF \E k \in DOMAIN results : results[k].fault THEN [outcome |-> "faulted", rows |-> <<>>]
    ELSE [outcome |-> "fine", rows |-> Collected(planned, results, rows)]

\* The heads of a group once it is evaluated, and how that went.
GroupEvaluated(group, fat) ==
    LET planned == group.rules
        variables == [rel \in {h \in HeadsOf(planned) : \E r \in Range(program.rules) : r.head.rel = h} |-> {}]
    IN IF group.recursive THEN Iterated(planned, fat, rows, variables)
       ELSE CollectedOnce(planned, [k \in DOMAIN planned |-> Evaluated(planned[k].plan, rows, fat)])

-----------------------------------------------------------------------------
Init == /\ program \in Programs
        /\ level \in Levels
        /\ stage = "validate"
        /\ types = <<>> /\ prepared = <<>> /\ groups = <<>> /\ done = 0
        /\ facts = <<>> /\ rows = <<>> /\ asked = <<>> /\ witness = <<>>

Validate ==
    /\ stage = "validate"
    /\ \E result \in {validate_program(program)} :
         /\ stage' = IF result.refusal = "none" THEN "prepare" ELSE "refused"
         /\ types' = result.types
    /\ UNCHANGED <<program, level, prepared, groups, done, facts, rows, asked, witness>>

\* Rules are numbered through the strata.
FirstIdentifier(n) == MapThenSumSet(LAMBDA k : Len(program.strata[k].rules), 1..(n - 1))

\* The slices of one level, of all rules, come before those of the next, and
\* all before the rules.
InLevels(recursive, jobs) ==
    LET levels == Max({Len(jobs[k]) - 1 : k \in DOMAIN jobs})
        At(l) == FlattenSeq([k \in DOMAIN jobs |-> IF l < Len(jobs[k]) THEN <<jobs[k][l]>> ELSE <<>>])
    IN [recursive |-> recursive, slices |-> [l \in 1..levels |-> At(l)],
        rules |-> [k \in DOMAIN jobs |-> Last(jobs[k])]]

\* prepare_rules, for one stratum.
PrepareStratum ==
    LET n == Len(prepared) + 1
        stratum == program.strata[n]
    IN /\ stage = "prepare"
       /\ prepared' = Append(prepared, InLevels(stratum.recursive,
            [k \in DOMAIN stratum.rules |->
               Prepared(program.rules[stratum.rules[k]], FirstIdentifier(n) + k - 1, stratum.recursive, level)]))
       /\ stage' = IF n = Len(program.strata) THEN "plan" ELSE "prepare"
       /\ UNCHANGED <<program, level, types, groups, done, facts, rows, asked, witness>>

Planned(jobs, choice) == FlattenSeq([k \in DOMAIN jobs |-> choice[jobs[k]]])

\* The groups of a stratum: a level of slices is one; so are its rules, but
\* after sideways passing of one of them: then they cascade one by one.
GroupsOf(stratum, choice) ==
    LET One(recursive, planned) == [recursive |-> recursive, rules |-> planned]
        chain == Planned(stratum.rules, choice)
        cascades == ~ stratum.recursive /\ \E j \in Range(stratum.rules) : IsSideways(j, level)
    IN [l \in DOMAIN stratum.slices |-> One(FALSE, Planned(stratum.slices[l], choice))]
       \o (IF cascades THEN [k \in DOMAIN chain |-> One(FALSE, <<chain[k]>>)]
           ELSE <<One(stratum.recursive, chain)>>)

\* ProgramQueryPlan::from_strata: every job is planned for itself.
Plan ==
    LET jobs == UNION {Range(s.rules) \cup UNION {Range(l) : l \in Range(s.slices)} : s \in Range(prepared)}
    IN /\ stage = "plan"
       /\ \E choice \in Ways([j \in jobs |-> Plans(j, level)]) :
            /\ groups' = FlattenSeq([n \in DOMAIN prepared |-> GroupsOf(prepared[n], choice)])
            /\ stage' = IF \E j \in jobs : \E p \in Range(choice[j]) : Panics(p.plan) THEN "panicked" ELSE "load"
       /\ UNCHANGED <<program, level, types, prepared, done, facts, rows, asked, witness>>

AllPlanned == UNION {Range(g.rules) : g \in Range(groups)}

IsFatProgram == IsFat(UNION {Arities(p.plan) : p \in AllPlanned})

\* The operators are assembled, and the inputs read.
Load ==
    /\ stage = "load"
    /\ IF AreBuilt(AllPlanned)
       THEN /\ facts' \in Databases
            /\ rows' = facts'
            /\ stage' = "evaluate"
       ELSE stage' = "panicked" /\ UNCHANGED <<facts, rows>>
    /\ UNCHANGED <<program, level, types, prepared, groups, done, asked, witness>>

EvaluateGroup ==
    /\ stage = "evaluate"
    /\ done < Len(groups)
    /\ \E result \in {GroupEvaluated(groups[done + 1], IsFatProgram)} :
          IF result.outcome = "fine"
          THEN /\ rows' = result.rows @@ rows
               /\ done' = done + 1
               /\ stage' = stage
          ELSE stage' = result.outcome /\ UNCHANGED <<rows, done>>
    /\ UNCHANGED <<program, level, types, prepared, groups, facts, asked, witness>>

Answer ==
    /\ stage = "evaluate"
    /\ done = Len(groups)
    /\ stage' = "answered"
    /\ UNCHANGED <<program, level, types, prepared, groups, done, facts, rows, asked, witness>>

Derived == {r.head.rel : r \in Range(program.rules)}

Explain(rel, row) ==
    /\ stage = "answered"
    /\ asked' = <<rel, row>>
    /\ witness' \in Explanations(program.rules, rel, row, rows)
    /\ stage' = "explained"
    /\ UNCHANGED <<program, level, types, prepared, groups, done, facts, rows>>

Next == \/ Validate \/ PrepareStratum \/ Plan \/ Load \/ EvaluateGroup \/ Answer
        \/ \E rel \in Derived \cap DOMAIN rows : \E row \in rows[rel] : Explain(rel, row)

Spec == Init /\ [][Next]_vars
-----------------------------------------------------------------------------
\* The meaning of the rules, stratum by stratum: the rows that the rules of a
\* relation, as written, derive in the model so far.
MeaningOf(model, rel) ==
    LET rules == {r \in Range(program.rules) : r.head.rel = rel}
    IN Aggregated((CHOOSE r \in rules : TRUE).head, UNION {RowsOf(r, model) : r \in rules})

RECURSIVE Least(_, _)

Least(rels, model) ==
    LET next == [rel \in DOMAIN model |-> IF rel \in rels THEN MeaningOf(model, rel) ELSE model[rel]]
    IN IF next = model THEN model ELSE Least(rels, next)

Meaning ==
    FoldLeft(LAMBDA model, stratum : Least({program.rules[n].head.rel : n \in Range(stratum.rules)}, model),
             facts @@ [rel \in Derived |-> {}], program.strata)

\* Whatever the level and the join order: cutting, slicing, semijoining,
\* pushing comparisons and projecting early leave a program the rows that its
\* rules mean.  (planning, pushdown, catalog/rule.rs sideways, jn.rs)
AnswersAreTheMeaning == stage = "answered" => \A rel \in Derived : rows[rel] = Meaning[rel]

\* What validation accepts is planned, has its operators, and finds every
\* collection it reads.  (validate.rs:3-10, macros/lib.rs:15-24)
NothingPanics == stage # "panicked"

\* The solutions of the relational part of a rule.
Relational(rule, model) ==
    {env \in Solutions(rule.pos, model) :
       /\ \A a \in Range(rule.neg) : \A row \in model[a.rel] : ~ Matches(a, row, env)
       /\ \A c \in Range(RelationalComparisons(rule)) : Verdict(c, env) = "true"}

FaultsOn(rule, env) ==
    LET inputs == Inputs(rule)
    IN RunProgram(ProgramOf(rule), [k \in DOMAIN inputs |-> env[inputs[k]]]).verdict = "fault"

\* A fault of a rule: its row program faults on a solution of its body.
RuleFaults(model) == \E r \in Range(program.rules) : \E env \in Relational(r, model) : FaultsOn(r, env)

Divides(rule) == \E c \in Range(RelationalComparisons(rule)) : CanFault(c.left) \/ CanFault(c.right)

\* An early filter may drop a row before a call listed earlier faults on it.
FiltersFirst(rule) ==
    \A m, n \in DOMAIN rule.calls :
       m < n /\ rule.calls[n].out = "" => <<"fault">> \notin Range(FunctionTable[rule.calls[m].fn].apply)

\* A call that runs early never fails an evaluation that the rule as written
\* would not, and a fault of the rule as written is never lost; a comparison
\* that divides is checked where it is pushed.  (pushdown.rs:20-35)
FaultsAreTheRules ==
    /\ stage = "faulted" => RuleFaults(Meaning) \/ \E r \in Range(program.rules) : Divides(r)
    /\ stage = "answered" /\ (\A r \in Range(program.rules) : FiltersFirst(r)) => ~ RuleFaults(Meaning)

\* Every cell a program derives has the type inferred for its column, which is
\* what symbols are read back by.  (validate.rs:11-20)
TypesAreKept ==
    stage \in {"evaluate", "answered"} =>
       \A rel \in DOMAIN rows \cap DOMAIN types : \A row \in rows[rel] :
          Len(row) = Len(types[rel]) /\ \A k \in DOMAIN row : row[k][1] = types[rel][k]

\* In whatever order a program lists its rules, it is refused or typed alike.
\* (validate.rs infer_types: the first rule to derive a column types it)
TypingIgnoresRuleOrder ==
    stage \in {"prepare", "refused"} =>
       \A order \in Permutations(DOMAIN program.rules) :
          LET other == validate_program([program EXCEPT !.rules = [k \in DOMAIN @ |-> @[order[k]]]])
          IN other.types = types

\* What a witness claims: solutions of the body of the rule it names, in the
\* final states, that make the row it explains.
Supports(rule, row, parents) ==
    \E env \in BodyOf(rule, rows) :
       /\ \A k \in DOMAIN rule.pos : /\ parents[k][1] = rule.pos[k].rel
                                     /\ parents[k][2] \in rows[rule.pos[k].rel]
                                     /\ Matches(rule.pos[k], parents[k][2], env)
       /\ \A k \in DOMAIN row : IsAggregated(rule, k) \/ Compute(rule.head.args[k], env) = row[k]

\* A row that was derived has a witness, from rewritten or reordered rules or
\* not: the rule named derives it from the rows listed, one for each positive
\* atom of each solution.  Of a group larger than the limit a count or a sum
\* lists as many, and a minimum or maximum perhaps none.  (explain.rs:1-14)
WitnessesDerive ==
    stage = "explained" =>
       LET rule == program.rules[witness.rule]
           size == Len(rule.pos)
           parts == Len(witness.parents) \div size
       IN /\ witness.rule \in DOMAIN program.rules
          /\ rule.head.rel = asked[1]
          /\ Len(witness.parents) = parts * size
          /\ parts = 0 => witness.size > GroupLimit /\ rule.head.agg[2] \in {"min", "max"}
          /\ rule.head.agg # <<>> /\ rule.head.agg[2] \in {"count", "sum"} => parts = Min({witness.size, GroupLimit})
          /\ \A n \in 1..parts :
                Supports(rule, asked[2], SubSeq(witness.parents, (n - 1) * size + 1, n * size))
=============================================================================
