------------------------------ MODULE Rewrites ------------------------------
(***************************************************************************)
(* One rule turned into several before it is planned.                      *)
(*                                                                         *)
(* Pushdown cuts a rule after the core atoms that bind the arguments of a  *)
(* filter call: the prefix becomes a slice that runs the filter early, and *)
(* the rest of the rule reads the slice, and runs the filter again.        *)
(* Sideways passing replaces every core atom by a slice of it, semijoined  *)
(* with the core atoms before it, in the order of the body and then back.  *)
(* A job is the list of rules that come out, slices first; a slice derives *)
(* a relation of its own.                                                  *)
(***************************************************************************)
EXTENDS Operators

Slice(rule, name, vars, pos, neg, cmp, calls) ==
    [rule EXCEPT !.head = [rel |-> name, args |-> [k \in DOMAIN vars |-> Literal(<<"var", vars[k]>>)], agg |-> <<>>],
                 !.pos = pos, !.neg = neg, !.cmp = cmp, !.calls = calls]

SliceAtom(name, vars) == [rel |-> name, args |-> [k \in DOMAIN vars |-> <<"var", vars[k]>>]]

VariableList(args) ==
    LET vars == SelectSeq(args, IsVar) IN [k \in DOMAIN vars |-> vars[k][2]]

-----------------------------------------------------------------------------
IsFilterCall(call) == call.out = "" /\ ~ call.lenient

\* How many core atoms, in order, bind the arguments of a call; 0 without.
PrefixLength(rule, call) ==
    LET core == CoreAtoms(rule)
        bind == {n \in DOMAIN core : Variables(call.args) \subseteq VarsSet(rule, {core[k] : k \in 1..n})}
    IN IF bind = {} THEN 0 ELSE Min(bind)

\* The filters worth a cut: their prefix joins two core atoms or more, and a
\* core atom is joined after it.
Cutting(rule, pushed) ==
    {n \in {PrefixLength(rule, call) :
              call \in {c \in Range(rule.calls) : IsFilterCall(c) /\ Variables(c.args) # {} /\ c \notin pushed}} :
       n >= 2 /\ n < Len(CoreAtoms(rule))}

\* One cut: the slice of the shortest useful prefix and the rule that reads it.
\* A comparison that can fault stays; a filter runs early once and stays too.
CutAfter(rule, name, pushed, first, vars) ==
    LET Inside(args) == Variables(args) \subseteq vars
        Sliced(i) == i \in first \/ (~ IsCore(rule, i) /\ Inside(rule.pos[i].args))
        Early(c) == Inside(Compared(c)) /\ ~ CanFault(c.left) /\ ~ CanFault(c.right)
        Filters(c) == IsFilterCall(c) /\ Variables(c.args) # {} /\ Inside(c.args) /\ c \notin pushed
        ids == [i \in DOMAIN rule.pos |-> i]
        Atoms(list) == [k \in DOMAIN list |-> rule.pos[list[k]]]
        restPos == Atoms(SelectSeq(ids, LAMBDA i : ~ Sliced(i)))
        restNeg == SelectSeq(rule.neg, LAMBDA a : ~ Inside(a.args))
        restCmp == SelectSeq(rule.cmp, LAMBDA c : ~ Early(c))
        needed == HeadVariables(rule)
                  \cup UNION {Variables(a.args) : a \in Range(restPos) \cup Range(restNeg) \cup Range(rule.calls)}
                  \cup UNION {Variables(Compared(c)) : c \in Range(restCmp)}
        prefix == Atoms(SelectSeq(ids, LAMBDA i : i \in first))
        kept == SelectSeq(Distinct(FlattenSeq([k \in DOMAIN prefix |-> VariableList(prefix[k].args)])),
                          LAMBDA v : v \in needed)
        filters == SelectSeq(rule.calls, Filters)
    IN [slice |-> Slice(rule, name, kept, Atoms(SelectSeq(ids, Sliced)),
                        SelectSeq(rule.neg, LAMBDA a : Inside(a.args)), SelectSeq(rule.cmp, Early),
                        [k \in DOMAIN filters |-> [filters[k] EXCEPT !.lenient = TRUE]]),
        rest |-> [rule EXCEPT !.pos = <<SliceAtom(name, kept)>> \o restPos, !.neg = restNeg, !.cmp = restCmp],
        kept |-> kept,
        pushed |-> pushed \cup Range(filters)]

Cut(rule, name, pushed) ==
    LET first == {CoreAtoms(rule)[k] : k \in 1..Min(Cutting(rule, pushed))}
    IN CutAfter(rule, name, pushed, first, VarsSet(rule, first))

RECURSIVE PushedDown(_, _, _, _), FromCut(_, _, _, _)

\* A slice of one level reads the slice of the level before.  Slices are named
\* by the number of the rule.
PushedDown(rule, id, level, pushed) ==
    IF Cutting(rule, pushed) = {} THEN <<rule>>
    ELSE FromCut(rule, Cut(rule, "pushdown_" \o ToString(id) \o "_" \o ToString(level), pushed), id, level)

FromCut(rule, cut, id, level) ==
    IF cut.kept = <<>> THEN <<rule>>
    ELSE <<cut.slice>> \o PushedDown(cut.rest, id, level + 1, cut.pushed)

-----------------------------------------------------------------------------
\* One pass over the core atoms in an order: [slices, atoms, sub, neg], the
\* atoms as they read after the reductions so far, and what no slice used yet.
\* An atom that nothing reduces keeps its relation.
ReduceAtom(rule, order, suffix, state, n, i, vars) ==
    LET subs == SelectSeq(SubAtoms(rule, Signatures(rule, "pos", i)), LAMBDA a : a \in state.sub)
        negated == SelectSeq(SubNegatedAtoms(rule, Signatures(rule, "pos", i)), LAMBDA a : a \in state.neg)
        compares == SelectSeq(RelationalComparisons(rule),
                              LAMBDA c : Variables(Compared(c)) \subseteq Range(vars))
        before == SelectSeq(SubSeq(order, 1, n - 1), LAMBDA j : VariablesOf(rule, j) \cap Range(vars) # {})
        Shared(atom) == [atom EXCEPT !.args =
                           [k \in DOMAIN @ |-> IF IsVar(@[k]) /\ @[k][2] \notin Range(vars) THEN <<"any">> ELSE @[k]]]
        body == <<state.atoms[i]>> \o [k \in DOMAIN subs |-> state.atoms[subs[k]]]
                \o [k \in DOMAIN before |-> Shared(state.atoms[before[k]])]
        name == state.atoms[i].rel \o suffix \o ToString(n - 1)
        used == [state EXCEPT !.sub = @ \ Range(subs), !.neg = @ \ Range(negated)]
    IN IF Len(body) = 1 /\ negated = <<>> /\ compares = <<>> THEN used
       ELSE [used EXCEPT !.atoms[i] = SliceAtom(name, vars),
                         !.slices = Append(@, Slice(rule, name, vars, body,
                                                    [k \in DOMAIN negated |-> rule.neg[negated[k]]], compares, <<>>))]

Reduced(rule, order, suffix, state) ==
    LET Columns(n) == Distinct(Names(rule, Signatures(rule, "pos", order[n])))
    IN FoldLeft(LAMBDA s, n : ReduceAtom(rule, order, suffix, s, n, order[n], Columns(n)),
                state, [n \in DOMAIN order |-> n])

\* The last rule joins the reduced core atoms, with the negated atoms that no
\* slice used and every comparison once more.
Rejoined(rule, core, reduced) ==
    LET negated == SelectSeq([i \in DOMAIN rule.neg |-> i], LAMBDA i : i \in reduced.neg)
    IN Append(reduced.slices,
              [rule EXCEPT !.pos = [k \in DOMAIN core |-> reduced.atoms[core[k]]],
                           !.neg = [k \in DOMAIN negated |-> rule.neg[negated[k]]]])

\* Once in the order of the body, and once back.
Sideways(rule, id) ==
    LET core == CoreAtoms(rule)
        start == [slices |-> <<>>, atoms |-> rule.pos, neg |-> DOMAIN rule.neg,
                  sub |-> {i \in DOMAIN rule.pos : ~ IsCore(rule, i)}]
        forward == Reduced(rule, core, "_sip" \o ToString(id) \o "f", start)
        back == Reduced(rule, Reverse(core), "_sip" \o ToString(id) \o "b", forward)
    IN Rejoined(rule, core, back)

-----------------------------------------------------------------------------
\* What is decided for one rule: an optimization level, or none (-1), or the
\* rule's own hint.  Two core atoms are joined in one way only.
Planning(rule, level) == level >= 2 \/ rule.plan

PassesSideways(rule, level) == level \in {1, 3} \/ rule.sip

ManyCores(rule) == Len(CoreAtoms(rule)) > 2

\* The jobs of one rule of a stratum, slices first.  Pushdown needs the atoms
\* joined in the order the rule lists them.
Prepared(rule, id, recursive, level) ==
    LET Jobs(rules) == [k \in DOMAIN rules |-> [rule |-> rules[k], id |-> id, slice |-> k < Len(rules)]]
    IN IF ~ recursive /\ level \in {-1, 0} /\ ~ rule.sip /\ ~ rule.plan
       THEN Jobs(PushedDown(rule, id, 0, {})) ELSE Jobs(<<rule>>)

\* Sideways passing is never for a slice.
IsSideways(job, level) == ~ job.slice /\ ManyCores(job.rule) /\ PassesSideways(job.rule, level)

\* The rules planned for one job.
Expanded(job, level) == IF IsSideways(job, level) THEN Sideways(job.rule, job.id) ELSE <<job.rule>>

\* One of the ways there are for each.
Ways(ways) == {c \in [DOMAIN ways -> UNION Range(ways)] : \A k \in DOMAIN ways : c[k] \in ways[k]}

RulePlans(rules, optimized) ==
    {[k \in DOMAIN rules |-> [head |-> rules[k].head, plan |-> PlanOver(rules[k], choice[k])]] :
       choice \in Ways([k \in DOMAIN rules |-> JoinTrees(rules[k], optimized)])}

\* Every way a job can be planned: one plan for each rule it expands to.
Plans(job, level) == RulePlans(Expanded(job, level), ManyCores(job.rule) /\ Planning(job.rule, level))
=============================================================================
