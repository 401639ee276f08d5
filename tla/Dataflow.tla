------------------------------ MODULE Dataflow ------------------------------
(***************************************************************************)
(* From the strata of a program to its relations: the groups planned       *)
(* stratum by stratum, with the collections they share, the operators      *)
(* assembled for each group, and the collectors that gather a head's rows. *)
(*                                                                         *)
(* Relations are binary and a rule joins them along a path,                *)
(*   h(x0, xn) :- a1(x0, x1), .., an(xn-1, xn) [, !b(x0, xn)],             *)
(* the last column of an aggregated head being count or min.  A signature  *)
(* is the lineage of a collection, as its name is in the source.  Timely   *)
(* computes collections in any order; what an operator's output comes to   *)
(* depends on its inputs alone, and a recursive scope runs in rounds.  The *)
(* source plans every group before it assembles the first, which comes to  *)
(* the same: planning reads nothing that assembling makes.                 *)
(***************************************************************************)
EXTENDS Naturals, FiniteSets, Sequences, SequencesExt, FiniteSetsExt, Functions

CONSTANTS Rules,           \* rules, by their index in the program
          Programs,        \* [head, body, reads, negates, aggregate,
                           \*  disableSharing]: the last is an option
          Databases        \* what the inputs may hold: [relation -> rows]

\* A rule reads the relations of its body and negates one at most.  Every
\* declared relation that rules read and none derives is an input, an empty
\* one if need be, and relations are binary and finite.  Of a value only its
\* place in the order matters, from the least of its type on.
ASSUME DataflowAssumption ==
    /\ IsFiniteSet(Rules)
    /\ \A p \in Programs : \A r \in Rules :
         /\ p.body[r] \in Seq(p.reads[r]) \ {<< >>}
         /\ p.reads[r] = ToSet(p.body[r])
         /\ \A m, n \in p.negates[r] : m = n
         /\ p.aggregate[p.head[r]] \in {"none", "count", "min"}
         /\ \A f \in Databases : p.reads[r] \cup p.negates[r]
                                  \subseteq {p.head[s] : s \in Rules} \cup DOMAIN f
    /\ \A f \in Databases : \A i \in DOMAIN f : f[i] \subseteq Nat \X Nat /\ IsFiniteSet(f[i])

VARIABLES program, phase, visited, stack, order, sccs, waiting, merged, strata

strataVars == <<program, phase, visited, stack, order, sccs, waiting, merged, strata>>

Strata == INSTANCE Stratification

VARIABLES stage,    \* "stratify", "plan", "operate", "done" or "absent"
          facts,    \* the rows of the inputs
          group,    \* the stratum whose group is under way
          left,     \* its rules that are not planned yet
          walking,  \* the recursion over the tree of a rule, innermost call
                    \* first: [out, inputs], the inputs it has yet to plan
          planned,  \* [plan, seen, nested, enters]: operators of the group,
                    \* seen_set, nested_seen, and the collections its scope enters
          at,       \* the operator to evaluate next
          made,     \* row_map, kv_map and k_map: rows of every collection
          prior,    \* rows that prior strata derived of recursive heads
          inner     \* the maps and the variables of a recursive scope

vars == <<strataVars, stage, facts, group, left, walking, planned, at, made, prior, inner>>

\* Collections inserted into a map.
Over(more, collections) ==
    [x \in DOMAIN more \cup DOMAIN collections |->
       IF x \in DOMAIN more THEN more[x] ELSE collections[x]]

Atom(relation) == <<"atom", <<relation>>>>

\* CollectionSignature of the output of a rule's last transformation.
Root(r) == IF program.negates[r] = {} THEN <<"row", program.body[r]>>
           ELSE <<"minus", program.body[r], <<CHOOSE n \in program.negates[r] : TRUE>> >>

\* The collections an operator reads: the transformation tree of a rule
\* joins the first atom with the collection of the others.
Inputs(out) ==
    IF out[1] = "minus"
    THEN << <<IF Len(out[2]) = 1 THEN "keys" ELSE "set", out[2]>>, <<"keys", out[3]>> >>
    ELSE IF Len(out[2]) = 1 THEN << Atom(out[2][1]) >>
    ELSE << <<"left", <<Head(out[2])>>>>, <<"right", Tail(out[2])>> >>

IsLeaf(out) == out[1] # "minus" /\ Len(out[2]) = 1

\* What the operator makes of its inputs: an antijoin, a join, or a copy.
Value(out, collections) ==
    LET rows == [k \in DOMAIN Inputs(out) |-> collections[Inputs(out)[k]]]
    IN IF out[1] = "minus" THEN rows[1] \ rows[2]
       ELSE IF IsLeaf(out) THEN rows[1]
       ELSE {<<t[1][1], t[2][2]>> : t \in {u \in rows[1] \X rows[2] : u[1][2] = u[2][1]}}
-----------------------------------------------------------------------------
GroupRules == strata[group].rules

IsRecursive == strata[group].recursive

Heads == {program.head[r] : r \in GroupRules}

HeadAtoms == {Atom(h) : h \in Heads}

LastSignatures(h) == {Root(r) : r \in {s \in GroupRules : program.head[s] = h}}

\* Mutant of Marked: what is planned inside a recursive scope is remembered
\* as if it could be read from outside.
MarkedSeen(out) == [planned EXCEPT !.seen = @ \cup {out}]

\* seen_set and nested_seen: a collection that is planned is shared from then
\* on, one of a recursive scope within it only.
Marked(out) == IF program.disableSharing THEN planned
               ELSE IF IsRecursive THEN [planned EXCEPT !.nested = @ \cup {out}]
               ELSE [planned EXCEPT !.seen = @ \cup {out}]

\* A call of construct_non_recursive or construct_recursive: an output that
\* is shared is not planned again, and any other after its inputs.
Construct(out, rest) ==
    \/ /\ out \in planned.seen \cup planned.nested
       /\ planned' = IF out \in planned.seen THEN [planned EXCEPT !.enters = @ \cup {out}]
                     ELSE planned
       /\ walking' = rest
    \/ /\ out \notin planned.seen \cup planned.nested
       /\ IF IsLeaf(out)
          THEN /\ planned' = [Marked(out) EXCEPT !.plan = Append(@, out),
                                                !.enters = @ \cup ToSet(Inputs(out))]
               /\ walking' = rest
          ELSE /\ planned' = Marked(out)
               /\ walking' = <<[out |-> out, inputs |-> Inputs(out)]>> \o rest

\* The aggregation of the whole relation, if its rules aggregate.
Aggregated(h, rows) ==
    CASE program.aggregate[h] = "none" -> rows
      [] program.aggregate[h] = "count" ->
           {<<x, Cardinality({r \in rows : r[1] = x})>> : x \in {r[1] : r \in rows}}
      [] program.aggregate[h] = "min" ->
           {r \in rows : \A s \in rows : s[1] = r[1] => r[2] <= s[2]}

\* Mutant of Gathered: what prior strata derived is left out.
GatheredAnew(a, before, collections) ==
    Aggregated(a[2][1], UNION {collections[last] : last \in LastSignatures(a[2][1])})

\* Both collectors: the rows of a head are those it had, if it had any, and
\* those of its last signatures.
Gathered(a, before, collections) ==
    Aggregated(a[2][1], (UNION {collections[last] : last \in LastSignatures(a[2][1])})
                        \cup (IF a \in DOMAIN before THEN before[a] ELSE {}))
-----------------------------------------------------------------------------
Init == /\ Strata!Init
        /\ stage = "stratify"
        /\ facts = << >>
        /\ group = 0
        /\ left = {}
        /\ walking = << >>
        /\ planned = [plan |-> << >>, seen |-> {}, nested |-> {}, enters |-> {}]
        /\ at = 1
        /\ made = << >>
        /\ prior = << >>
        /\ inner = << >>

Stratify == /\ stage = "stratify"
            /\ phase \notin {"done", "refused"}
            /\ Strata!Next
            /\ UNCHANGED <<stage, facts, group, left, walking, planned, at, made, prior, inner>>

\* On to the next stratum, with what groups before have planned.
NextGroup == /\ group' = group + 1
             /\ IF group = Len(strata) THEN stage' = "done" /\ left' = {}
                ELSE stage' = "plan" /\ left' = strata[group + 1].rules
             /\ planned' = [planned EXCEPT !.plan = << >>, !.nested = {}, !.enters = {}]
             /\ walking' = << >>
             /\ at' = 1

\* The inputs go into the row map under their names.
Load == /\ stage = "stratify"
        /\ phase = "done"
        /\ facts' \in Databases
        /\ made' = [a \in {Atom(i) : i \in DOMAIN facts'} |-> facts'[a[2][1]]]
        /\ NextGroup
        /\ UNCHANGED <<strataVars, prior, inner>>

\* GroupStrataQueryPlan::new: the next rule of the stratum, after what
\* earlier rules and groups have planned.
PlanRule(r) == /\ stage = "plan"
               /\ walking = << >>
               /\ r \in left
               /\ left' = left \ {r}
               /\ Construct(Root(r), << >>)
               /\ UNCHANGED <<strataVars, stage, facts, group, at, made, prior, inner>>

\* The innermost call goes on to the next input of its output.
PlanInput ==
    /\ walking # << >>
    /\ Head(walking).inputs # << >>
    /\ Construct(Head(Head(walking).inputs),
                 <<[Head(walking) EXCEPT !.inputs = Tail(@)]>> \o Tail(walking))
    /\ UNCHANGED <<strataVars, stage, facts, group, left, at, made, prior, inner>>

\* It has planned them all, and its output is planned after them.
PlanOutput ==
    /\ walking # << >>
    /\ Head(walking).inputs = << >>
    /\ planned' = [planned EXCEPT !.plan = Append(@, Head(walking).out)]
    /\ walking' = Tail(walking)
    /\ UNCHANGED <<strataVars, stage, facts, group, left, at, made, prior, inner>>

\* A lookup of a collection that is not in the maps panics.
Absent == /\ stage' = "absent"
          /\ UNCHANGED <<strataVars, facts, group, left, walking, planned, at, made, prior, inner>>

\* What a recursive scope starts a round with: the collections it joins with
\* and its variables.  Heads that prior strata derive rows of are apart.
RoundOf(variables) ==
    Over([s \in (planned.enters \cap DOMAIN made) \ HeadAtoms |-> made[s]], variables)

\* assemble_group starts on the plan.  A recursive group opens a scope, with a
\* variable for every head, empty at first.
OpenGroup ==
    /\ stage = "plan"
    /\ left = {}
    /\ walking = << >>
    /\ IF ~ IsRecursive
       THEN stage' = "operate" /\ UNCHANGED <<prior, inner>>
       ELSE IF planned.enters \subseteq DOMAIN made \cup HeadAtoms
       THEN /\ stage' = "operate"
            /\ inner' = RoundOf([a \in HeadAtoms |-> {}])
            /\ prior' = [a \in planned.enters \cap DOMAIN made \cap HeadAtoms |-> made[a]]
       ELSE stage' = "absent" /\ UNCHANGED <<prior, inner>>
    /\ UNCHANGED <<strataVars, facts, group, left, walking, planned, at, made>>

There == IF IsRecursive THEN inner ELSE made

OperatorsLeft == stage = "operate" /\ at <= Len(planned.plan)

\* The next operator of the plan, in a group that is not recursive.
Operate ==
    LET out == planned.plan[at] IN
    /\ OperatorsLeft
    /\ ~ IsRecursive
    /\ IF ToSet(Inputs(out)) \subseteq DOMAIN made
       THEN /\ at' = at + 1
            /\ made' = Over([o \in {out} |-> Value(o, made)], made)
            /\ UNCHANGED <<strataVars, stage, facts, group, left, walking, planned, prior, inner>>
       ELSE Absent

\* The next operator of this round.
OperateInScope ==
    LET out == planned.plan[at] IN
    /\ OperatorsLeft
    /\ IsRecursive
    /\ IF ToSet(Inputs(out)) \subseteq DOMAIN inner
       THEN /\ at' = at + 1
            /\ inner' = Over([o \in {out} |-> Value(o, inner)], inner)
            /\ UNCHANGED <<strataVars, stage, facts, group, left, walking, planned, made, prior>>
       ELSE Absent

LastsPresent == \A h \in Heads : LastSignatures(h) \subseteq DOMAIN There

AllOperated == stage = "operate" /\ at > Len(planned.plan)

\* non_recursive_collector.
Collect == /\ AllOperated
           /\ ~ IsRecursive
           /\ IF LastsPresent
              THEN /\ made' = Over([a \in HeadAtoms |-> Gathered(a, made, made)], made)
                   /\ NextGroup
                   /\ UNCHANGED <<strataVars, facts, prior, inner>>
              ELSE Absent

Variables == [a \in HeadAtoms |-> inner[a]]

VariablesNext == [a \in HeadAtoms |-> Gathered(a, prior, inner)]

\* recursive_collector feeds the variables back: another round.
CollectRound == /\ AllOperated
                /\ IsRecursive
                /\ IF ~ LastsPresent THEN Absent
                   ELSE /\ VariablesNext # Variables
                        /\ inner' = RoundOf(VariablesNext)
                        /\ at' = 1
                        /\ UNCHANGED <<strataVars, stage, facts, group, left, walking, planned, made, prior>>

\* Nothing changes any more: the rows leave the scope and replace those of
\* prior strata.
LeaveScope == /\ AllOperated
              /\ IsRecursive
              /\ LastsPresent
              /\ VariablesNext = Variables
              /\ made' = Over(Variables, made)
              /\ inner' = << >>
              /\ prior' = << >>
              /\ NextGroup
              /\ UNCHANGED <<strataVars, facts>>

Next == \/ Stratify \/ Load
        \/ \E r \in Rules : PlanRule(r)
        \/ PlanInput \/ PlanOutput
        \/ OpenGroup
        \/ Operate \/ OperateInScope \/ Collect \/ CollectRound \/ LeaveScope
        \/ (stage \in {"done", "absent"} \/ phase = "refused") /\ UNCHANGED vars

Spec == Init /\ [][Next]_vars /\ WF_vars(Next)
-----------------------------------------------------------------------------
\* The rows a rule derives in a model: the ends of the paths along its body,
\* but those that it negates.
Solutions(r, model) ==
    LET body == program.body[r]
        nodes == UNION {{row[1], row[2]} : row \in UNION {model[a] : a \in DOMAIN model}}
        paths == {w \in [1..(Len(body) + 1) -> nodes] :
                    \A k \in DOMAIN body : <<w[k], w[k + 1]>> \in model[body[k]]}
    IN {<<w[1], w[Len(body) + 1]>> : w \in paths} \ UNION {model[n] : n \in program.negates[r]}

\* What an input holds of a relation.
Given(h) == IF h \in DOMAIN facts THEN facts[h] ELSE {}

\* The rows the rules of a relation derive in a model, and those it is given,
\* aggregated once.
Derived(h, model) ==
    Aggregated(h, (UNION {Solutions(r, model) : r \in {s \in Rules : program.head[s] = h}})
                  \cup Given(h))

Derivable == {program.head[r] : r \in Rules}

\* Sharing never leaves an operator, a collector or a scope without a
\* collection it looks up: a diagnosed defect of the engine, or a panic.
NothingAbsent == stage # "absent"

\* A recursive scope comes to rest, and the dataflow ends.
Settles == <>(stage = "done" \/ phase = "refused")
=============================================================================
