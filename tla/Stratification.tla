--------------------------- MODULE Stratification ---------------------------
(***************************************************************************)
(* Strata::try_from_parser: the order in which a program's rules are       *)
(* evaluated, or the refusal of a program that negates through recursion.  *)
(*                                                                         *)
(* Kosaraju's algorithm finds the strongly connected components of the     *)
(* rule dependency graph, dependencies first; a component that negates     *)
(* itself is refused; and components whose dependencies are all laid out   *)
(* are merged round by round: the non-recursive ones of a round into one   *)
(* stratum, each recursive one into a stratum of its own.                  *)
(*                                                                         *)
(* The source iterates over hash maps, so the order in which the searches  *)
(* try rules is arbitrary, and it is here.                                 *)
(***************************************************************************)
EXTENDS Naturals, FiniteSets, Sequences, SequencesExt

CONSTANTS Rules,      \* the rules, by their index in the program
          Programs    \* programs to stratify: [head, reads, negates]

ASSUME StratificationAssumption == IsFiniteSet(Rules)

VARIABLES program,
          phase,      \* "ordering", "assigning", "merging", "done" or "refused"
          visited,    \* rules the first search has met
          stack,      \* its recursion, innermost rule first
          order,      \* rules in the order it left them, last first
          sccs,       \* components, the last one still growing
          waiting,    \* per component: rules outside that it still waits for
          merged,     \* components that are laid out
          strata      \* the strata so far: [rules, recursive]

vars == <<program, phase, visited, stack, order, sccs, waiting, merged, strata>>

\* A rule depends on every rule of a relation it reads, negated or not.
DependsOn(r) == {s \in Rules : program.head[s] \in program.reads[r] \cup program.negates[r]}

Negates(r) == {s \in Rules : program.head[s] \in program.negates[r]}

Assigned == UNION ToSet(sccs)

\* Mutant of Recursive: a rule that reads itself is overlooked.
RecursiveIfMany(scc) == Cardinality(scc) > 1

\* A component is recursive: several rules, or one that depends on itself.
Recursive(scc) == Cardinality(scc) > 1 \/ \E r \in scc : r \in DependsOn(r)
-----------------------------------------------------------------------------
Init == /\ program \in Programs
        /\ phase = "ordering"
        /\ visited = {}
        /\ stack = << >>
        /\ order = << >>
        /\ sccs = << >>
        /\ waiting = << >>
        /\ merged = {}
        /\ strata = << >>

\* processing_order_dfs is called, on a key of the map or on a dependency of
\* the innermost rule, that it has not met yet.
Visit(r) == /\ phase = "ordering"
            /\ r \notin visited
            /\ stack # << >> => r \in DependsOn(Head(stack))
            /\ visited' = visited \cup {r}
            /\ stack' = <<r>> \o stack
            /\ UNCHANGED <<program, phase, order, sccs, waiting, merged, strata>>

\* It returns: the rule comes after its dependencies, and the order is read
\* in reverse.
Finish == /\ phase = "ordering"
          /\ stack # << >>
          /\ DependsOn(Head(stack)) \subseteq visited
          /\ stack' = Tail(stack)
          /\ order' = <<Head(stack)>> \o order
          /\ UNCHANGED <<program, phase, visited, sccs, waiting, merged, strata>>

Ordered == /\ phase = "ordering"
           /\ stack = << >>
           /\ visited = Rules
           /\ phase' = "assigning"
           /\ UNCHANGED <<program, visited, stack, order, sccs, waiting, merged, strata>>

\* The transposed graph: who depends on the rule.
Neighbours(r) == {s \in Rules : r \in DependsOn(s)}

Growing == {s \in Rules \ Assigned :
              sccs # << >> /\ \E r \in Last(sccs) : s \in Neighbours(r)}

\* assigning_scc_dfs meets a rule that has no component yet.
Grow(s) == /\ phase = "assigning"
           /\ s \in Growing
           /\ sccs' = [sccs EXCEPT ![Len(sccs)] = @ \cup {s}]
           /\ UNCHANGED <<program, phase, visited, stack, order, waiting, merged, strata>>

\* The next rule in the order starts a component, unless it is in one.
Start == /\ phase = "assigning"
         /\ Growing = {}
         /\ order # << >>
         /\ order' = Tail(order)
         /\ sccs' = IF Head(order) \in Assigned THEN sccs ELSE Append(sccs, {Head(order)})
         /\ UNCHANGED <<program, phase, visited, stack, waiting, merged, strata>>

\* Mutant of NegatesItself: only a rule that negates its own head is refused.
NegatesOwnRule(scc) == \E r \in scc : r \in Negates(r)

\* Negation through recursion: no order of strata evaluates it.
NegatesItself(scc) == Recursive(scc) /\ \E r, s \in scc : s \in Negates(r)

\* Mutant of WaitsFor: a component waits for its own rules too.
WaitsForItself(scc) == UNION {DependsOn(r) : r \in scc}

\* The rules of other components that have to be laid out before.
WaitsFor(scc) == (UNION {DependsOn(r) : r \in scc}) \ scc

\* The components are reversed, so that dependencies come first, and checked;
\* what is left to lay out is computed.
Components == /\ phase = "assigning"
              /\ Growing = {}
              /\ order = << >>
              /\ sccs' = Reverse(sccs)
              /\ phase' = IF \E scc \in ToSet(sccs) : NegatesItself(scc)
                          THEN "refused" ELSE "merging"
              /\ waiting' = [i \in DOMAIN sccs |-> WaitsFor(sccs'[i])]
              /\ UNCHANGED <<program, visited, stack, order, merged, strata>>

Unmerged == DOMAIN sccs \ merged

\* Mutant of Ready: a component that waits for one rule is laid out as well.
ReadyTooSoon == {i \in Unmerged : Cardinality(waiting[i]) <= 1}

Ready == {i \in Unmerged : waiting[i] = {}}

\* The order in which a loop over indices meets those of a set.
Ascending(indices) ==
    CHOOSE seq \in [1 .. Cardinality(indices) -> indices] :
        /\ ToSet(seq) = indices
        /\ \A j, k \in DOMAIN seq : j < k => seq[j] < seq[k]

\* One round: every component that waits for nothing is laid out, the
\* non-recursive ones together and first.
MergeRound ==
    LET recursive == Ascending({i \in Ready : Recursive(sccs[i])})
        batch == UNION {sccs[i] : i \in {j \in Ready : ~ Recursive(sccs[j])}}
        laidOut == UNION {sccs[i] : i \in Ready}
    IN /\ phase = "merging"
       /\ Unmerged # {}
       /\ merged' = merged \cup Ready
       /\ waiting' = [i \in DOMAIN sccs |-> waiting[i] \ laidOut]
       /\ strata' = strata
                    \o (IF batch = {} THEN << >> ELSE <<[rules |-> batch, recursive |-> FALSE]>>)
                    \o [k \in DOMAIN recursive |-> [rules |-> sccs[recursive[k]], recursive |-> TRUE]]
       /\ UNCHANGED <<program, phase, visited, stack, order, sccs>>

Merged == /\ phase = "merging"
          /\ Unmerged = {}
          /\ phase' = "done"
          /\ UNCHANGED <<program, visited, stack, order, sccs, waiting, merged, strata>>

Next == \/ \E r \in Rules : Visit(r) \/ Grow(r)
        \/ Finish \/ Ordered \/ Start \/ Components \/ MergeRound \/ Merged
        \/ phase \in {"done", "refused"} /\ UNCHANGED vars

Spec == Init /\ [][Next]_vars /\ WF_vars(Next)
-----------------------------------------------------------------------------
\* Sets that hold, with a rule, what it depends on.
Closed == {C \in SUBSET Rules : \A r \in C : DependsOn(r) \subseteq C}

\* The rules whose relations r reads, through any number of rules: those in
\* every such set that holds what r depends on.
Reached == [r \in Rules |-> {s \in Rules : \A C \in Closed : DependsOn(r) \subseteq C => s \in C}]

\* A program is refused exactly when some rule negates a relation that is
\* derived, through any number of rules, from the rule's own head.
RefusedExactly ==
    LET through == Reached
        unordered == \E r \in Rules : \E s \in Negates(r) : s = r \/ r \in through[s]
    IN phase \in {"done", "refused"} => (phase = "refused" <=> unordered)

\* Every rule is evaluated, in one stratum.  What it reads is complete when
\* its stratum starts, or is derived in the same recursive stratum by rules
\* that read this rule in turn; and what it negates is always complete.
DependenciesComeFirst == phase = "done" =>
    LET through == Reached IN
    /\ \A r \in Rules : Cardinality({i \in DOMAIN strata : r \in strata[i].rules}) = 1
    /\ \A i \in DOMAIN strata : \A r \in strata[i].rules : \A s \in DependsOn(r) :
          \/ \E j \in 1..(i-1) : s \in strata[j].rules
          \/ /\ s \in strata[i].rules
             /\ strata[i].recursive
             /\ r \in through[s]
             /\ s \notin Negates(r)

\* A stratum is iterated to a fixpoint exactly when its rules read themselves.
IteratedWhenNeeded == phase = "done" =>
    LET through == Reached IN
    \A i \in DOMAIN strata : \A r \in strata[i].rules :
        strata[i].recursive <=> r \in through[r]

\* The loop of rounds ends: every round finds a component to lay out.
Terminates == <>(phase \in {"done", "refused"})
=============================================================================
