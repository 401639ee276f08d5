------------------------------ MODULE Catalog ------------------------------
(***************************************************************************)
(* The catalog of one rule: where each variable of the body occurs, which  *)
(* atoms the plan joins and which it only filters with, and which part of  *)
(* a plan each comparison and each negated atom belongs to.                *)
(*                                                                         *)
(* A signature <<kind, atom, column>> names one column of one atom of the  *)
(* body, kind being "pos" or "neg".  Absent stands in a list of signatures *)
(* for one that a search did not find, on which the source panics.         *)
(***************************************************************************)
EXTENDS Language

Absent == <<"absent", 0, 0>>

Signatures(rule, kind, i) ==
    LET atoms == IF kind = "pos" THEN rule.pos ELSE rule.neg
    IN [j \in DOMAIN atoms[i].args |-> <<kind, i, j>>]

ArgumentOf(rule, s) == (IF s[1] = "pos" THEN rule.pos ELSE rule.neg)[s[2]].args[s[3]]

\* signature_to_argument_str_map: a constant and a wildcard have no name.
IsNamed(rule, s) == IsVar(ArgumentOf(rule, s))

Names(rule, signatures) ==
    LET named == SelectSeq(signatures, LAMBDA s : IsNamed(rule, s))
    IN [k \in DOMAIN named |-> ArgumentOf(rule, named[k])[2]]

\* The first column of the same atom that holds the same variable: a later
\* one is an alias of it, and is compared rather than carried along.
Original(rule, s) ==
    <<s[1], s[2], Min({j \in 1..s[3] : ArgumentOf(rule, <<s[1], s[2], j>>) = ArgumentOf(rule, s)})>>

IsAlias(rule, s) == IsNamed(rule, s) /\ Original(rule, s) # s

IsFilter(rule, s) == ~ IsNamed(rule, s) \/ IsAlias(rule, s)

Retained(rule, signatures) == SelectSeq(signatures, LAMBDA s : ~ IsFilter(rule, s))

ConstantsIn(rule, signatures) == {s \in Range(signatures) : IsConst(ArgumentOf(rule, s))}

\* Equal columns compared only in an atom that a constant narrows too.
AliasesByConstants(rule, signatures) ==
    IF ConstantsIn(rule, signatures) = {} THEN {} ELSE {s \in Range(signatures) : IsAlias(rule, s)}

AliasesIn(rule, signatures) == {s \in Range(signatures) : IsAlias(rule, s)}

VariablesOf(rule, i) == Range(Names(rule, Signatures(rule, "pos", i)))

NegatedVariables(rule, i) == Range(Names(rule, Signatures(rule, "neg", i)))

\* The variables that the positive atoms of a part of the plan bind.
VarsSet(rule, ids) == UNION {Range(Names(rule, Retained(rule, Signatures(rule, "pos", i)))) : i \in ids}

\* An atom whose variables all occur in another one is no core atom; of two
\* with the same variables the first is.
IsCore(rule, i) ==
    \A j \in DOMAIN rule.pos \ {i} :
       VariablesOf(rule, i) \subseteq VariablesOf(rule, j)
         => VariablesOf(rule, i) = VariablesOf(rule, j) /\ i < j

CoreAtoms(rule) == SelectSeq([i \in DOMAIN rule.pos |-> i], LAMBDA i : IsCore(rule, i))

\* Of the atoms in a list, the first that binds a variable, by signature.
Presence(rule, name, i) ==
    SelectSeq(Retained(rule, Signatures(rule, "pos", i)), LAMBDA s : ArgumentOf(rule, s)[2] = name)

Trace(rule, name, ids) ==
    LET found == FlattenSeq([n \in DOMAIN ids |-> Presence(rule, name, ids[n])])
    IN IF found = <<>> THEN Absent ELSE Head(found)

\* The search in a negated atom looks up the name of every column it passes,
\* and a column without one panics.
TraceNegated(rule, name, i) ==
    LET columns == Signatures(rule, "neg", i)
        stops == {j \in DOMAIN columns :
                    ~ IsNamed(rule, columns[j]) \/ ArgumentOf(rule, columns[j])[2] = name}
    IN IF stops = {} \/ ~ IsNamed(rule, columns[Min(stops)]) THEN Absent ELSE columns[Min(stops)]

\* Non-core atoms, and negated ones, whose variables are among those of a
\* list of signatures.
SubAtoms(rule, signatures) ==
    SelectSeq([i \in DOMAIN rule.pos |-> i],
              LAMBDA i : ~ IsCore(rule, i) /\ VariablesOf(rule, i) \subseteq Range(Names(rule, signatures)))

SubNegatedAtoms(rule, signatures) ==
    SelectSeq([i \in DOMAIN rule.neg |-> i],
              LAMBDA i : NegatedVariables(rule, i) \subseteq Range(Names(rule, signatures)))

\* A comparison that reads the result of a call waits for the row program.
IsComputed(rule, c) == Variables(Compared(c)) \cap Outputs(rule.calls) # {}

RelationalComparisons(rule) == SelectSeq(rule.cmp, LAMBDA c : ~ IsComputed(rule, c))

ComputedComparisons(rule) == SelectSeq(rule.cmp, LAMBDA c : IsComputed(rule, c))

\* Comparisons that one side of a join binds are pushed to that side, to both
\* sides when both do; the others are fused into the join.
PartitionComparisons(comparisons, left, right) ==
    LET Bound(c, names) == Variables(Compared(c)) \subseteq names
    IN [join |-> SelectSeq(comparisons, LAMBDA c : ~ Bound(c, left) /\ ~ Bound(c, right)),
        left |-> SelectSeq(comparisons, LAMBDA c : Bound(c, left)),
        right |-> SelectSeq(comparisons, LAMBDA c : Bound(c, right)),
        sound |-> \A c \in Range(comparisons) : Bound(c, left \cup right)]

\* Active negated atoms that neither side binds and both together do.
NegatedOnJoin(rule, left, right, active) ==
    SelectSeq([i \in DOMAIN rule.neg |-> i],
              LAMBDA i : /\ i \in active
                         /\ ~ NegatedVariables(rule, i) \subseteq left
                         /\ ~ NegatedVariables(rule, i) \subseteq right
                         /\ NegatedVariables(rule, i) \subseteq left \cup right)
=============================================================================
