--------------------------- MODULE DataflowMeaning ---------------------------
(***************************************************************************)
(* What a program means, computed apart from how it is evaluated, and the  *)
(* dataflow against it.                                                    *)
(***************************************************************************)
EXTENDS Dataflow, Relation

\* Relations a relation is derived from, through any number of rules.
From == TransitiveClosure([g, h \in Derivable |-> \E r \in Rules :
            program.head[r] = g /\ h \in program.reads[r] \cup program.negates[r]], Derivable)

\* The least rows of some relations that derive one another.
RECURSIVE LeastOf(_, _)
LeastOf(hs, model) ==
    LET next == [a \in DOMAIN model |-> IF a \in hs THEN Derived(a, model) ELSE model[a]]
    IN IF next = model THEN model ELSE LeastOf(hs, next)

\* The perfect model: relations whose sources are complete, one after another.
RECURSIVE Completed(_, _)
Completed(todo, model) ==
    IF todo = {} THEN model
    ELSE LET from == From
             h == CHOOSE g \in todo : \A s \in todo : from[g, s] => from[s, g]
             hs == {h} \cup {g \in todo : from[h, g] /\ from[g, h]}
         IN Completed(todo \ hs, LeastOf(hs, model))

PerfectModel == Completed(Derivable, [a \in Derivable \cup DOMAIN facts |->
                                        IF a \in DOMAIN facts THEN facts[a] ELSE {}])

\* However its rules fall into strata and groups, in whatever order, and
\* whatever they share: every relation comes out as the program means it.
\* (assemble_group and the collectors against the meaning of the rules)
MeansTheProgram ==
    stage = "done" => \A h \in Derivable : made[Atom(h)] = PerfectModel[h]
=============================================================================
