-------------------------- MODULE MCStratification --------------------------
(* Every program of three rules over three relations, each derived by one  *)
(* rule, with every choice of what each rule reads and negates; and those  *)
(* where two rules derive one relation.                                    *)
EXTENDS Stratification, TLC

A == "a"
B == "b"
C == "c"

MCRules == 1..3

Bodies == {body \in (SUBSET {A, B, C}) \X (SUBSET {A, B, C}) : body[1] \cap body[2] = {}}

ProgramsOf(heads, bodies) ==
    {[head |-> heads,
      reads |-> [r \in MCRules |-> b[r][1]],
      negates |-> [r \in MCRules |-> b[r][2]]] : b \in [MCRules -> bodies]}

\* Relation c has no rule in the second kind: it is an input.
MCPrograms == ProgramsOf(<<A, B, C>>, Bodies)
              \cup ProgramsOf(<<A, A, B>>, {body \in Bodies : C \notin body[1] \cup body[2]})
=============================================================================
