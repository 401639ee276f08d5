----------------------------- MODULE Admission -----------------------------
(***************************************************************************)
(* The admission limit of the engine: how many evaluations run at once.    *)
(*                                                                         *)
(* Engine::evaluate_inner takes a guard before it runs the program and the *)
(* guard is dropped when the evaluation ends, by a result, by a diagnostic *)
(* or by a panic that unwinds through it.  The limit is a counter under a  *)
(* mutex and a condition variable: a thread that finds no room waits, and  *)
(* every drop wakes one waiter, which has to take the mutex again and look *)
(* again, behind any thread that arrived in between.                       *)
(*                                                                         *)
(* Each member of Evaluations is one call of Engine::evaluate.  What runs  *)
(* under the mutex is one step; std's condition variable may also wake a   *)
(* waiter that nobody notified.                                            *)
(***************************************************************************)
EXTENDS Naturals, FiniteSets

CONSTANTS Evaluations,   \* the calls of Engine::evaluate
          Limit          \* EngineConfig::max_concurrent; 0 is no limit

ASSUME AdmissionAssumption == /\ IsFiniteSet(Evaluations)
                              /\ Limit \in Nat

VARIABLES pc,        \* where each call stands
          running    \* Admission::running

vars == <<pc, running>>

Stages == {"called", "arriving", "waiting", "woken", "admitted", "ended"}

At(stage) == {e \in Evaluations : pc[e] = stage}

Goto(e, from, to) == /\ pc[e] = from
                     /\ pc' = [pc EXCEPT ![e] = to]

\* Mutant of Full: the bound is off by one.
FullOffByOne == Limit > 0 /\ running > Limit

Full == Limit > 0 /\ running >= Limit
-----------------------------------------------------------------------------
Init == /\ pc = [e \in Evaluations |-> "called"]
        /\ running = 0

\* The program parses and its constants are lowered: the call reaches acquire.
Arrive(e) == /\ Goto(e, "called", "arriving")
             /\ UNCHANGED running

\* The program is refused before admission, by a parse error for instance.
Refuse(e) == /\ Goto(e, "called", "ended")
             /\ UNCHANGED running

\* acquire holds the mutex, on arrival or after a wake-up, and finds room.
Admit(e) == /\ ~ Full
            /\ Goto(e, "arriving", "admitted") \/ Goto(e, "woken", "admitted")
            /\ running' = running + 1

\* acquire finds the engine full: Condvar::wait releases the mutex and waits
\* in one step.
Wait(e) == /\ Full
           /\ Goto(e, "arriving", "waiting") \/ Goto(e, "woken", "waiting")
           /\ UNCHANGED running

SpuriousWake(e) == /\ Goto(e, "waiting", "woken")
                   /\ UNCHANGED running

\* Mutant of Release: the guard's drop forgets notify_one.
ReleaseWithoutNotify(e) == /\ Goto(e, "admitted", "ended")
                           /\ running' = running - 1

\* The guard is dropped: one place is free and one waiter, if any, is woken.
Release(e) ==
    /\ pc[e] = "admitted"
    /\ running' = running - 1
    /\ IF At("waiting") = {}
       THEN pc' = [pc EXCEPT ![e] = "ended"]
       ELSE \E w \in At("waiting") :
              pc' = [pc EXCEPT ![e] = "ended", ![w] = "woken"]

\* Every call has returned; there is nothing left to do.
Finished == At("ended") = Evaluations /\ UNCHANGED vars

Next == \/ \E e \in Evaluations : \/ Arrive(e) \/ Refuse(e)
                                  \/ Admit(e) \/ Wait(e)
                                  \/ SpuriousWake(e) \/ Release(e)
        \/ Finished

\* A thread that may take the mutex takes it, and an admitted evaluation ends
\* (by its result or by its limits).  A call need never arrive and a waiter
\* need never wake by itself.
Fairness == \A e \in Evaluations : /\ WF_vars(Admit(e) \/ Wait(e))
                                   /\ WF_vars(Release(e))

Spec == Init /\ [][Next]_vars /\ Fairness
-----------------------------------------------------------------------------
TypeOK == /\ pc \in [Evaluations -> Stages]
          /\ running \in Nat

\* The counter is the number of evaluations between their admission and the
\* drop of their guard, so it can neither leak a place nor free one twice.
CountsTheAdmitted == running = Cardinality(At("admitted"))

\* Evaluations "under the engine's admission limit": never more at once.
WithinLimit == Limit > 0 => Cardinality(At("admitted")) <= Limit

\* No wake-up is lost.  While anybody waits, every free place is matched by a
\* woken thread on its way to take it, although notify_one may pick a thread
\* that a newcomer then overtakes.
NoLostWakeup == At("waiting") # {} => /\ Limit > 0
                                      /\ running + Cardinality(At("woken")) >= Limit
=============================================================================
