------------------------- MODULE EvaluationPromise -------------------------
(***************************************************************************)
(* What one evaluation promises its caller: it answers once, either with   *)
(* every row the program derives or with a reason that has come up; and it *)
(* does not answer with rows once a reason that cannot pass has come up.   *)
(***************************************************************************)
CONSTANTS Rows,      \* what the program derives
          Reasons,   \* why an evaluation may be refused or stopped
          Passing    \* the reasons that may pass: memory that was given back

VARIABLES met,      \* the reasons that have come up so far
          answer,   \* "none" while it runs, then "ok" or a reason
          rows      \* the rows answered

vars == <<met, answer, rows>>

Init == /\ met \in SUBSET Reasons
        /\ answer = "none"
        /\ rows = {}

ComeUp == /\ answer = "none"
          /\ \E reason \in Reasons : met' = met \cup {reason}
          /\ UNCHANGED <<answer, rows>>

AnswerRows == /\ answer = "none"
              /\ met \subseteq Passing
              /\ answer' = "ok"
              /\ rows' = Rows
              /\ UNCHANGED met

AnswerReason == /\ answer = "none"
                /\ answer' \in met
                /\ UNCHANGED <<met, rows>>

Next == ComeUp \/ AnswerRows \/ AnswerReason

Spec == Init /\ [][Next]_vars
=============================================================================
