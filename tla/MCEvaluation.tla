---------------------------- MODULE MCEvaluation ----------------------------
(* Two workers and two derived rows, one in the share of each worker.  The *)
(* instances differ in which reasons to stop may come up.                  *)
EXTENDS Evaluation, TLC

CONSTANTS w1, w2, r1, r2

MCWorkers == {w1, w2}
MCRows == {r1, r2}
MCShare == (r1 :> w1) @@ (r2 :> w2)
=============================================================================
