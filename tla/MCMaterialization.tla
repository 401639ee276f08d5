------------------------- MODULE MCMaterialization -------------------------
(* Three workers, so that a pass over the batches leaves one by itself, two *)
(* helpers with a head each, one row retracted, and one row too many.       *)
EXTENDS Materialization

CONSTANTS h1, h2

MCHelpers == {h1, h2}
MCThreads == (0 .. 2) \cup MCHelpers
MCInputLen == <<1, 1>>
=============================================================================
