------------------------------ MODULE Feeding ------------------------------
(***************************************************************************)
(* Which rows of an input each worker feeds (Assembly::build_and_feed):    *)
(* chunks of one size, in the order of the workers, the last ones cut off  *)
(* at the end of the rows by Rows::range.                                  *)
(***************************************************************************)
EXTENDS Integers

CONSTANT Peers   \* the number of workers

ASSUME PeersAssumption == Peers \in Nat \ {0}

Workers == 0 .. Peers - 1

\* rows.len().div_ceil(peers).max(1)
Chunk(n) == LET rounded == (n + Peers - 1) \div Peers
            IN IF rounded < 1 THEN 1 ELSE rounded

\* The positions, from 0, of the rows of an input of n that worker w feeds.
Share(w, n) == {j \in 0 .. n - 1 : w * Chunk(n) <= j /\ j < (w + 1) * Chunk(n)}
=============================================================================
