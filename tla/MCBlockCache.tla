---------------------------- MODULE MCBlockCache ----------------------------
(* Three loaders in one process and one in another; three share a cache,   *)
(* and one builds in a temporary directory of its own under the same lock. *)
EXTENDS BlockCache, TLC

CONSTANTS l1, l2, l3, l4, p1, p2, shared, own

MCLoaders == {l1, l2, l3, l4}
MCProcesses == {p1, p2}
MCProcessOf == (l1 :> p1) @@ (l2 :> p1) @@ (l3 :> p1) @@ (l4 :> p2)
MCRoots == {shared, own}
MCRootOf == (l1 :> shared) @@ (l2 :> shared) @@ (l3 :> own) @@ (l4 :> shared)
=============================================================================
