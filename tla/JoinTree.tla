------------------------------ MODULE JoinTree ------------------------------
(***************************************************************************)
(* The order in which a plan joins the core atoms of a rule.  A tree maps  *)
(* every core atom to its children, in order; the last child is split off  *)
(* first, and its subtree is the right side of the last join.              *)
(***************************************************************************)
EXTENDS Catalog

RECURSIVE SubTree(_, _)

\* The atoms under one, in pre-order.
SubTree(tree, x) == <<x>> \o FlattenSeq([k \in DOMAIN tree[x] |-> SubTree(tree, tree[x][k])])

\* What a join leaves on the side of its root when the last child is split off.
Leftover(tree, x) ==
    <<x>> \o FlattenSeq([k \in 1..(Len(tree[x]) - 1) |-> SubTree(tree, tree[x][k])])

Truncated(tree, x) == [tree EXCEPT ![x] = Front(tree[x])]

\* A chain with the last core atom as its root.
DefaultTree(rule) ==
    LET core == CoreAtoms(rule)
    IN [root |-> Last(core),
        tree |-> [x \in Range(core) |->
                    IF x = core[1] THEN <<>>
                    ELSE <<core[(CHOOSE k \in DOMAIN core : core[k] = x) - 1]>>]]

-----------------------------------------------------------------------------
(* The optimizer's trees: a maximum spanning tree from every core atom     *)
(* (Prim), its children in every order, of which the narrowest is kept.    *)

Overlap(rule, x, y) == Cardinality(VariablesOf(rule, x) \cap VariablesOf(rule, y))

\* The heap's order: more shared variables, then nearer to the root, then the
\* larger identifiers.
Above(a, b) ==
    \/ a.overlap > b.overlap
    \/ a.overlap = b.overlap /\ a.depth < b.depth
    \/ a.overlap = b.overlap /\ a.depth = b.depth /\ a.parent > b.parent
    \/ a.overlap = b.overlap /\ a.depth = b.depth /\ a.parent = b.parent /\ a.child > b.child

\* One visit: the best edge to an atom outside the tree, and its neighbours.
\* An atom that shares nothing with the one visited hangs under the root.
Visit(rule, root, state) ==
    LET open == {e \in state.heap : e.child \notin DOMAIN state.tree}
        best == CHOOSE e \in open : \A f \in open \ {e} : Above(e, f)
        tree == IF best.child = root THEN root :> <<>>
                ELSE (best.child :> <<>>)
                     @@ [state.tree EXCEPT ![best.parent] = Append(@, best.child)]
        Edge(y) == IF Overlap(rule, best.child, y) > 0
                   THEN [overlap |-> Overlap(rule, best.child, y), depth |-> best.depth + 1,
                         parent |-> best.child, child |-> y]
                   ELSE [overlap |-> 0, depth |-> 1, parent |-> root, child |-> y]
    IN [tree |-> tree,
        heap |-> state.heap \cup {Edge(y) : y \in Range(CoreAtoms(rule)) \ DOMAIN tree}]

SpanningTree(rule, root) ==
    LET visited == FoldLeft(LAMBDA state, step : Visit(rule, root, state),
                            [tree |-> <<>>,
                             heap |-> {[overlap |-> 0, depth |-> 0, parent |-> Len(rule.pos) + 1,
                                        child |-> root]}],
                            CoreAtoms(rule)).tree
    IN [x \in DOMAIN visited |-> SetToSortSeq(Range(visited[x]), <)]

Reordered(tree) ==
    {t \in [DOMAIN tree -> UNION {SetToSeqs(Range(tree[x])) : x \in DOMAIN tree}] :
       \A x \in DOMAIN tree : t[x] \in SetToSeqs(Range(tree[x]))}

RECURSIVE Depth(_, _), Width(_, _, _, _)

Depth(tree, x) ==
    IF tree[x] = <<>> THEN 0 ELSE 1 + Max({Depth(tree, y) : y \in Range(tree[x])})

\* The most variables that a join of the tree carries.
Width(rule, tree, x, wanted) ==
    IF tree[x] = <<>> THEN 0
    ELSE LET planning == VarsSet(rule, Range(SubTree(tree, Last(tree[x]))))
             leftover == VarsSet(rule, Range(Leftover(tree, x)))
             right == planning \cap (leftover \cup wanted)
             left == leftover \cap (planning \cup wanted)
         IN Max({Width(rule, Truncated(tree, x), Last(tree[x]), right),
                 Width(rule, Truncated(tree, x), x, left),
                 Cardinality(left \cup right)})

\* A tree replaces the best so far only when it is strictly narrower, or as
\* narrow and flatter; the orders of one tree come in no particular order.
Narrower(rule, t, u) ==
    LET Cost(v) == <<Width(rule, v.tree, v.root, HeadVariables(rule)), Depth(v.tree, v.root)>>
    IN \/ Cost(t)[1] < Cost(u)[1]
       \/ Cost(t)[1] = Cost(u)[1] /\ Cost(t)[2] < Cost(u)[2]

\* The default tree is tried first, then those from every root in order.
Best(rule, default, others) ==
    LET all == {default} \cup others
        best == {t \in all : \A u \in all : ~ Narrower(rule, u, t)}
    IN IF default \in best THEN {default} ELSE {t \in best : \A u \in best : t.root <= u.root}

JoinTrees(rule, optimized) ==
    LET From(root) == {[root |-> root, tree |-> t] : t \in Reordered(SpanningTree(rule, root))}
    IN IF optimized THEN Best(rule, DefaultTree(rule), UNION {From(root) : root \in Range(CoreAtoms(rule))})
       ELSE {DefaultTree(rule)}
=============================================================================
