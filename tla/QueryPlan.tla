----------------------------- MODULE QueryPlan ------------------------------
(***************************************************************************)
(* The plan of one rule: a tree of transformations.                        *)
(*   lift      a base atom, filtered and projected                         *)
(*   join      of two collections with the same key, or, without a key,    *)
(*             their product                                               *)
(*   antijoin  the rows of the left whose key the right does not have      *)
(*   compute   a row program over rows                                     *)
(* The columns of a collection are signatures, as a key and a value; an    *)
(* empty key makes it a collection of rows.  Panicked is where the source  *)
(* panics.  A recursive step also returns which non-core and negated       *)
(* atoms no part of the plan has used yet.                                 *)
(***************************************************************************)
EXTENDS JoinTree, RowProgram

Panicked == [op |-> "panic", key |-> <<>>, val |-> <<>>]

RetainedNames(rule, kind, i) == Names(rule, Retained(rule, Signatures(rule, kind, i)))

\* The names that are no keys, each once.
Others(names, keys) == Distinct(SelectSeq(names, LAMBDA name : name \notin Range(keys)))

Traced(rule, names, ids) == [k \in DOMAIN names |-> Trace(rule, names[k], ids)]

Located(expression, at) ==
    LET Put(arg) == IF IsVar(arg) THEN <<"var", at[arg[2]]>> ELSE arg
    IN [init |-> Put(expression.init),
        rest |-> [k \in DOMAIN expression.rest |-> <<expression.rest[k][1], Put(expression.rest[k][2])>>]]

\* The comparisons over the names that have a signature, with it for the name.
Assembled(comparisons, at) ==
    LET bound == SelectSeq(comparisons, LAMBDA c : Variables(Compared(c)) \subseteq DOMAIN at)
    IN [k \in DOMAIN bound |-> [bound[k] EXCEPT !.left = Located(@, at), !.right = Located(@, at)]]

Lift(rule, kind, i, key, val, compares) ==
    LET columns == Signatures(rule, kind, i)
    IN [op |-> "lift", rel |-> (IF kind = "pos" THEN rule.pos ELSE rule.neg)[i].rel,
        columns |-> columns, key |-> key, val |-> val, compares |-> compares,
        constants |-> [s \in ConstantsIn(rule, columns) |-> ArgumentOf(rule, s)],
        aliases |-> [s \in AliasesIn(rule, columns) |-> Original(rule, s)]]

Join(left, right, key, val, compares) ==
    [op |-> "join", left |-> left, right |-> right, key |-> key, val |-> val, compares |-> compares]

Antijoin(left, right, key, val) ==
    [op |-> "antijoin", left |-> left, right |-> right, key |-> key, val |-> val, compares |-> <<>>]

-----------------------------------------------------------------------------
RECURSIVE Semijoins(_, _, _, _, _, _), Antijoins(_, _, _, _, _, _, _)

\* A core atom, semijoined with the non-core atoms it covers.  The comparisons
\* are applied to the core atom, and again to each other one that can.
Semijoins(rule, i, subs, key, val, comparisons) ==
    IF subs = <<>> THEN
        LET placed == Assembled(comparisons, [name \in VariablesOf(rule, i) |-> Trace(rule, name, <<i>>)])
        IN IF Len(placed) # Len(comparisons) THEN Panicked
           ELSE Lift(rule, "pos", i, Traced(rule, key, <<i>>), Traced(rule, val, <<i>>), placed)
    ELSE
        LET sub == Last(subs)
            names == RetainedNames(rule, "pos", sub)
            at == [name \in Range(names) |-> Trace(rule, name, <<sub>>)]
        IN Join(Semijoins(rule, i, Front(subs), names, Others(key \o val, names), comparisons),
                Lift(rule, "pos", sub, Retained(rule, Signatures(rule, "pos", sub)), <<>>,
                     Assembled(comparisons, at)),
                Traced(rule, key, <<i>>), Traced(rule, val, <<i>>), <<>>)

\* The antijoins over a collection, the last negated atom at the top.
Antijoins(rule, ids, base, negated, key, val, comparisons) ==
    IF negated = <<>> THEN base
    ELSE
        LET n == Last(negated)
            names == RetainedNames(rule, "neg", n)
            at == [name \in Range(names) |-> TraceNegated(rule, name, n)]
        IN IF names = <<>> THEN Panicked
           ELSE Antijoin(Antijoins(rule, ids, base, Front(negated), names, Others(key \o val, names), comparisons),
                         Lift(rule, "neg", n, Retained(rule, Signatures(rule, "neg", n)), <<>>,
                              Assembled(comparisons, at)),
                         Traced(rule, key, ids), Traced(rule, val, ids))

\* A leaf of the join tree, with the atoms it covers that are still active.
PerAtom(rule, i, key, val, active, comparisons) ==
    LET retained == Retained(rule, Signatures(rule, "pos", i))
        subs == SelectSeq(SubAtoms(rule, retained), LAMBDA a : a \in active.sub)
        negated == SelectSeq(SubNegatedAtoms(rule, retained), LAMBDA a : a \in active.neg)
        first == RetainedNames(rule, "neg", negated[1])
        wanted == Range(key) \cup Range(val) \cup UNION {NegatedVariables(rule, n) : n \in Range(negated)}
        carried == SelectSeq(Names(rule, retained), LAMBDA v : v \notin Range(first) /\ v \in wanted)
    IN [node |-> IF negated = <<>> THEN Semijoins(rule, i, subs, key, val, comparisons)
                 ELSE Antijoins(rule, <<i>>, Semijoins(rule, i, subs, first, carried, comparisons),
                                negated, key, val, comparisons),
        active |-> [sub |-> active.sub \ Range(subs), neg |-> active.neg \ Range(negated)]]

\* How a join is taken apart: what its sides join on and have to carry, which
\* comparisons go where, and the negated atoms that only both sides bind.
Sides(rule, tree, root, wanted, active, comparisons) ==
    LET Bound(ids) == Distinct(FlattenSeq([k \in DOMAIN ids |-> RetainedNames(rule, "pos", ids[k])]))
        planning == Bound(SubTree(tree, Last(tree[root])))
        leftover == Bound(Leftover(tree, root))
        part == PartitionComparisons(comparisons, Range(leftover), Range(planning))
        negated == NegatedOnJoin(rule, Range(leftover), Range(planning), active)
        carried == UNION ({wanted} \cup {Variables(Compared(c)) : c \in Range(part.join)}
                          \cup {NegatedVariables(rule, n) : n \in Range(negated)})
    IN [joined |-> SelectSeq(planning, LAMBDA v : v \in Range(leftover)),
        left |-> SelectSeq(leftover, LAMBDA v : v \in carried \ Range(planning)),
        right |-> SelectSeq(planning, LAMBDA v : v \in carried \ Range(leftover)),
        names |-> Range(planning) \cup Range(leftover), part |-> part, negated |-> negated,
        comparisons |-> comparisons]

RECURSIVE Transformed(_, _, _, _, _, _, _), TransformedJoin(_, _, _, _, _, _, _)

Transformed(rule, tree, root, key, val, active, comparisons) ==
    IF tree[root] = <<>> THEN PerAtom(rule, root, key, val, active, comparisons)
    ELSE TransformedJoin(rule, tree, root, key, val, active,
                         Sides(rule, tree, root, Range(key) \cup Range(val), active.neg, comparisons))

\* The join of the last subtree of a root with what is left of it, under its
\* antijoins.  The side split off is planned first, and takes the atoms that
\* either side could use.
TransformedJoin(rule, tree, root, key, val, active, sides) ==
    LET cut == Truncated(tree, root)
        rest == [active EXCEPT !.neg = @ \ Range(sides.negated)]
        right == Transformed(rule, cut, Last(tree[root]), sides.joined, sides.right, rest, sides.part.right)
        left == Transformed(rule, cut, root, sides.joined, sides.left, right.active, sides.part.left)
        under == SubTree(tree, root)
        at == [name \in sides.names |-> Trace(rule, name, under)]
        compares == Assembled(sides.part.join, at)
        first == RetainedNames(rule, "neg", sides.negated[1])
        Joined(k, v) == Join(left.node, right.node, Traced(rule, k, under), Traced(rule, v, under), compares)
    IN [node |-> IF ~ sides.part.sound THEN Panicked
                 ELSE IF sides.negated = <<>> THEN Joined(key, val)
                 ELSE Antijoins(rule, under,
                                Joined(first, Others(sides.joined \o sides.left \o sides.right, first)),
                                sides.negated, key, val, sides.comparisons),
        active |-> left.active]

\* The row program over the relational part, if the rule has one.  Every atom
\* must have found its place.
Programmed(rule, whole) ==
    IF whole.active # [sub |-> {}, neg |-> {}] \/ ~ ProgramIsSound(rule) THEN Panicked
    ELSE IF HasProgram(rule) THEN
        [op |-> "compute", input |-> whole.node, program |-> ProgramOf(rule), key |-> <<>>,
         val |-> [k \in DOMAIN rule.head.args |-> <<"head", 0, k>>]]
    ELSE whole.node

\* The plan of a rule over a join tree: the relational part projects the head,
\* or what the row program reads.
PlanOver(rule, tree) ==
    LET value == IF HasProgram(rule) THEN Inputs(rule)
                 ELSE [k \in DOMAIN rule.head.args |-> rule.head.args[k].init[2]]
        active == [sub |-> {i \in DOMAIN rule.pos : ~ IsCore(rule, i)}, neg |-> DOMAIN rule.neg]
    IN Programmed(rule, Transformed(rule, tree.tree, tree.root, <<>>, value, active, RelationalComparisons(rule)))

\* The signatures a transformation can read: of a join the right key is not
\* among them, being the left one.
Readable(node) ==
    IF node.op = "lift" THEN Range(node.columns)
    ELSE Range(node.left.key) \cup Range(node.left.val) \cup Range(node.right.val)

Asked(node) ==
    Range(node.key) \cup Range(node.val)
    \cup UNION {Variables(Compared(c)) : c \in Range(node.compares)}

RECURSIVE Panics(_)

\* A signature absent from the inputs, keys of two lengths, an antijoin
\* against more than keys, a row program over keyed rows.
Panics(node) ==
    CASE node.op = "panic" -> TRUE
      [] node.op = "lift" -> ~ Asked(node) \subseteq Readable(node)
      [] node.op = "compute" -> Panics(node.input) \/ node.input.key # <<>>
      [] OTHER -> \/ Panics(node.left) \/ Panics(node.right)
                  \/ ~ Asked(node) \subseteq Readable(node)
                  \/ Len(node.left.key) # Len(node.right.key)
                  \/ node.op = "antijoin" /\ node.right.val # <<>>
=============================================================================
