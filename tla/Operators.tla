----------------------------- MODULE Operators ------------------------------
(***************************************************************************)
(* What the operators of a plan compute, row by row, and which generated   *)
(* operator each transformation is given.                                  *)
(*                                                                         *)
(* A row of a collection is [key, val], two sequences of cells.  In a flow *)
(* every signature has become a position <<side, part, column>>.  A result *)
(* is [rows, fault]: a comparison that divides by zero drops its row and   *)
(* faults the evaluation.                                                  *)
(*                                                                         *)
(* A fixed-size operator exists for some arities only, and a dispatch on   *)
(* others panics: halves of keyed rows up to KvMax, rows up to RowMax.     *)
(***************************************************************************)
EXTENDS QueryPlan

CONSTANTS KvMax, RowMax

ASSUME LimitsAssumption == KvMax \in Nat \ {0} /\ RowMax \in Nat \ {0}

\* The last place of a signature in a list of columns.
LastAt(columns, s) == Max({k \in DOMAIN columns : columns[k] = s})

\* The rows that pass, each with its verdict, and whether one faulted.
Passing(verdict, row) ==
    [rows |-> {row[c] : c \in {d \in DOMAIN verdict : verdict[d] = "true"}},
     fault |-> "fault" \in Range(verdict)]

\* Constants first, then equal columns, then the comparisons in order.
Lifted(node, facts) ==
    LET Cell(row, s) == row[LastAt(node.columns, s)]
        filtered == {row \in facts[node.rel] :
                       /\ \A s \in DOMAIN node.constants : Cell(row, s) = node.constants[s]
                       /\ \A s \in DOMAIN node.aliases : Cell(row, s) = Cell(row, node.aliases[s])}
        Env(row) == [s \in Range(node.columns) |-> Cell(row, s)]
    IN Passing([row \in filtered |->
                  AllTrue([k \in DOMAIN node.compares |-> Verdict(node.compares[k], Env(row))])],
               [row \in filtered |->
                  [key |-> [k \in DOMAIN node.key |-> Cell(row, node.key[k])],
                   val |-> [k \in DOMAIN node.val |-> Cell(row, node.val[k])]]])

\* The flow of a join: where a signature is read from.  A column of the right
\* value hides one of the left, and that one a column of the key.
Position(node, s) ==
    IF s \in Range(node.right.val) THEN <<"right", "val", LastAt(node.right.val, s)>>
    ELSE IF s \in Range(node.left.val) THEN <<"left", "val", LastAt(node.left.val, s)>>
    ELSE <<"left", "key", LastAt(node.left.key, s)>>

Flip(position) == <<IF position[1] = "left" THEN "right" ELSE "left", position[2], position[3]>>

\* The operand with the wider value goes first, and the flow is flipped with it.
IsFlipped(node) == Len(node.left.val) < Len(node.right.val)

Flow(node) ==
    [s \in Asked(node) |-> IF IsFlipped(node) THEN Flip(Position(node, s)) ELSE Position(node, s)]

\* A cell of two joined rows.  The key is that of both.
Extract(large, small, position) ==
    IF position[2] = "key" THEN large.key[position[3]]
    ELSE IF position[1] = "left" THEN large.val[position[3]]
    ELSE small.val[position[3]]

\* Where the columns of two joined rows are, by signature.
Cells(flow, pair) == [s \in DOMAIN flow |-> Extract(pair[1], pair[2], flow[s])]

PairVerdict(node, flow, pair) ==
    AllTrue([k \in DOMAIN node.compares |-> Verdict(node.compares[k], Cells(flow, pair))])

PairRow(node, flow, pair) ==
    [key |-> [k \in DOMAIN node.key |-> Extract(pair[1], pair[2], flow[node.key[k]])],
     val |-> [k \in DOMAIN node.val |-> Extract(pair[1], pair[2], flow[node.val[k]])]]

\* The rows of both operands with one key, the operands in their order.
MatchedPairs(node, left, right) ==
    LET large == IF IsFlipped(node) THEN right ELSE left
        small == IF IsFlipped(node) THEN left ELSE right
    IN {p \in large.rows \X small.rows : p[1].key = p[2].key}

Joined(node, left, right) ==
    LET flow == Flow(node)
        pairs == MatchedPairs(node, left, right)
    IN Passing([pair \in pairs |-> PairVerdict(node, flow, pair)], [pair \in pairs |-> PairRow(node, flow, pair)])

\* The subtraction is of whole records; what is left is projected afterwards.
Subtracted(left, right) == {l \in left.rows : \A r \in right.rows : r.key # l.key}

Antijoined(node, left, right) ==
    LET flow == Flow(node)
        none == [key |-> <<>>, val |-> <<>>]
    IN [rows |-> {PairRow(node, flow, <<l, none>>) : l \in Subtracted(left, right)}, fault |-> FALSE]

Computed(node, input) ==
    LET after == [row \in input.rows |-> RunProgram(node.program, row.val)]
    IN Passing([row \in input.rows |-> after[row].verdict],
               [row \in input.rows |-> [key |-> <<>>, val |-> after[row].row]])

\* On heap rows a row program runs inside the join it follows, on the pairs
\* that pass its comparisons.
IsFused(node, fat) == node.op = "compute" /\ fat /\ node.input.op = "join"

FusedJoin(node, program, left, right) ==
    LET flow == Flow(node)
        compared == [pair \in MatchedPairs(node, left, right) |-> PairVerdict(node, flow, pair)]
        after == [pair \in {p \in DOMAIN compared : compared[p] = "true"} |->
                    RunProgram(program, PairRow(node, flow, pair).val)]
    IN Passing([pair \in DOMAIN compared |->
                  IF compared[pair] = "true" THEN after[pair].verdict ELSE compared[pair]],
               [pair \in DOMAIN after |-> [key |-> <<>>, val |-> after[pair].row]])

RECURSIVE Evaluated(_, _, _)

\* The fault of an operator is that of the whole plan.
Evaluated(node, facts, fat) ==
    LET Faulty(result, inputs) == [result EXCEPT !.fault = @ \/ \E i \in inputs : i.fault]
        Of(input) == Evaluated(input, facts, fat)
    IN CASE node.op = "lift" -> Lifted(node, facts)
         [] IsFused(node, fat) ->
              LET left == Of(node.input.left)
                  right == Of(node.input.right)
              IN Faulty(FusedJoin(node.input, node.program, left, right), {left, right})
         [] node.op = "compute" /\ ~ IsFused(node, fat) ->
              LET input == Of(node.input) IN Faulty(Computed(node, input), {input})
         [] OTHER ->
              LET left == Of(node.left)
                  right == Of(node.right)
              IN Faulty(IF node.op = "join" THEN Joined(node, left, right) ELSE Antijoined(node, left, right),
                        {left, right})

-----------------------------------------------------------------------------
RECURSIVE NodesOf(_)

NodesOf(node) ==
    {node} \cup (IF node.op \in {"lift", "panic"} THEN {}
                 ELSE IF node.op = "compute" THEN NodesOf(node.input)
                 ELSE NodesOf(node.left) \cup NodesOf(node.right))

\* Columns of the key and of the value of every collection of a plan.
Arities(node) ==
    {<<Len(n.key), Len(n.val)>> : n \in NodesOf(node)}
    \cup {<<0, Len(n.columns)>> : n \in {m \in NodesOf(node) : m.op = "lift"}}

\* One collection too wide for the fixed-size rows puts the program on fat ones.
IsFat(arities) ==
    \E a \in arities : IF a[1] = 0 THEN a[2] > RowMax ELSE a[1] > KvMax \/ a[2] > KvMax

\* A lift that only names its relation builds no operator.
IsNoOp(node) ==
    /\ node.key = <<>> \/ node.val = <<>>
    /\ DOMAIN node.constants = {} /\ DOMAIN node.aliases = {} /\ node.compares = <<>>
    /\ node.key \o node.val = node.columns

\* Projections that keep a column at least.
row_row_space_kept == (1..RowMax) \X (1..RowMax)

\* The shapes of which a fixed-size operator is generated.  A row program may
\* read no column and a projection may keep none; the wider value comes first.
row_row_space == (1..RowMax) \X (0..RowMax)

row_program_space == (0..RowMax) \X (0..RowMax)

row_kv_space == {s \in (1..RowMax) \X (1..KvMax) \X (1..KvMax) : s[1] >= s[2] + s[3]}

jn_space == {s \in (1..KvMax) \X (1..KvMax) \X (1..KvMax) \X (1..RowMax) : s[2] >= s[3]}

kv_k_jn_space == (1..KvMax) \X (1..KvMax) \X (1..RowMax)

k_k_jn_space == (1..KvMax) \X (1..RowMax)

kv_antijoin_space == {s \in (1..KvMax) \X (1..KvMax) \X (1..RowMax) : s[1] + s[2] >= s[3]}

k_antijoin_space == {s \in (1..KvMax) \X (1..KvMax) : s[1] >= s[2]}

aggregation_space == 0..(RowMax - 1)

Target(node) == Len(node.key) + Len(node.val)

\* A row, or keys alone, is one projection; a key and a value are two.
RowHasArm(node) ==
    /\ node.key = <<>> \/ node.val = <<>>
    /\ <<Len(node.columns), Target(node)>> \in row_row_space

LiftHasArm(node) ==
    \/ IsNoOp(node)
    \/ RowHasArm(node)
    \/ <<Len(node.columns), Len(node.key), Len(node.val)>> \in row_kv_space

ProgramHasArm(node) == <<Len(node.input.val), Target(node)>> \in row_program_space

\* A join with an operand of keys alone.
SetJoinHasArm(node, wider) ==
    IF wider > 0 THEN <<Len(node.left.key), wider, Target(node)>> \in kv_k_jn_space
    ELSE <<Len(node.left.key), Target(node)>> \in k_k_jn_space

\* A product of a shape that has no arm is one of heap rows.
JoinHasArm(node) ==
    LET k == Len(node.left.key)
        large == Max({Len(node.left.val), Len(node.right.val)})
        small == Min({Len(node.left.val), Len(node.right.val)})
    IN \/ k = 0
       \/ k > 0 /\ small > 0 /\ <<k, large, small, Target(node)>> \in jn_space
       \/ k > 0 /\ small = 0 /\ SetJoinHasArm(node, large)

AntijoinHasArm(node) ==
    IF node.left.val = <<>> THEN <<Len(node.left.key), Target(node)>> \in k_antijoin_space
    ELSE <<Len(node.left.key), Len(node.left.val), Target(node)>> \in kv_antijoin_space

HasArm(node) ==
    CASE node.op = "lift" -> LiftHasArm(node)
      [] node.op = "compute" -> ProgramHasArm(node)
      [] node.op = "join" -> JoinHasArm(node)
      [] node.op = "antijoin" -> AntijoinHasArm(node)

\* An aggregate groups by all its columns but one.
AggregateHasArm(head) == head.agg = <<>> \/ Len(head.args) - 1 \in aggregation_space

\* Whether every operator of a program can be built, of planned rules
\* [head, plan].
AreBuilt(planned) ==
    \/ IsFat(UNION {Arities(p.plan) : p \in planned})
    \/ \A p \in planned : AggregateHasArm(p.head) /\ \A n \in NodesOf(p.plan) : HasArm(n)
=============================================================================
