------------------------------ MODULE Language ------------------------------
(***************************************************************************)
(* Rules as the parser hands them on, and what a rule means.               *)
(*                                                                         *)
(* An argument is <<"var", name>>, <<"any">>, or a value: a constant and a *)
(* cell of a row carry their type, <<"number", 1>> or <<"symbol", "a">>.   *)
(* The body is kept by kind of predicate, each kind in the order written;  *)
(* the order across kinds is read by no step of planning.                  *)
(*   expression  [init |-> argument, rest |-> << <<operator, argument>> >>] *)
(*   comparison  [left, op, right]                                         *)
(*   call        [fn, args, out, lenient], out being "" in a filter, and   *)
(*               lenient true in a prefilter alone                         *)
(*   rule        [head |-> [rel, args, agg], pos, neg, cmp, calls, plan,   *)
(*               sip], agg the columns and operators of its aggregates     *)
(***************************************************************************)
EXTENDS Integers, FiniteSets, Sequences, SequencesExt, FiniteSetsExt, Functions, TLC

CONSTANT FunctionTable   \* [function -> [params, returns, apply]] of the blocks

IsVar(arg) == arg[1] = "var"

IsConst(arg) == arg[1] \in {"number", "symbol"}

Variables(args) == {arg[2] : arg \in {a \in Range(args) : IsVar(a)}}

Literal(arg) == [init |-> arg, rest |-> <<>>]

Factors(expression) == <<expression.init>> \o [k \in DOMAIN expression.rest |-> expression.rest[k][2]]

IsSingle(expression) == expression.rest = <<>>

\* A division can fault; a sum cannot.
CanFault(expression) == \E k \in DOMAIN expression.rest : expression.rest[k][1] = "div"

Compared(comparison) == Factors(comparison.left) \o Factors(comparison.right)

HeadVariables(rule) == UNION {Variables(Factors(e)) : e \in Range(rule.head.args)}

Outputs(calls) == {c.out : c \in Range(calls)} \ {""}

\* What an argument comes to where names, or signatures, have values.
Read(arg, env) == IF IsVar(arg) THEN env[arg[2]] ELSE arg

\* Integer arithmetic; a zero divisor yields no number.
Apply(op, x, y) ==
    IF op = "div" THEN IF y[2] = 0 THEN <<"fault">> ELSE <<"number", x[2] \div y[2]>>
    ELSE <<"number", x[2] + y[2]>>

Compute(expression, env) ==
    FoldLeft(LAMBDA x, step : IF x = <<"fault">> THEN x ELSE Apply(step[1], x, Read(step[2], env)),
             Read(expression.init, env), expression.rest)

Verdict(comparison, env) ==
    LET x == Compute(comparison.left, env)
        y == Compute(comparison.right, env)
    IN IF <<"fault">> \in {x, y} THEN "fault"
       ELSE IF CASE comparison.op = "differ" -> x # y
                 [] comparison.op = "equal" -> x = y
                 [] comparison.op = "below" -> x[2] < y[2]
            THEN "true" ELSE "false"

\* A conjunction of verdicts, as an iterator's all: the first that is not true.
AllTrue(verdicts) ==
    LET bad == {k \in DOMAIN verdicts : verdicts[k] # "true"}
    IN IF bad = {} THEN "true" ELSE verdicts[Min(bad)]

Called(call, env) ==
    FunctionTable[call.fn].apply[[k \in DOMAIN call.args |-> Read(call.args[k], env)]]

-----------------------------------------------------------------------------
(* The meaning of a rule: the rows its head takes over the solutions of    *)
(* its body, whatever plan computes them.                                  *)

FirstAt(atom, name) == Min({i \in DOMAIN atom.args : atom.args[i] = <<"var", name>>})

Bindings(atom, row) == [name \in Variables(atom.args) |-> row[FirstAt(atom, name)]]

Matches(atom, row, env) ==
    \A i \in DOMAIN atom.args : atom.args[i] = <<"any">> \/ Read(atom.args[i], env) = row[i]

Solutions(atoms, facts) ==
    FoldLeft(LAMBDA envs, atom :
               {p[1] @@ Bindings(atom, p[2]) :
                  p \in {q \in envs \X facts[atom.rel] :
                           Matches(atom, q[2], q[1] @@ Bindings(atom, q[2]))}},
             {[name \in {} |-> 0]}, atoms)

\* An environment after the calls of a rule, in order; dropped by a filter
\* that says no and by a fault.
AfterCalls(calls, envs) ==
    FoldLeft(LAMBDA passed, call :
               IF call.out = "" THEN {env \in passed : Called(call, env) = <<"true">>}
               ELSE {env @@ (call.out :> Called(call, env)) :
                       env \in {e \in passed : Called(call, e) # <<"fault">>}},
             envs, calls)

BodyOf(rule, facts) ==
    {env \in AfterCalls(rule.calls,
                        {env \in Solutions(rule.pos, facts) :
                           \A a \in Range(rule.neg) : \A row \in facts[a.rel] : ~ Matches(a, row, env)}) :
       \A c \in Range(rule.cmp) : Verdict(c, env) = "true"}

RowsOf(rule, facts) ==
    {[k \in DOMAIN rule.head.args |-> Compute(rule.head.args[k], env)] : env \in BodyOf(rule, facts)}
=============================================================================
