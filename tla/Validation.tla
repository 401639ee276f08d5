----------------------------- MODULE Validation -----------------------------
(***************************************************************************)
(* What a program has to be before it is planned: its declarations, the    *)
(* shape of each rule, the agreement of the rules of one relation, and the *)
(* type of every column.                                                   *)
(*                                                                         *)
(*   program  [decls |-> << [rel, types] >>, rules |-> <<rule>>, strata]    *)
(*                                                                         *)
(* decls lists the input relations first, then the outputs.  A typing maps *)
(* every relation to the types of its columns, Unknown where none is yet.  *)
(***************************************************************************)
EXTENDS Language

Unknown == "unknown"

declarations(program) ==
    [rel \in {d.rel : d \in Range(program.decls)} |->
       (CHOOSE d \in Range(program.decls) : d.rel = rel).types]

DeclaredOnce(program) ==
    \A i, j \in DOMAIN program.decls : program.decls[i].rel = program.decls[j].rel => i = j

BodyAtoms(rule) == rule.pos \o rule.neg

Positive(rule) == UNION {Variables(a.args) : a \in Range(rule.pos)}

-----------------------------------------------------------------------------
(* The shape of a rule: everything it reads is bound.                      *)

\* A negated atom keeps a column, and all it keeps is bound by positive atoms.
NegationIsSafe(rule) ==
    \A a \in Range(rule.neg) : Variables(a.args) # {} /\ Variables(a.args) \subseteq Positive(rule)

\* A call has a function, bound arguments, and a use its result is fit for.
CallIsSound(rule, n) ==
    LET call == rule.calls[n]
        bound == Positive(rule) \cup Outputs(SubSeq(rule.calls, 1, n - 1))
        function == FunctionTable[call.fn]
    IN /\ call.fn \in DOMAIN FunctionTable
       /\ Len(call.args) = Len(function.params)
       /\ <<"any">> \notin Range(call.args)
       /\ Variables(call.args) \subseteq bound
       /\ IF call.out = "" THEN function.returns = "bool"
          ELSE function.returns # "bool" /\ call.out \notin bound

ComparisonsAreBound(rule) ==
    \A c \in Range(rule.cmp) : Variables(Compared(c)) \subseteq Positive(rule) \cup Outputs(rule.calls)

\* One aggregate at most, and nothing in the head that the body does not bind.
HeadIsBound(rule) ==
    Len(rule.head.agg) <= 2 /\ HeadVariables(rule) \subseteq Positive(rule) \cup Outputs(rule.calls)

check_shape(rule, declared) ==
    LET Fits(rel, args) == rel \in DOMAIN declared => Len(args) = Len(declared[rel])
    IN /\ rule.pos # <<>>
       /\ \A a \in Range(BodyAtoms(rule)) : Fits(a.rel, a.args)
       /\ NegationIsSafe(rule)
       /\ \A n \in DOMAIN rule.calls : CallIsSound(rule, n)
       /\ ComparisonsAreBound(rule)
       /\ HeadIsBound(rule)
       /\ Fits(rule.head.rel, rule.head.args)

\* The same aggregate over the same column in every rule of a relation.
check_head_agreement(rules) ==
    \A r, s \in Range(rules) : r.head.rel = s.head.rel => r.head.agg = s.head.agg

-----------------------------------------------------------------------------
(* The types of the columns.                                               *)

\* Every mention of a relation, with its number of columns.
Mentions(rules) ==
    UNION {{<<r.head.rel, Len(r.head.args)>>} \cup {<<a.rel, Len(a.args)>> : a \in Range(BodyAtoms(r))} :
           r \in Range(rules)}

\* An undeclared relation has one arity in every mention.
AritiesAgree(rules, declared) ==
    \A m, n \in Mentions(rules) : m[1] = n[1] /\ m[1] \notin DOMAIN declared => m[2] = n[2]

relation_arities(rules, declared) ==
    [rel \in DOMAIN declared |-> Len(declared[rel])]
    @@ [rel \in {m[1] : m \in Mentions(rules)} |-> (CHOOSE m \in Mentions(rules) : m[1] = rel)[2]]

\* What the atoms of a body say of the type of each variable.
TypesOf(rule, types, name) ==
    UNION {{types[a.rel][k] : k \in {n \in DOMAIN a.args : a.args[n] = <<"var", name>>}} :
           a \in Range(BodyAtoms(rule))} \ {Unknown}

VariablesAgree(rule, types) ==
    \A name \in Positive(rule) : Cardinality(TypesOf(rule, types, name)) <= 1

\* The result of a call has the type that its function returns.
var_types(rule, types) ==
    [name \in Outputs(rule.calls) |->
       FunctionTable[(CHOOSE c \in Range(rule.calls) : c.out = name).fn].returns]
    @@ [name \in Positive(rule) |->
          IF TypesOf(rule, types, name) = {} THEN Unknown
          ELSE CHOOSE t \in TypesOf(rule, types, name) : TRUE]

\* Any constant taken for a number.
expression_type_number(expression, vars) ==
    IF IsSingle(expression) /\ IsVar(expression.init) THEN vars[expression.init[2]] ELSE "number"

\* A constant has its own type, and anything with an operator is a number.
expression_type(expression, vars) ==
    IF ~ IsSingle(expression) THEN "number"
    ELSE IF IsVar(expression.init) THEN vars[expression.init[2]] ELSE expression.init[1]

IsCounted(rule, k) == rule.head.agg = <<k, "count">>

head_arg_type(rule, k, vars) ==
    IF IsCounted(rule, k) THEN "number" ELSE expression_type(rule.head.args[k], vars)

\* One rule of a round: a column takes the first type derived for it, and a
\* second type for it is a conflict, as is a variable of two types.
InferRule(state, rule) ==
    LET columns == state.types[rule.head.rel]
        derived == [k \in DOMAIN columns |-> head_arg_type(rule, k, var_types(rule, state.types))]
        Clash(k) == columns[k] # Unknown /\ derived[k] # Unknown /\ columns[k] # derived[k]
    IN IF ~ state.sound THEN state
       ELSE IF ~ VariablesAgree(rule, state.types) \/ \E k \in DOMAIN columns : Clash(k)
            THEN [state EXCEPT !.sound = FALSE]
       ELSE [state EXCEPT !.types[rule.head.rel] =
               [k \in DOMAIN columns |-> IF columns[k] = Unknown THEN derived[k] ELSE columns[k]]]

\* One round alone, in the order of the rules.
ToOneRound(rules, state) == FoldLeft(InferRule, state, rules)

RECURSIVE ToFixedPoint(_, _)

ToFixedPoint(rules, state) ==
    LET round == FoldLeft(InferRule, state, rules)
    IN IF round = state THEN state ELSE ToFixedPoint(rules, round)

\* A column that nothing types is one of numbers.
infer_types(rules, declared) ==
    LET arities == relation_arities(rules, declared)
        start == declared @@ [rel \in DOMAIN arities |-> [k \in 1..arities[rel] |-> Unknown]]
        end == ToFixedPoint(rules, [types |-> start, sound |-> TRUE])
    IN [sound |-> end.sound,
        types |-> [rel \in DOMAIN end.types |->
                     [k \in DOMAIN end.types[rel] |->
                        IF end.types[rel][k] = Unknown THEN "number" ELSE end.types[rel][k]]]]

-----------------------------------------------------------------------------
(* Every rule against the types inferred.                                  *)

TypeOf(arg, vars) == IF IsVar(arg) THEN vars[arg[2]] ELSE arg[1]

\* Arithmetic is over numbers.
IsComputable(expression, vars) ==
    IsSingle(expression) \/ \A arg \in Range(Factors(expression)) : TypeOf(arg, vars) = "number"

\* Only numbers are ordered; equality is of two of a kind.
ComparisonIsTyped(c, vars) ==
    LET left == expression_type(c.left, vars)
        right == expression_type(c.right, vars)
    IN /\ IsComputable(c.left, vars) /\ IsComputable(c.right, vars)
       /\ left = right
       /\ c.op = "below" => left = "number"

CallIsTyped(call, vars) ==
    \A k \in DOMAIN call.args : TypeOf(call.args[k], vars) = FunctionTable[call.fn].params[k]

\* Whatever is aggregated but counted is a number.
HeadIsTyped(rule, types, vars) ==
    \A k \in DOMAIN rule.head.args :
       /\ IsComputable(rule.head.args[k], vars)
       /\ head_arg_type(rule, k, vars) = types[rule.head.rel][k]
       /\ rule.head.agg # <<>> /\ rule.head.agg[1] = k => types[rule.head.rel][k] = "number"

check_types(rule, types) ==
    LET vars == var_types(rule, types)
    IN /\ VariablesAgree(rule, types)
       /\ \A a \in Range(BodyAtoms(rule)) :
            \A k \in DOMAIN a.args : IsConst(a.args[k]) => a.args[k][1] = types[a.rel][k]
       /\ \A c \in Range(rule.cmp) : ComparisonIsTyped(c, vars)
       /\ \A call \in Range(rule.calls) : CallIsTyped(call, vars)
       /\ HeadIsTyped(rule, types, vars)

\* The typing of a program, or the check that refuses it.
validate_program(program) ==
    LET declared == declarations(program)
        rules == program.rules
        inferred == infer_types(rules, declared)
        Refused(check) == [refusal |-> check, types |-> <<>>]
    IN IF ~ DeclaredOnce(program) THEN Refused("declarations")
       ELSE IF \E r \in Range(rules) : ~ check_shape(r, declared) THEN Refused("shape")
       ELSE IF ~ check_head_agreement(rules) THEN Refused("heads")
       ELSE IF ~ AritiesAgree(rules, declared) THEN Refused("arities")
       ELSE IF ~ inferred.sound THEN Refused("inference")
       ELSE IF \E r \in Range(rules) : ~ check_types(r, inferred.types) THEN Refused("types")
       ELSE [refusal |-> "none", types |-> inferred.types]
=============================================================================
