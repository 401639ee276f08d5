----------------------------- MODULE RowProgram -----------------------------
(***************************************************************************)
(* The row-local part of a rule: its calls in the order written, then the  *)
(* comparisons that read their results, then the head.  The relational     *)
(* plan projects the variables the program reads instead of the head.      *)
(* A result is known by its name or by its expression; the source numbers  *)
(* them.                                                                   *)
(***************************************************************************)
EXTENDS Catalog

\* Each element once, at its first place.
Distinct(seq) ==
    LET first == SelectSeq([k \in DOMAIN seq |-> k], LAMBDA k : \A n \in 1..(k - 1) : seq[n] # seq[k])
    IN [k \in DOMAIN first |-> seq[first[k]]]

HasProgram(rule) ==
    \/ rule.calls # <<>>
    \/ ComputedComparisons(rule) # <<>>
    \/ \E e \in Range(rule.head.args) : ~ (IsSingle(e) /\ IsVar(e.init))

\* Everything the steps and the head read, in order.
ProgramReads(rule) ==
    LET computed == ComputedComparisons(rule)
    IN FlattenSeq([k \in DOMAIN rule.calls |-> rule.calls[k].args])
       \o FlattenSeq([k \in DOMAIN computed |-> Compared(computed[k])])
       \o FlattenSeq([k \in DOMAIN rule.head.args |-> Factors(rule.head.args[k])])

\* The relational variables the program reads, by first use.  A program that
\* reads none borrows a variable, the least, and has no column without one.
Inputs(rule) ==
    LET positive == VarsSet(rule, DOMAIN rule.pos)
        read == SelectSeq(ProgramReads(rule), LAMBDA a : IsVar(a) /\ a[2] \in positive)
        names == Distinct([k \in DOMAIN read |-> read[k][2]])
    IN IF names = <<>> /\ positive # {} THEN <<CHOOSE name \in positive : TRUE>> ELSE names

\* What the builder panics on: a variable that nothing binds yet, a result
\* bound twice, a wildcard passed to a call, a call of no such function.
ProgramIsSound(rule) ==
    LET positive == VarsSet(rule, DOMAIN rule.pos)
        Bound(n) == positive \cup Outputs(SubSeq(rule.calls, 1, n - 1))
        calls == rule.calls
    IN /\ \A n \in DOMAIN calls :
            /\ calls[n].fn \in DOMAIN FunctionTable
            /\ Len(calls[n].args) = Len(FunctionTable[calls[n].fn].params)
            /\ <<"any">> \notin Range(calls[n].args)
            /\ Variables(calls[n].args) \subseteq Bound(n)
            /\ calls[n].out # "" => calls[n].out \notin Bound(n)
       /\ \A c \in Range(ComputedComparisons(rule)) : Variables(Compared(c)) \subseteq Bound(Len(calls) + 1)
       /\ HeadVariables(rule) \subseteq Bound(Len(calls) + 1)

\* Every fault ends the evaluation.
CallStepStrict(state, call) ==
    LET result == Called(call, state.env)
    IN IF state.verdict # "true" THEN state
       ELSE IF result = <<"fault">> THEN [state EXCEPT !.verdict = "fault"]
       ELSE IF call.out # "" THEN [state EXCEPT !.env = @ @@ (call.out :> result)]
       ELSE [state EXCEPT !.verdict = result[1]]

\* One call over a row.  A fault ends the evaluation, but for a lenient call,
\* whose row goes on.
CallStep(state, call) ==
    LET result == Called(call, state.env)
    IN IF state.verdict # "true" THEN state
       ELSE IF result = <<"fault">> THEN [state EXCEPT !.verdict = IF call.lenient THEN @ ELSE "fault"]
       ELSE IF call.out # "" THEN [state EXCEPT !.env = @ @@ (call.out :> result)]
       ELSE [state EXCEPT !.verdict = result[1]]

\* The head row of one input row, or why there is none.
RunProgram(program, row) ==
    LET names == program.inputs
        input == [name \in Range(names) |-> row[CHOOSE k \in DOMAIN names : names[k] = name]]
        after == FoldLeft(CallStep, [env |-> input, verdict |-> "true"], program.calls)
        compared == IF after.verdict # "true" THEN after.verdict
                    ELSE AllTrue([k \in DOMAIN program.compares |-> Verdict(program.compares[k], after.env)])
        head == IF compared # "true" THEN <<>>
                ELSE [k \in DOMAIN program.head |-> Compute(program.head[k], after.env)]
    IN [verdict |-> IF <<"fault">> \in Range(head) THEN "fault" ELSE compared, row |-> head]

ProgramOf(rule) ==
    [inputs |-> Inputs(rule), calls |-> rule.calls, compares |-> ComputedComparisons(rule),
     head |-> rule.head.args]
=============================================================================
