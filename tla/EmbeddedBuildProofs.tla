------------------------ MODULE EmbeddedBuildProofs ------------------------
(***************************************************************************)
(* The build of the embedded functions beside an evaluation, for any       *)
(* number of row programs.                                                 *)
(*                                                                         *)
(* Three threads write what the answer is made from: the builder the       *)
(* module and the blocks that failed, row programs the faults, runner the  *)
(* refusals.  The strengthening says when each of them is done: the        *)
(* builder has published exactly once it has left its first build, no row  *)
(* program calls outside of the dataflow, and only a refusal abandons the  *)
(* build.                                                                  *)
(***************************************************************************)
EXTENDS EmbeddedBuild, TLAPS

\* The builder publishes once, at the end of its first build, and sets the
\* optimized build at its end alone.
PublishedOnce ==
    /\ builder \in {"choosing", "building"} <=> module = "none"
    /\ builder # "done" => ~ optimized
    /\ builder = "building" => tier # "none"

\* Row programs call while the dataflow runs, and an answer comes last.
CallsWhileEvaluating ==
    /\ main # "evaluating" => \A c \in Callers : caller[c] # "calling"
    /\ main = "answered" <=> answer # "none"
    /\ main = "answered" => builder = "done"

\* A block on record made the build fail, and a build fails for nothing else
\* unless the inputs were refused.
FailuresOnRecord ==
    /\ "block" \in met => module = "failed"
    /\ module = "failed" => "block" \in met \/ abandoned
    /\ abandoned => main \in {"refused", "answered"}
    /\ abandoned /\ main = "answered" => answer = "input"
    /\ "input" \in met => abandoned

\* What a row program last called is still there.
CalledBuildsStay ==
    \A c \in Callers : \/ using[c] \in {"none", module}
                       \/ using[c] = "optimized" /\ optimized

BuildInv == /\ TypeOK /\ PublishedOnce /\ CallsWhileEvaluating /\ FailuresOnRecord
            /\ CalledBuildsStay /\ RefusalsInOrder

LEMMA InitBuild == Init => BuildInv
BY DEF Init, BuildInv, TypeOK, PublishedOnce, CallsWhileEvaluating, FailuresOnRecord,
       CalledBuildsStay, RefusalsInOrder

\* The flags are set to TRUE, or chosen by the optimized build.
LEMMA FlagsStep ==
    ASSUME TypeOK, [Next]_vars
    PROVE  optimized' \in BOOLEAN /\ abandoned' \in BOOLEAN /\ finished' \in BOOLEAN
<1>1. CASE Optimized
    BY <1>1 DEF Optimized, signals, TypeOK
<1>2. CASE RefuseInputs
    BY <1>2 DEF RefuseInputs, builds, TypeOK
<1>3. CASE Evaluated
    BY <1>3 DEF Evaluated, builds, TypeOK
<1>4. CASE UNCHANGED <<optimized, signals>>
    BY <1>4 DEF signals, TypeOK
<1> QED
    BY <1>1, <1>2, <1>3, <1>4
    DEF Next, Builder, Caller, Main, ChooseTier, EvaluationEnded, RunsOn, Built, BuildFails,
        BuildPanics, BuildAbandoned, FirstCall, Call, EndCalls, Prepared, Answer, vars, builds

LEMMA TypeStep ==
    ASSUME TypeOK, [Next]_vars
    PROVE  TypeOK'
<1>1. /\ main' \in {"preparing", "evaluating", "refused", "evaluated", "answered"}
      /\ builder' \in {"choosing", "building", "waiting", "optimizing", "done"}
      /\ tier' \in {"none", "quick", "optimized"}
      /\ answer' \in {"none", "ok", "input", "block", "fault"}
    BY DEF TypeOK, Next, Builder, Caller, Main, ChooseTier, EvaluationEnded, RunsOn, Optimized, Built,
           BuildFails, BuildPanics, BuildAbandoned, FirstCall, Call, EndCalls, Prepared, RefuseInputs,
           Evaluated, Answer, vars, builds, signals, calls
<1>2. module' \in {"none", "quick", "optimized", "failed"}
    BY DEF TypeOK, Next, Builder, Caller, Main, ChooseTier, EvaluationEnded, RunsOn, Optimized, Built,
           BuildFails, BuildPanics, BuildAbandoned, Publish, FirstCall, Call, EndCalls, Prepared,
           RefuseInputs, Evaluated, Answer, vars, builds
<1>3. met' \subseteq {"input", "block", "fault"}
    BY DEF TypeOK, Next, Builder, Caller, Main, ChooseTier, EvaluationEnded, RunsOn, Optimized, Built,
           BuildFails, BuildPanics, BuildAbandoned, FirstCall, Call, EndCalls, Prepared, RefuseInputs,
           Evaluated, Answer, vars
<1>4. /\ caller' \in [Callers -> {"idle", "calling", "ended"}]
      /\ using' \in [Callers -> {"none", "quick", "optimized", "failed"}]
  <2>1. ASSUME NEW c \in Callers, FirstCall(c) \/ EndCalls(c)
        PROVE  caller' \in [Callers -> {"idle", "calling", "ended"}] /\ using' = using
      BY <2>1 DEF TypeOK, FirstCall, EndCalls
  <2>2. ASSUME NEW c \in Callers, Call(c)
        PROVE  using' \in [Callers -> {"none", "quick", "optimized", "failed"}] /\ caller' = caller
      BY <2>2 DEF TypeOK, Call, Newest
  <2>3. UNCHANGED calls \/ \E c \in Callers : FirstCall(c) \/ EndCalls(c) \/ Call(c)
      BY DEF Next, Builder, Caller, Main, ChooseTier, EvaluationEnded, RunsOn, Optimized, Built,
             BuildFails, BuildPanics, BuildAbandoned, Prepared, RefuseInputs, Evaluated, Answer, vars
  <2> QED
      BY <2>1, <2>2, <2>3 DEF TypeOK, calls
<1> QED
    BY <1>1, <1>2, <1>3, <1>4, FlagsStep DEF TypeOK

LEMMA PublishedStep ==
    ASSUME TypeOK, PublishedOnce, [Next]_vars
    PROVE  PublishedOnce'
<1> USE DEF TypeOK, PublishedOnce, builds, signals, calls
<1>1. CASE ChooseTier \/ EvaluationEnded \/ RunsOn \/ Optimized
    BY <1>1 DEF ChooseTier, EvaluationEnded, RunsOn, Optimized
<1>2. CASE Built \/ BuildFails \/ BuildPanics \/ BuildAbandoned
    BY <1>2 DEF Built, BuildFails, BuildPanics, BuildAbandoned, Publish
<1>3. CASE UNCHANGED builds
    BY <1>3
<1> QED
    BY <1>1, <1>2, <1>3
    DEF Next, Builder, Caller, Main, FirstCall, Call, EndCalls, Prepared, RefuseInputs, Evaluated, Answer, vars

LEMMA CallsStep ==
    ASSUME TypeOK, CallsWhileEvaluating, [Next]_vars
    PROVE  CallsWhileEvaluating'
<1> USE DEF TypeOK, CallsWhileEvaluating, builds, signals, calls
<1>1. CASE Builder
    BY <1>1 DEF Builder, ChooseTier, EvaluationEnded, RunsOn, Optimized,
                Built, BuildFails, BuildPanics, BuildAbandoned
<1>2. ASSUME NEW c \in Callers, FirstCall(c) \/ Call(c) \/ EndCalls(c) PROVE CallsWhileEvaluating'
    BY <1>2 DEF FirstCall, Call, EndCalls
<1>3. CASE Prepared \/ RefuseInputs \/ Evaluated \/ Answer
    BY <1>3 DEF Prepared, RefuseInputs, Evaluated, Answer
<1>4. CASE UNCHANGED vars
    BY <1>4 DEF vars
<1> QED
    BY <1>1, <1>2, <1>3, <1>4 DEF Next, Caller, Main

LEMMA FailuresStep ==
    ASSUME TypeOK, PublishedOnce, CallsWhileEvaluating, FailuresOnRecord, [Next]_vars
    PROVE  FailuresOnRecord'
<1> USE DEF TypeOK, PublishedOnce, CallsWhileEvaluating, FailuresOnRecord, builds, signals, calls
<1>1. CASE ChooseTier \/ EvaluationEnded \/ RunsOn \/ Optimized
    BY <1>1 DEF ChooseTier, EvaluationEnded, RunsOn, Optimized
<1>2. CASE Built
    BY <1>2 DEF Built, Publish
<1>3. CASE BuildFails \/ BuildPanics \/ BuildAbandoned
    BY <1>3 DEF BuildFails, BuildPanics, BuildAbandoned, Publish
<1>4. ASSUME NEW c \in Callers, FirstCall(c) \/ Call(c) \/ EndCalls(c) PROVE FailuresOnRecord'
    BY <1>4 DEF FirstCall, Call, EndCalls
<1>5. CASE Prepared \/ RefuseInputs
    BY <1>5 DEF Prepared, RefuseInputs
<1>6. CASE Evaluated \/ Answer
    BY <1>6 DEF Evaluated, Answer
<1>7. CASE UNCHANGED vars
    BY <1>7 DEF vars
<1> QED
    BY <1>1, <1>2, <1>3, <1>4, <1>5, <1>6, <1>7 DEF Next, Builder, Caller, Main

\* A module that is there stays, and so does the optimized build.
LEMMA BuildsStay ==
    ASSUME TypeOK, PublishedOnce, [Next]_vars
    PROVE  /\ module # "none" => module' = module
           /\ optimized => optimized'
<1> USE DEF TypeOK, PublishedOnce, builds, signals, calls
<1>1. CASE Builder
    BY <1>1 DEF Builder, ChooseTier, EvaluationEnded, RunsOn, Optimized,
                Built, BuildFails, BuildPanics, BuildAbandoned
<1>2. CASE UNCHANGED builds
    BY <1>2
<1> QED
    BY <1>1, <1>2
    DEF Next, Caller, Main, FirstCall, Call, EndCalls, Prepared, RefuseInputs, Evaluated, Answer, vars

LEMMA CalledStep ==
    ASSUME TypeOK, PublishedOnce, CalledBuildsStay, [Next]_vars
    PROVE  CalledBuildsStay'
<1> USE DEF TypeOK, CalledBuildsStay, builds, signals, calls
<1>1. ASSUME NEW c \in Callers, Call(c) PROVE CalledBuildsStay'
    BY <1>1 DEF Call, Newest
<1>2. CASE UNCHANGED using
    BY <1>2, BuildsStay
<1> QED
    BY <1>1, <1>2
    DEF Next, Builder, Caller, Main, ChooseTier, EvaluationEnded, RunsOn, Optimized, Built, BuildFails,
        BuildPanics, BuildAbandoned, FirstCall, EndCalls, Prepared, RefuseInputs, Evaluated, Answer, vars

\* The answer is made when everybody else is done, and nothing is met later.
LEMMA RefusalsStep ==
    ASSUME BuildInv, [Next]_vars
    PROVE  RefusalsInOrder'
<1> USE DEF BuildInv, TypeOK, PublishedOnce, CallsWhileEvaluating, FailuresOnRecord, RefusalsInOrder,
            builds, signals, calls
<1>1. CASE Answer
    BY <1>1 DEF Answer
<1>2. ASSUME main = "answered" => met' = met, answer' = answer PROVE RefusalsInOrder'
    BY <1>2
<1>3. CASE Builder
    BY <1>2, <1>3 DEF Builder, ChooseTier, EvaluationEnded, RunsOn, Optimized,
                      Built, BuildFails, BuildPanics, BuildAbandoned
<1>4. ASSUME NEW c \in Callers, FirstCall(c) \/ Call(c) \/ EndCalls(c) PROVE RefusalsInOrder'
    BY <1>2, <1>4 DEF FirstCall, Call, EndCalls
<1>5. CASE Prepared \/ RefuseInputs \/ Evaluated
    BY <1>2, <1>5 DEF Prepared, RefuseInputs, Evaluated
<1>6. CASE UNCHANGED vars
    BY <1>6 DEF vars
<1> QED
    BY <1>1, <1>3, <1>4, <1>5, <1>6 DEF Next, Caller, Main

LEMMA BuildInvariant == Spec => []BuildInv
<1>1. BuildInv /\ [Next]_vars => BuildInv'
    BY TypeStep, PublishedStep, CallsStep, FailuresStep, CalledStep, RefusalsStep DEF BuildInv
<1> QED
    BY <1>1, InitBuild, PTL DEF Spec

-----------------------------------------------------------------------------
\* Every value stays in its range.
THEOREM BuildTypes == Spec => []TypeOK
BY BuildInvariant, PTL DEF BuildInv

\* "A refusal is the one the stages would have met in turn": whatever the
\* threads meet in whatever order, the answer is the refusal of the earliest
\* stage, and rows are returned only when no stage met anything.
THEOREM BuildRefusesInOrder == Spec => []RefusalsInOrder
BY BuildInvariant, PTL DEF BuildInv

\* Whoever joins the builder finds an outcome published.  (runner.rs: the
\* build is expected to be there once its thread has ended)
THEOREM BuildIsPublished == Spec => [](builder = "done" => module # "none")
<1>1. BuildInv => (builder = "done" => module # "none")
    BY DEF BuildInv, PublishedOnce
<1> QED
    BY <1>1, BuildInvariant, PTL

\* "The calls after that go to it": no row program ever goes back from the
\* optimized build, or loses the one it has.
THEOREM BuildsAreForGood == Spec => NewestBuildForGood
<1>1. BuildInv /\ [Next]_vars
        => [\A c \in Callers : /\ using[c] = "optimized" => using'[c] = "optimized"
                               /\ using[c] # "none" => using'[c] \in {using[c], "optimized"}]_using
    <2> SUFFICES ASSUME BuildInv, Next, using' # using, NEW c \in Callers
                 PROVE  /\ using[c] = "optimized" => using'[c] = "optimized"
                        /\ using[c] # "none" => using'[c] \in {using[c], "optimized"}
        BY DEF vars, calls
    <2>1. PICK d \in Callers : Call(d)
        BY DEF Next, Builder, Caller, Main, ChooseTier, EvaluationEnded, RunsOn, Optimized, Built,
               BuildFails, BuildPanics, BuildAbandoned, FirstCall, EndCalls, Prepared, RefuseInputs,
               Evaluated, Answer, vars, builds, signals, calls
    <2> QED
        BY <2>1 DEF Call, Newest, BuildInv, TypeOK, CalledBuildsStay, PublishedOnce
<1> QED
    BY <1>1, BuildInvariant, PTL DEF Spec, NewestBuildForGood
=============================================================================
