--------------------------- MODULE EmbeddedBuild ---------------------------
(***************************************************************************)
(* The embedded functions of one evaluation.  runner::run builds the       *)
(* program's blocks on a thread of their own while it reads the inputs and *)
(* runs the dataflow; a row program that calls a function waits for the    *)
(* build at its first call.  The first build is quick, unless a cache      *)
(* holds the optimized one; an evaluation that runs on is worth an         *)
(* optimized build, which replaces the quick one for the calls after it.   *)
(*                                                                         *)
(* Each member of Callers is one row program on one worker.  A budget that *)
(* stops keeps a caller from calling, and never interrupts one that waits. *)
(***************************************************************************)
CONSTANTS Callers

VARIABLES main,        \* runner::run
          builder,     \* the thread that builds the blocks
          tier,        \* the tier of its current build
          module,      \* NativeFunctions::module
          optimized,   \* whether NativeFunctions::optimized is set
          abandoned,   \* the evaluation was refused before it ran
          finished,    \* Finished: the evaluation has ended
          caller,      \* each row program
          using,       \* the build its last call went to, or why it has none
          met,         \* what became of the inputs, the blocks, the dataflow
          answer

builds == <<builder, tier, module, optimized>>
signals == <<abandoned, finished>>
calls == <<caller, using>>
vars == <<main, builds, signals, calls, met, answer>>

Init == /\ main = "preparing"
        /\ builder = "choosing"
        /\ tier = "none"
        /\ module = "none"
        /\ optimized = FALSE
        /\ abandoned = FALSE
        /\ finished = FALSE
        /\ caller = [c \in Callers |-> "idle"]
        /\ using = [c \in Callers |-> "none"]
        /\ met = {}
        /\ answer = "none"
-----------------------------------------------------------------------------
(* The thread that builds the blocks *)

\* A persistent cache that holds the optimized build serves it at once.
ChooseTier == /\ builder = "choosing"
              /\ builder' = "building"
              /\ tier' \in {"quick", "optimized"}
              /\ UNCHANGED <<main, module, optimized, signals, calls, met, answer>>

\* NativeFunctions::publish: only the first outcome is kept.
Publish(outcome) == module' = IF module = "none" THEN outcome ELSE module

\* The first build succeeds.  An optimized one needs no other.
Built == /\ builder = "building"
         /\ Publish(tier)
         /\ builder' = IF tier = "optimized" THEN "done" ELSE "waiting"
         /\ UNCHANGED <<main, tier, optimized, signals, calls, met, answer>>

\* A block does not compile.
BuildFails == /\ builder = "building"
              /\ Publish("failed")
              /\ builder' = "done"
              /\ met' = met \cup {"block"}
              /\ UNCHANGED <<main, tier, optimized, signals, calls, answer>>

\* Mutant of BuildPanics: nothing is published when the thread unwinds.
BuildPanicsSilently == /\ builder = "building"
                       /\ builder' = "done"
                       /\ met' = met \cup {"block"}
                       /\ UNCHANGED <<main, tier, module, optimized, signals, calls, answer>>

\* The thread panics; PublishOnUnwind publishes an internal diagnostic.
BuildPanics == /\ builder = "building"
               /\ Publish("failed")
               /\ builder' = "done"
               /\ met' = met \cup {"block"}
               /\ UNCHANGED <<main, tier, optimized, signals, calls, answer>>

\* rustc is stopped: the evaluation was refused.
BuildAbandoned == /\ builder = "building"
                  /\ abandoned
                  /\ Publish("failed")
                  /\ builder' = "done"
                  /\ UNCHANGED <<main, tier, optimized, signals, calls, met, answer>>

\* Finished::wait: the evaluation ends before an optimized build is worth it,
\* or it runs on.
EvaluationEnded == /\ builder = "waiting"
                   /\ finished
                   /\ builder' = "done"
                   /\ UNCHANGED <<main, tier, module, optimized, signals, calls, met, answer>>

RunsOn == /\ builder = "waiting"
          /\ ~ finished
          /\ builder' = "optimizing"
          /\ tier' = "optimized"
          /\ UNCHANGED <<main, module, optimized, signals, calls, met, answer>>

\* Mutant of Optimized: the optimized build is published where it was needed
\* first.
OptimizedReplaces == /\ builder = "optimizing"
                     /\ module' \in {"optimized", "failed"}
                     /\ optimized' = (module' = "optimized")
                     /\ builder' = "done"
                     /\ UNCHANGED <<main, tier, signals, calls, met, answer>>

\* The optimized build succeeds, or it fails, panics or is cancelled, and the
\* quick one serves.
Optimized == /\ builder = "optimizing"
             /\ optimized' \in BOOLEAN
             /\ builder' = "done"
             /\ UNCHANGED <<main, tier, module, signals, calls, met, answer>>
-----------------------------------------------------------------------------
(* A row program *)

\* Its first call needs the blocks.
FirstCall(c) == /\ main = "evaluating"
                /\ caller[c] = "idle"
                /\ caller' = [caller EXCEPT ![c] = "calling"]
                /\ UNCHANGED <<main, builds, signals, using, met, answer>>

\* The build a call goes to; a row program that finds none waits.
Newest == IF optimized THEN "optimized" ELSE module

Call(c) == /\ caller[c] = "calling"
           /\ Newest # "none"
           /\ using' = [using EXCEPT ![c] = Newest]
           /\ UNCHANGED <<main, builds, signals, caller, met, answer>>

\* It has seen its last row, or falls silent; a call that failed is the
\* evaluation's fault.
EndCalls(c) == /\ caller[c] = "calling"
               /\ using[c] # "none"
               /\ caller' = [caller EXCEPT ![c] = "ended"]
               /\ met' = IF using[c] = "failed" THEN met \cup {"fault"} ELSE met
               /\ UNCHANGED <<main, builds, signals, using, answer>>
-----------------------------------------------------------------------------
(* runner::run *)

Prepared == /\ main = "preparing"
            /\ main' = "evaluating"
            /\ UNCHANGED <<builds, signals, calls, met, answer>>

\* An input is refused: no build is wanted at all.
RefuseInputs == /\ main = "preparing"
                /\ main' = "refused"
                /\ abandoned' = TRUE
                /\ finished' = TRUE
                /\ met' = met \cup {"input"}
                /\ UNCHANGED <<builds, calls, answer>>

\* evaluate returns once its dataflow has drained, with the rows or with what
\* stopped it.
Evaluated == /\ main = "evaluating"
             /\ \A c \in Callers : caller[c] # "calling"
             /\ main' = "evaluated"
             /\ finished' = TRUE
             /\ met' \in {met, met \cup {"fault"}}
             /\ UNCHANGED <<builds, abandoned, calls, answer>>

\* Mutant of Answer: what the dataflow met comes first.
AnswerFaultFirst ==
    /\ main \in {"refused", "evaluated"}
    /\ builder = "done"
    /\ main' = "answered"
    /\ answer' = IF main = "refused" THEN "input"
                 ELSE IF "fault" \in met THEN "fault"
                 ELSE IF module = "failed" THEN "block" ELSE "ok"
    /\ UNCHANGED <<builds, signals, calls, met>>

\* The builder is joined.  A block that does not compile is the refusal,
\* whatever the dataflow met meanwhile, and the inputs come before it.
Answer ==
    /\ main \in {"refused", "evaluated"}
    /\ builder = "done"
    /\ main = "evaluated" => module # "none"
    /\ main' = "answered"
    /\ answer' = IF main = "refused" THEN "input"
                 ELSE IF module = "failed" THEN "block"
                 ELSE IF "fault" \in met THEN "fault" ELSE "ok"
    /\ UNCHANGED <<builds, signals, calls, met>>
-----------------------------------------------------------------------------
Builder == \/ ChooseTier \/ Built \/ BuildFails \/ BuildPanics \/ BuildAbandoned
           \/ EvaluationEnded \/ RunsOn \/ Optimized

Caller(c) == FirstCall(c) \/ Call(c) \/ EndCalls(c)

Main == Prepared \/ RefuseInputs \/ Evaluated \/ Answer

Next == \/ Builder
        \/ \E c \in Callers : Caller(c)
        \/ Main
        \/ main = "answered" /\ UNCHANGED vars

\* rustc ends, a caller whose build is there goes on to its end, and runner
\* goes on when it can.
Fairness == /\ WF_vars(Builder)
            /\ WF_vars(Main)
            /\ \A c \in Callers : WF_vars(Call(c)) /\ WF_vars(EndCalls(c))

Spec == Init /\ [][Next]_vars /\ Fairness
-----------------------------------------------------------------------------
TypeOK ==
    /\ main \in {"preparing", "evaluating", "refused", "evaluated", "answered"}
    /\ builder \in {"choosing", "building", "waiting", "optimizing", "done"}
    /\ tier \in {"none", "quick", "optimized"}
    /\ module \in {"none", "quick", "optimized", "failed"}
    /\ optimized \in BOOLEAN
    /\ abandoned \in BOOLEAN
    /\ finished \in BOOLEAN
    /\ caller \in [Callers -> {"idle", "calling", "ended"}]
    /\ using \in [Callers -> {"none", "quick", "optimized", "failed"}]
    /\ met \subseteq {"input", "block", "fault"}
    /\ answer \in {"none", "ok", "input", "block", "fault"}

\* "A refusal is the one the stages would have met in turn": the inputs come
\* before the blocks, and the blocks before what the dataflow met, in
\* whatever order they came up on the two threads.
RefusalsInOrder ==
    /\ answer = "ok" => met = {}
    /\ answer = "block" => "block" \in met /\ "input" \notin met
    /\ answer = "fault" => "fault" \in met /\ met \cap {"input", "block"} = {}
    /\ answer # "none" /\ "input" \in met => answer = "input"

\* "The calls after that go to it": a row program that has called the
\* optimized build never goes back, and one that has a build never loses it.
NewestBuildForGood ==
    [][\A c \in Callers : /\ using[c] = "optimized" => using'[c] = "optimized"
                          /\ using[c] # "none" => using'[c] \in {using[c], "optimized"}]_using

\* "No row program waits for them forever", whatever becomes of the build.
NoCallerWaitsForever ==
    \A c \in Callers : caller[c] = "calling" ~> caller[c] = "ended"
=============================================================================
