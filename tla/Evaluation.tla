----------------------------- MODULE Evaluation -----------------------------
(***************************************************************************)
(* One evaluation: the coordinator (runner::evaluate and WorkerSet::run),  *)
(* its worker threads (worker_loop), the dataflow they step, and the       *)
(* budget all of them share.                                               *)
(*                                                                         *)
(* A worker builds the dataflow, feeds its share of the input rows, and    *)
(* steps it until the probe says that no worker has anything left; then it *)
(* publishes its captures and reports.  An operator asks whether the       *)
(* budget has stopped before it emits a row: after that rows vanish, the   *)
(* dataflow drains, and everybody reports as if all were well.  The        *)
(* coordinator has to find out that it was not.                            *)
(*                                                                         *)
(* Each row of Rows is one the program derives from an input row: it is    *)
(* read by an operator on the worker that holds it, sent to some worker,   *)
(* and captured there.  How timely schedules operators, moves rows and     *)
(* counts progress is external: a step of a worker runs one operator on    *)
(* one row, and the probe is done when every worker has closed its inputs  *)
(* and no row is under way.                                                *)
(***************************************************************************)
EXTENDS Naturals, Sequences, FiniteSets

CONSTANTS Workers,      \* the threads of the evaluation's WorkerSet
          Rows,
          Share,        \* the worker whose share of the input each row is in
          Troubles,     \* which reasons may come up in this instance
          TupleLimit    \* Limits::tuples

\* The budget's own reasons, a fault of an embedded function, a panic of the
\* engine on a worker thread, and a program its assembly refuses.
Reasons == {"cancelled", "deadline", "memory", "tuples",
            "function", "panic", "refused"}

ASSUME EvaluationAssumption == /\ Workers # {}
                               /\ IsFiniteSet(Rows)
                               /\ Share \in [Rows -> Workers]
                               /\ Troubles \subseteq Reasons
                               /\ TupleLimit \in Nat

VARIABLES
    phase,       \* the coordinator: where it stands
    todo,        \* the workers its current loop has still to serve
    firstError,  \* the diagnostic it will answer with, if it has one
    result,      \* the rows it settled
    answer,      \* what the evaluation answered
    pc,          \* the workers: where each stands in worker_loop
    inbox,       \* its job channel
    live,        \* whether the dataflow is in its `live` list
    sent,        \* what it has reported
    poisoned,    \* the flag of the worker set
    place, at,   \* how far each row has come, and on which worker
    met,         \* the reasons that have come up (cancel token, clock, history)
    over,        \* whether memory is above its ceiling right now
    fault        \* Budget::fault; Budget::stop is set with it

coordinator == <<phase, todo, firstError, result, answer>>
workers == <<pc, inbox, live, sent, poisoned>>
dataflow == <<place, at>>
budget == <<met, over, fault>>
vars == <<coordinator, workers, dataflow, budget>>

RowsAt(w, p) == {r \in Rows : at[r] = w /\ place[r] = p}

Goto(w, from, to) == /\ pc[w] = from
                     /\ pc' = [pc EXCEPT ![w] = to]
-----------------------------------------------------------------------------
(* The budget *)

Stopped == fault # "none"

\* Budget::fault: the first fault stays, and the operators stop.
Fault(reason) == fault' = IF Stopped THEN fault ELSE reason

\* Budget::reason: the recorded fault, or the first limit that is exceeded.
Reason == IF Stopped THEN fault
          ELSE IF "cancelled" \in met THEN "cancelled"
          ELSE IF "deadline" \in met THEN "deadline"
          ELSE IF over THEN "memory"
          ELSE "none"

\* The caller cancels, or the clock reaches the deadline.
ComeUp(reason) == /\ answer = "none"
                  /\ reason \in Troubles \cap {"cancelled", "deadline"}
                  /\ met' = met \cup {reason}
                  /\ UNCHANGED <<coordinator, workers, dataflow, over, fault>>

\* The evaluation's threads allocate beyond the ceiling, or free again.
Allocate == /\ answer = "none"
            /\ "memory" \in Troubles
            /\ over' = TRUE
            /\ met' = met \cup {"memory"}
            /\ UNCHANGED <<coordinator, workers, dataflow, fault>>

Free == /\ over
        /\ over' = FALSE
        /\ UNCHANGED <<coordinator, workers, dataflow, met, fault>>
-----------------------------------------------------------------------------
(* A worker thread *)

\* The head of the loop: a poisoned set is left at once, without a report.
CheckPoisoned(w) ==
    /\ Goto(w, "top", IF poisoned THEN "left" ELSE "receiving")
    /\ UNCHANGED <<coordinator, inbox, live, sent, poisoned, dataflow, budget>>

HasJob(w, job) == inbox[w] # << >> /\ Head(inbox[w]) = job

TakeJob(w) == inbox' = [inbox EXCEPT ![w] = Tail(@)]

\* The dataflow is built, and the worker's share of the input is fed.
Build(w) ==
    /\ pc[w] = "receiving"
    /\ HasJob(w, "run")
    /\ "refused" \notin met
    /\ TakeJob(w)
    /\ live' = [live EXCEPT ![w] = TRUE]
    /\ place' = [r \in Rows |-> IF Share[r] = w THEN "input" ELSE place[r]]
    /\ UNCHANGED <<coordinator, pc, sent, poisoned, at, budget>>

\* The assembly refuses the plan; every worker assembles the same plan.
FailToBuild(w) ==
    /\ Goto(w, "receiving", "top")
    /\ HasJob(w, "run")
    /\ "refused" \in met
    /\ TakeJob(w)
    /\ sent' = [sent EXCEPT ![w] = "refused"]
    /\ UNCHANGED <<coordinator, live, poisoned, dataflow, budget>>

PanicBuilding(w) ==
    /\ Goto(w, "receiving", "panicked")
    /\ HasJob(w, "run")
    /\ "panic" \in Troubles
    /\ TakeJob(w)
    /\ met' = met \cup {"panic"}
    /\ UNCHANGED <<coordinator, live, sent, poisoned, dataflow, over, fault>>

TakeShutdown(w) ==
    /\ Goto(w, "receiving", "left")
    /\ HasJob(w, "shutdown")
    /\ TakeJob(w)
    /\ UNCHANGED <<coordinator, live, sent, poisoned, dataflow, budget>>

\* A worker with a dataflow does not wait for a job.
NoJob(w) ==
    /\ live[w]
    /\ inbox[w] = << >>
    /\ Goto(w, "receiving", "stepping")
    /\ UNCHANGED <<coordinator, inbox, live, sent, poisoned, dataflow, budget>>

\* An operator reads a row and emits it, to a worker its key chooses, unless
\* the budget has stopped.
Operate(w) ==
    \E r \in RowsAt(w, "input") :
        /\ Goto(w, "stepping", "observing")
        /\ \/ /\ Stopped
              /\ place' = [place EXCEPT ![r] = "lost"]
              /\ UNCHANGED at
           \/ /\ ~ Stopped
              /\ place' = [place EXCEPT ![r] = "output"]
              /\ \E v \in Workers : at' = [at EXCEPT ![r] = v]
        /\ UNCHANGED <<coordinator, inbox, live, sent, poisoned, budget>>

\* Mutant of MeetFault: the row is dropped and nobody is told.
MeetFaultSilently(w) ==
    \E r \in RowsAt(w, "input") :
        /\ ~ Stopped
        /\ "function" \in Troubles
        /\ Goto(w, "stepping", "observing")
        /\ place' = [place EXCEPT ![r] = "lost"]
        /\ met' = met \cup {"function"}
        /\ UNCHANGED <<coordinator, inbox, live, sent, poisoned, at, over, fault>>

\* An operator calls an embedded function, which fails on the row.
MeetFault(w) ==
    \E r \in RowsAt(w, "input") :
        /\ ~ Stopped
        /\ "function" \in Troubles
        /\ Goto(w, "stepping", "observing")
        /\ place' = [place EXCEPT ![r] = "lost"]
        /\ met' = met \cup {"function"}
        /\ Fault("function")
        /\ UNCHANGED <<coordinator, inbox, live, sent, poisoned, at, over>>

\* A row reaches the capture of its relation.
Capture(w) ==
    \E r \in RowsAt(w, "output") :
        /\ Goto(w, "stepping", "observing")
        /\ place' = [place EXCEPT ![r] = "captured"]
        /\ UNCHANGED <<coordinator, inbox, live, sent, poisoned, at, budget>>

\* A worker with nothing to run parks for a while.
Park(w) ==
    /\ RowsAt(w, "input") \cup RowsAt(w, "output") = {}
    /\ Goto(w, "stepping", "observing")
    /\ UNCHANGED <<coordinator, inbox, live, sent, poisoned, dataflow, budget>>

\* Budget::observe.
Observe(w) ==
    /\ Goto(w, "observing", "retaining")
    /\ fault' = Reason
    /\ UNCHANGED <<coordinator, inbox, live, sent, poisoned, dataflow, met, over>>

\* Mutant of ProbeDone: the probe speaks of this worker's own inputs only.
ProbeDoneLocally(w) ==
    \A r \in Rows : at[r] = w => place[r] \in {"captured", "published", "lost"}

\* The probe is done: every worker has fed and closed its inputs, and no row
\* is under way on any worker.
ProbeDone(w) == /\ \A v \in Workers : live[v] \/ sent[v] = "ok"
                /\ \A r \in Rows : place[r] \in {"captured", "published", "lost"}

\* Mutant of Flush: the captures are left for later.
FlushNothing(w) ==
    /\ ProbeDone(w)
    /\ Goto(w, "retaining", "flushed")
    /\ UNCHANGED <<coordinator, inbox, live, sent, poisoned, dataflow, budget>>

\* WorkerCapture::flush for every capture, once the probe is done.
Flush(w) ==
    /\ ProbeDone(w)
    /\ Goto(w, "retaining", "flushed")
    /\ place' = [r \in Rows |-> IF r \in RowsAt(w, "captured")
                                THEN "published" ELSE place[r]]
    /\ UNCHANGED <<coordinator, inbox, live, sent, poisoned, at, budget>>

KeepRunning(w) ==
    /\ ~ ProbeDone(w)
    /\ Goto(w, "retaining", "top")
    /\ UNCHANGED <<coordinator, inbox, live, sent, poisoned, dataflow, budget>>

\* The dataflow leaves the list with a report.
Report(w) ==
    /\ Goto(w, "flushed", "top")
    /\ sent' = [sent EXCEPT ![w] = "ok"]
    /\ live' = [live EXCEPT ![w] = FALSE]
    /\ UNCHANGED <<coordinator, inbox, poisoned, dataflow, budget>>

\* A defect of the engine unwinds out of a step, an observation or a flush.
Panic(w) ==
    /\ "panic" \in Troubles
    /\ \E stage \in {"stepping", "observing", "retaining", "flushed"} :
          Goto(w, stage, "panicked")
    /\ met' = met \cup {"panic"}
    /\ UNCHANGED <<coordinator, inbox, live, sent, poisoned, dataflow, over, fault>>

\* poison: the fault first,
RecordPanic(w) ==
    /\ Goto(w, "panicked", "poisoning")
    /\ Fault("panic")
    /\ UNCHANGED <<coordinator, inbox, live, sent, poisoned, dataflow, met, over>>

\* then the flag,
Poison(w) ==
    /\ Goto(w, "poisoning", "telling")
    /\ poisoned' = TRUE
    /\ UNCHANGED <<coordinator, inbox, live, sent, dataflow, budget>>

\* then the report of the run in flight.
TellRun(w) ==
    /\ Goto(w, "telling", "left")
    /\ sent' = [sent EXCEPT ![w] = "panic"]
    /\ UNCHANGED <<coordinator, inbox, live, poisoned, dataflow, budget>>
-----------------------------------------------------------------------------
(* The coordinator *)

\* WorkerSet::run hands the job to one worker after another.
Send(w) ==
    /\ phase = "sending"
    /\ w \in todo
    /\ pc[w] # "left"
    /\ inbox' = [inbox EXCEPT ![w] = Append(@, "run")]
    /\ IF todo = {w}
       THEN phase' = "collecting" /\ todo' = Workers
       ELSE phase' = phase /\ todo' = todo \ {w}
    /\ UNCHANGED <<firstError, result, answer, pc, live, sent, poisoned, dataflow, budget>>

\* WorkerSet::drop: every worker that is still there is told to leave.
Dismiss == /\ phase' = "leaving"
           /\ inbox' = [w \in Workers |-> Append(inbox[w], "shutdown")]

\* A worker left before it was sent the job, because another one panicked on
\* it: the coordinator answers with an internal error, as for the panic.
SendFails(w) ==
    /\ phase = "sending"
    /\ w \in todo
    /\ pc[w] = "left"
    /\ firstError' = "panic"
    /\ Dismiss
    /\ UNCHANGED <<todo, result, answer, pc, live, sent, poisoned, dataflow, budget>>

Arrived == {w \in todo : sent[w] # "none"}

\* A report arrives; the first error among them is kept.
Receive(w) ==
    /\ phase = "collecting"
    /\ w \in Arrived
    /\ todo' = todo \ {w}
    /\ phase' = IF todo' = {} THEN "concluding" ELSE phase
    /\ firstError' = IF firstError = "none" /\ sent[w] # "ok" THEN sent[w] ELSE firstError
    /\ UNCHANGED <<result, answer, workers, dataflow, budget>>

\* Mutant of WaitTimesOut: the coordinator does not look at the flag.
WaitBlindly == /\ phase = "collecting"
               /\ Arrived = {}
               /\ fault' = Reason
               /\ UNCHANGED <<coordinator, workers, dataflow, met, over>>

\* Nothing arrived for 20 ms: a poisoned set is not waited for any longer.
WaitTimesOut ==
    /\ phase = "collecting"
    /\ Arrived = {}
    /\ IF poisoned
       THEN phase' = "concluding" /\ UNCHANGED fault
       ELSE fault' = Reason /\ UNCHANGED phase
    /\ UNCHANGED <<todo, firstError, result, answer, workers, dataflow, met, over>>

\* What WorkerSet::run returns: the first error, the recorded fault of a
\* poisoned set, or what the budget says.
Verdict == IF firstError # "none" THEN firstError
           ELSE IF poisoned THEN fault
           ELSE Reason

Conclude ==
    /\ phase = "concluding"
    /\ fault' = IF firstError = "none" /\ ~ poisoned THEN Reason ELSE fault
    /\ firstError' = Verdict
    /\ IF Verdict = "none"
       THEN phase' = "settling" /\ UNCHANGED inbox
       ELSE Dismiss
    /\ UNCHANGED <<todo, result, answer, pc, live, sent, poisoned, dataflow, met, over>>

\* Mutant of TooMany: the ceiling itself is refused.
TooManyByOne(count) == count >= TupleLimit

TooMany(count) == count > TupleLimit

\* The captures are consolidated and their rows charged (note_tuples).
Settle ==
    /\ phase = "settling"
    /\ result' = {r \in Rows : place[r] = "published"}
    /\ IF TooMany(Cardinality(result'))
       THEN Fault("tuples") /\ met' = met \cup {"tuples"}
       ELSE UNCHANGED <<fault, met>>
    /\ Dismiss
    /\ UNCHANGED <<todo, firstError, answer, pc, live, sent, poisoned, dataflow, over>>

\* Mutant of Answer: the budget is not polled a last time.
AnswerUnpolled ==
    /\ phase = "leaving"
    /\ \A w \in Workers : pc[w] = "left"
    /\ phase' = "answered"
    /\ answer' = IF firstError # "none" THEN firstError ELSE "ok"
    /\ UNCHANGED <<todo, firstError, result, workers, dataflow, budget>>

\* The threads are joined, and the budget is polled a last time.
Answer ==
    /\ phase = "leaving"
    /\ \A w \in Workers : pc[w] = "left"
    /\ phase' = "answered"
    /\ IF firstError # "none"
       THEN answer' = firstError /\ UNCHANGED fault
       ELSE /\ fault' = Reason
            /\ answer' = IF Reason = "none" THEN "ok" ELSE Reason
    /\ UNCHANGED <<todo, firstError, result, workers, dataflow, met, over>>
-----------------------------------------------------------------------------
Init == /\ phase = "sending"
        /\ todo = Workers
        /\ firstError = "none"
        /\ result = {}
        /\ answer = "none"
        /\ pc = [w \in Workers |-> "top"]
        /\ inbox = [w \in Workers |-> << >>]
        /\ live = [w \in Workers |-> FALSE]
        /\ sent = [w \in Workers |-> "none"]
        /\ poisoned = FALSE
        /\ place = [r \in Rows |-> "unfed"]
        /\ at = Share
        /\ met \in SUBSET (Troubles \cap {"refused"})
        /\ over = FALSE
        /\ fault = "none"

Loop(w) == \/ CheckPoisoned(w)
           \/ Build(w) \/ FailToBuild(w) \/ TakeShutdown(w) \/ NoJob(w)
           \/ Operate(w) \/ MeetFault(w) \/ Capture(w) \/ Park(w)
           \/ Observe(w) \/ Flush(w) \/ KeepRunning(w) \/ Report(w)
           \/ RecordPanic(w) \/ Poison(w) \/ TellRun(w)

Coordinate == \/ \E w \in Workers : Send(w) \/ SendFails(w) \/ Receive(w)
              \/ WaitTimesOut \/ Conclude \/ Settle \/ Answer

Environment == \/ \E reason \in Reasons : ComeUp(reason)
               \/ Allocate \/ Free
               \/ \E w \in Workers : PanicBuilding(w) \/ Panic(w)

Answered == phase = "answered" /\ UNCHANGED vars

Next == (\E w \in Workers : Loop(w)) \/ Coordinate \/ Environment \/ Answered

\* Every thread goes on as long as it can; nobody has to cancel or to panic.
Fairness == WF_vars(Coordinate) /\ \A w \in Workers : WF_vars(Loop(w))

Spec == Init /\ [][Next]_vars /\ Fairness
-----------------------------------------------------------------------------
Diagnostics == Reasons \cup {"none"}

TypeOK ==
    /\ phase \in {"sending", "collecting", "concluding", "settling", "leaving", "answered"}
    /\ todo \subseteq Workers
    /\ firstError \in Diagnostics
    /\ result \subseteq Rows
    /\ answer \in Diagnostics \cup {"ok"}
    /\ pc \in [Workers -> {"top", "receiving", "stepping", "observing", "retaining",
                           "flushed", "panicked", "poisoning", "telling", "left"}]
    /\ inbox \in [Workers -> Seq({"run", "shutdown"})]
    /\ live \in [Workers -> BOOLEAN]
    /\ sent \in [Workers -> Diagnostics \cup {"ok"}]
    /\ poisoned \in BOOLEAN
    /\ place \in [Rows -> {"unfed", "input", "output", "captured", "published", "lost"}]
    /\ at \in [Rows -> Workers]
    /\ met \subseteq Reasons
    /\ over \in BOOLEAN
    /\ fault \in Diagnostics

\* An evaluation that answers with its rows answers with every one of them,
\* whatever stopped it on the way: no operator fell silent, no capture was
\* read before it was published, and no worker was left out.
NoRowMissing == answer = "ok" => result = Rows

\* A row vanishes only when the reason is on record, so that the polls of
\* the coordinator find it.
SilenceHasAReason == (\E r \in Rows : place[r] = "lost") => fault # "none"

\* The report of a worker comes after its captures: what the coordinator
\* settles is complete.
PublishedBeforeReported ==
    \A w \in Workers : sent[w] = "ok" => RowsAt(w, "captured") = {}

\* A worker reports a run once: the coordinator counts reports, and a second
\* one from the same worker would stand for that of another.
OneReportEach ==
    \A w \in Workers :
        live[w] \/ pc[w] \in {"panicked", "poisoning", "telling"} => sent[w] \in {"none", "panic"}

\* The set is poisoned only after the panic, or what came before it, is
\* recorded: a coordinator that finds the flag finds a reason.
PoisonedWithReason == poisoned => "panic" \in met /\ fault # "none"

\* A refusal names something that came up: the caller is not told of a
\* cancellation, a limit or a fault that was not there, and a tuple ceiling
\* is exceeded, not reached.
AnswerIsDeserved == /\ answer \notin {"none", "ok"} => answer \in met
                    /\ answer = "tuples" => Cardinality(Rows) > TupleLimit

\* An evaluation that answers with its rows stayed within its tuple ceiling:
\* the rows are charged before the last poll.
CeilingHolds == answer = "ok" => Cardinality(result) <= TupleLimit

\* "Record the first fault": what is on record is never replaced.
FirstFaultStays == [][fault # "none" => fault' = fault]_fault

\* Every evaluation answers: a stopped one drains, a poisoned one is not
\* waited for, and a failed one still gets rid of its threads.
EveryEvaluationAnswers == <>(phase = "answered")

\* What the caller sees is what EvaluationPromise allows.
Promise == INSTANCE EvaluationPromise
           WITH Passing <- {"memory"}, rows <- IF answer = "ok" THEN result ELSE {}

PromiseSpec == Promise!Spec
=============================================================================
