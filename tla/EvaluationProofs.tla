-------------------------- MODULE EvaluationProofs --------------------------
(***************************************************************************)
(* One evaluation, for every number of workers and rows, every partition   *)
(* of the input and every set of troubles.                                 *)
(*                                                                         *)
(* That an answer with rows is complete depends on the whole protocol: the *)
(* worker threads run their one job at most once (RunOnce), nobody flushes *)
(* before every worker has fed its share and every row has settled         *)
(* (FlushedLast), a row only vanishes with a reason on record (OnRecord),  *)
(* and the coordinator settles only if everybody reported well (Gathered). *)
(* EvaluationInv is the conjunction of the four with the types.            *)
(***************************************************************************)
EXTENDS Evaluation, TLAPS, FiniteSetTheorems

\* The job channel of a worker only ever holds the run, then the shutdown.
Inboxes == {<< >>, <<"run">>, <<"run", "shutdown">>, <<"shutdown">>}

Leaving == phase \in {"leaving", "answered"}

Channel == IF Leaving THEN Inboxes ELSE {<< >>, <<"run">>}

Typed == TypeOK /\ inbox \in [Workers -> Channel]

\* The worker has no dataflow and is in no hurry to report.
Idle(w) == ~ live[w] /\ pc[w] \in {"top", "receiving", "left"}

HasRun(w) == inbox[w] \in {<<"run">>, <<"run", "shutdown">>}

Unsent(w) == phase = "sending" /\ w \in todo

\* A worker is sent one run, and reports on it once.
RunsOnce(w) ==
    /\ HasRun(w) \/ Unsent(w) => Idle(w) /\ sent[w] = "none"
    /\ Unsent(w) => inbox[w] = << >>
    /\ sent[w] \notin {"none", "panic"} => Idle(w)
    /\ pc[w] \in {"stepping", "observing", "retaining", "flushed"} => live[w]

RunOnce == \A w \in Workers : RunsOnce(w)

HasFlushed(w) == pc[w] = "flushed" \/ sent[w] = "ok"

\* Once a worker has flushed, everybody has fed and no row is under way.
EverybodyBuilt == \A v \in Workers : live[v] \/ sent[v] = "ok"

EverythingSettled == \A r \in Rows : place[r] \in {"captured", "published", "lost"}

FlushedLast ==
    \A w \in Workers : HasFlushed(w) =>
        /\ EverybodyBuilt
        /\ EverythingSettled
        /\ \A r \in Rows : at[r] = w => place[r] # "captured"

\* Whatever goes wrong is met before it is told, and recorded before it
\* matters.
Told(w) ==
    /\ pc[w] \in {"panicked", "poisoning"} => "panic" \in met
    /\ pc[w] = "poisoning" => fault # "none"
    /\ pc[w] = "telling" => poisoned
    /\ pc[w] = "left" => poisoned \/ Leaving
    /\ sent[w] \in met \cup {"none", "ok"}
    /\ "refused" \in met => ~ live[w] /\ sent[w] # "ok"

OnRecord ==
    /\ SilenceHasAReason
    /\ \A w \in Workers : Told(w)
    /\ PoisonedWithReason
    /\ over => "memory" \in met
    /\ fault \in met \cup {"none"}
    /\ "function" \in met => fault # "none"
    /\ "tuples" \in met => fault # "none" /\ Cardinality(Rows) > TupleLimit
    /\ "panic" \in met => fault # "none" \/ \E w \in Workers : pc[w] = "panicked"

AllWell == \A w \in Workers : sent[w] = "ok"

\* The coordinator keeps the first error, and settles only without one.
Gathered ==
    /\ phase \in {"collecting", "concluding"} /\ firstError = "none" =>
         \A w \in Workers \ todo : sent[w] = "ok"
    /\ phase = "concluding" => todo = {} \/ poisoned
    /\ phase = "settling" => firstError = "none" /\ AllWell
    /\ phase = "leaving" /\ firstError = "none" =>
         /\ AllWell
         /\ fault = "none" => result = Rows /\ ~ TooMany(Cardinality(result))
    /\ phase = "answered" => \A w \in Workers : pc[w] = "left"
    /\ phase = "answered" <=> answer # "none"
    /\ firstError \in met \cup {"none"}
    /\ answer \in met \cup {"none", "ok"}
    /\ answer = "ok" => result = Rows /\ ~ TooMany(Cardinality(result))

EvaluationInv == Typed /\ RunOnce /\ FlushedLast /\ OnRecord /\ Gathered
-----------------------------------------------------------------------------
\* What sending, taking and dismissing do to a job channel.
LEMMA Jobs ==
    /\ Append(<< >>, "run") = <<"run">>
    /\ Append(<< >>, "shutdown") = <<"shutdown">>
    /\ Append(<<"run">>, "shutdown") = <<"run", "shutdown">>
    /\ Tail(<<"run">>) = << >> /\ Head(<<"run">>) = "run"
    /\ Tail(<<"shutdown">>) = << >> /\ Head(<<"shutdown">>) = "shutdown"
    /\ Tail(<<"run", "shutdown">>) = <<"shutdown">>
    /\ Head(<<"run", "shutdown">>) = "run"
    /\ << >> # <<"run">> /\ << >> # <<"shutdown">> /\ << >> # <<"run", "shutdown">>
    /\ <<"run">> # <<"shutdown">> /\ <<"run">> # <<"run", "shutdown">>
    /\ <<"shutdown">> # <<"run", "shutdown">>
<1>1. /\ Append(<< >>, "run") = <<"run">>
      /\ Append(<< >>, "shutdown") = <<"shutdown">>
    OBVIOUS
<1>2. Append(<<"run">>, "shutdown") = <<"run", "shutdown">>
    <2> DEFINE s == Append(<<"run">>, "shutdown")
               t == <<"run", "shutdown">>
    <2>1. /\ s \in Seq({"run", "shutdown"}) /\ t \in Seq({"run", "shutdown"})
          /\ Len(s) = 2 /\ Len(t) = 2
        OBVIOUS
    <2>2. s[1] = "run" /\ s[2] = "shutdown" /\ t[1] = "run" /\ t[2] = "shutdown"
        OBVIOUS
    <2>3. s = [i \in 1 .. 2 |-> s[i]] /\ t = [i \in 1 .. 2 |-> t[i]]
        BY <2>1
    <2> HIDE DEF s, t
    <2>4. s = t
        BY <2>2, <2>3
    <2> QED
        BY <2>4 DEF s, t
<1>3. /\ Tail(<<"run">>) = << >> /\ Head(<<"run">>) = "run"
      /\ Tail(<<"shutdown">>) = << >> /\ Head(<<"shutdown">>) = "shutdown"
    OBVIOUS
<1>4. Tail(<<"run", "shutdown">>) = <<"shutdown">>
    OBVIOUS
<1>5. Head(<<"run", "shutdown">>) = "run"
    OBVIOUS
<1>6. << >> # <<"run">> /\ << >> # <<"shutdown">> /\ << >> # <<"run", "shutdown">>
    OBVIOUS
<1>7. /\ <<"run">> # <<"shutdown">> /\ <<"run">> # <<"run", "shutdown">>
      /\ <<"shutdown">> # <<"run", "shutdown">>
    OBVIOUS
<1> QED
    BY <1>1, <1>2, <1>3, <1>4, <1>5, <1>6, <1>7

\* A channel never holds anything but jobs.
LEMMA ChannelsAreJobs ==
    Channel \subseteq Inboxes /\ Inboxes \subseteq Seq({"run", "shutdown"})
BY DEF Inboxes, Channel

\* Taking a job and being dismissed lead from channel to channel.
LEMMA ChannelsStay ==
    ASSUME NEW c \in Channel
    PROVE  /\ c # << >> => Tail(c) \in Channel
           /\ ~ Leaving => Append(c, "shutdown") \in Inboxes
<1>1. CASE Leaving
    <2>1. ASSUME c # << >> PROVE Tail(c) \in Inboxes
        <3>1. CASE c = <<"run">>
            BY <3>1, Jobs DEF Inboxes
        <3>2. CASE c = <<"run", "shutdown">>
            BY <3>2, Jobs DEF Inboxes
        <3>3. CASE c = <<"shutdown">>
            BY <3>3, Jobs DEF Inboxes
        <3> QED
            BY <1>1, <2>1, <3>1, <3>2, <3>3 DEF Channel, Inboxes
    <2> QED
        BY <1>1, <2>1 DEF Channel
<1>2. CASE ~ Leaving
    <2>1. CASE c = << >>
        BY <1>2, <2>1, Jobs DEF Channel, Inboxes
    <2>2. CASE c = <<"run">>
        BY <1>2, <2>2, Jobs DEF Channel, Inboxes
    <2> QED
        BY <1>2, <2>1, <2>2 DEF Channel
<1> QED
    BY <1>1, <1>2

\* What Budget::reason answers has come up, or is nothing.
LEMMA ReasonIsMet ==
    ASSUME TypeOK, OnRecord
    PROVE  /\ Reason \in met \cup {"none"}
           /\ Reason \in Diagnostics
           /\ fault # "none" => Reason = fault
           /\ Reason = "none" => fault = "none" /\ "cancelled" \notin met
                                 /\ "deadline" \notin met
BY DEF Reason, Stopped, TypeOK, OnRecord, Diagnostics
-----------------------------------------------------------------------------
LEMMA InitEvaluation == Init => EvaluationInv
<1> SUFFICES ASSUME Init PROVE EvaluationInv
    OBVIOUS
<1>1. Typed
    BY ChannelsAreJobs, EvaluationAssumption
    DEF Init, Typed, TypeOK, Leaving, Diagnostics, Inboxes, Channel, Reasons
<1>2. RunOnce
    BY Jobs DEF Init, RunOnce, RunsOnce, HasRun, Unsent, Idle
<1>3. FlushedLast /\ OnRecord /\ Gathered
    BY EvaluationAssumption
    DEF Init, FlushedLast, HasFlushed, OnRecord, Told, SilenceHasAReason,
        PoisonedWithReason, Gathered, AllWell, Reasons
<1> QED
    BY <1>1, <1>2, <1>3 DEF EvaluationInv

\* A channel holds jobs, the shutdown last.
LEMMA InboxStep ==
    ASSUME EvaluationInv, [Next]_vars
    PROVE  inbox' \in [Workers -> Channel']
<1> DEFINE Goal == inbox' \in [Workers -> Channel']
<1>a. inbox \in [Workers -> Channel]
    BY DEF EvaluationInv, Typed
<1>b. Channel' = IF Leaving' THEN Inboxes ELSE {<< >>, <<"run">>}
    BY DEF Channel
<1>1. ASSUME NEW w \in Workers, TakeJob(w), inbox[w] # << >>, phase' = phase
      PROVE  Goal
    <2>1. Channel' = Channel
        BY <1>1 DEF Channel, Leaving
    <2>2. Tail(inbox[w]) \in Channel
        BY <1>a, <1>1, ChannelsStay
    <2> QED
        BY <1>a, <1>1, <2>1, <2>2 DEF TakeJob
<1>2. ASSUME NEW w \in Workers, Send(w)
      PROVE  Goal
    <2>1. inbox[w] = << >> /\ ~ Leaving'
        BY <1>2 DEF Send, EvaluationInv, RunOnce, RunsOnce, Unsent, Leaving
    <2>2. Channel' = Channel /\ Append(inbox[w], "run") \in Channel
        BY <1>2, <2>1, Jobs DEF Channel, Leaving, Send
    <2> QED
        BY <1>a, <1>2, <2>2 DEF Send
<1>3. ASSUME Dismiss, ~ Leaving
      PROVE  Goal
    <2>1. \A w \in Workers : Append(inbox[w], "shutdown") \in Inboxes
        BY <1>a, <1>3, ChannelsStay
    <2> QED
        BY <1>b, <1>3, <2>1 DEF Dismiss, Leaving
<1>4. ASSUME UNCHANGED inbox, Leaving => Leaving'
      PROVE  Goal
    BY <1>a, <1>b, <1>4 DEF Channel, Inboxes, Leaving
<1>5. ASSUME NEW w \in Workers, Loop(w) \/ PanicBuilding(w)
      PROVE  Goal
    <2>1. phase' = phase
        BY <1>5 DEF Loop, CheckPoisoned, Build, FailToBuild, TakeShutdown, NoJob,
                    Operate, MeetFault, Capture, Park, Observe, Flush, KeepRunning,
                    Report, RecordPanic, Poison, TellRun, PanicBuilding, coordinator
    <2>2. UNCHANGED inbox \/ (TakeJob(w) /\ inbox[w] # << >>)
        BY <1>5 DEF Loop, CheckPoisoned, Build, FailToBuild, TakeShutdown, NoJob,
                    Operate, MeetFault, Capture, Park, Observe, Flush, KeepRunning,
                    Report, RecordPanic, Poison, TellRun, PanicBuilding, HasJob
    <2> QED
        BY <1>1, <1>4, <2>1, <2>2 DEF Leaving
<1>6. CASE Settle \/ \E w \in Workers : SendFails(w)
    BY <1>3, <1>6 DEF Settle, SendFails, Leaving
<1>7. CASE Conclude
    BY <1>3, <1>4, <1>7 DEF Conclude, Leaving
<1>8. CASE Environment \/ Answered \/ UNCHANGED vars
    <2>1. SUFFICES ASSUME ~ \E w \in Workers : PanicBuilding(w) PROVE Goal
        BY <1>5
    <2> QED
        BY <1>4, <1>8, <2>1
        DEF Environment, ComeUp, Allocate, Free, Panic, Answered, vars, coordinator,
            workers, Leaving
<1>9. CASE WaitTimesOut \/ Answer \/ \E w \in Workers : Receive(w)
    BY <1>4, <1>9 DEF WaitTimesOut, Answer, Receive, workers, Leaving
<1> QED
    BY <1>2, <1>5, <1>6, <1>7, <1>8, <1>9 DEF Next, Coordinate

\* Every variable keeps its type: one step per action.
LEMMA TypeStep ==
    ASSUME EvaluationInv, [Next]_vars
    PROVE  TypeOK'
<1>a. inbox' \in [Workers -> Seq({"run", "shutdown"})]
    BY InboxStep, ChannelsAreJobs DEF Channel, Inboxes
<1>b. TypeOK /\ Reason \in Diagnostics
    BY ReasonIsMet DEF EvaluationInv, Typed
<1>c. {"none", "panic", "function", "tuples", "refused"} \subseteq Diagnostics
      /\ Reasons \subseteq Diagnostics
      /\ {"panic", "function", "tuples", "memory"} \subseteq Reasons
    BY DEF Diagnostics, Reasons
<1>d. ASSUME NEW reason \in Diagnostics, Fault(reason)
      PROVE  fault' \in Diagnostics
    BY <1>b, <1>d DEF Fault, TypeOK
<1> USE <1>a, <1>b, <1>c, EvaluationAssumption
    DEF TypeOK, coordinator, workers, dataflow, budget
<1>1. ASSUME NEW w \in Workers,
             CheckPoisoned(w) \/ TakeShutdown(w) \/ NoJob(w) \/ Park(w) \/ KeepRunning(w)
      PROVE  TypeOK'
    BY <1>1 DEF CheckPoisoned, TakeShutdown, NoJob, Park, KeepRunning, Goto
<1>2. ASSUME NEW w \in Workers, Build(w) PROVE TypeOK'
    BY <1>2 DEF Build
<1>3. ASSUME NEW w \in Workers, FailToBuild(w) PROVE TypeOK'
    BY <1>3 DEF FailToBuild, Goto
<1>4. ASSUME NEW w \in Workers, PanicBuilding(w) PROVE TypeOK'
    BY <1>4 DEF PanicBuilding, Goto
<1>5. ASSUME NEW w \in Workers, Operate(w) PROVE TypeOK'
    <2>1. PICK r \in Rows :
            /\ place' \in {[place EXCEPT ![r] = "lost"], [place EXCEPT ![r] = "output"]}
            /\ at' = at \/ \E v \in Workers : at' = [at EXCEPT ![r] = v]
        BY <1>5 DEF Operate, RowsAt
    <2>2. at' \in [Rows -> Workers]
        BY <2>1
    <2>3. place' \in [Rows -> {"unfed", "input", "output", "captured", "published", "lost"}]
        BY <2>1
    <2> QED
        BY <1>5, <2>2, <2>3 DEF Operate, Goto
<1>6. ASSUME NEW w \in Workers, MeetFault(w) PROVE TypeOK'
    BY <1>6, <1>d DEF MeetFault, RowsAt, Goto
<1>7. ASSUME NEW w \in Workers, Capture(w) PROVE TypeOK'
    BY <1>7 DEF Capture, RowsAt, Goto
<1>8. ASSUME NEW w \in Workers, Observe(w) PROVE TypeOK'
    BY <1>8 DEF Observe, Goto
<1>9. ASSUME NEW w \in Workers, Flush(w) PROVE TypeOK'
    BY <1>9 DEF Flush, RowsAt, Goto
<1>10. ASSUME NEW w \in Workers, Report(w) PROVE TypeOK'
    BY <1>10 DEF Report, Goto
<1>11. ASSUME NEW w \in Workers, Panic(w) PROVE TypeOK'
    BY <1>11 DEF Panic, Goto
<1>12. ASSUME NEW w \in Workers, RecordPanic(w) PROVE TypeOK'
    BY <1>12, <1>d DEF RecordPanic, Goto
<1>13. ASSUME NEW w \in Workers, Poison(w) PROVE TypeOK'
    BY <1>13 DEF Poison, Goto
<1>14. ASSUME NEW w \in Workers, TellRun(w) PROVE TypeOK'
    BY <1>14 DEF TellRun, Goto
<1>15. ASSUME NEW w \in Workers, Send(w) PROVE TypeOK'
    BY <1>15 DEF Send
<1>16. ASSUME NEW w \in Workers, SendFails(w) PROVE TypeOK'
    BY <1>16 DEF SendFails, Dismiss
<1>17. ASSUME NEW w \in Workers, Receive(w) PROVE TypeOK'
    BY <1>17 DEF Receive, Arrived, Diagnostics
<1>18. CASE WaitTimesOut
    BY <1>18 DEF WaitTimesOut
<1>19. CASE Conclude
    <2>1. Verdict \in Diagnostics
        BY DEF Verdict
    <2> QED
        BY <1>19, <2>1 DEF Conclude, Dismiss
<1>20. CASE Settle
    <2>1. result' \subseteq Rows
        BY <1>20 DEF Settle
    <2>2. fault' \in Diagnostics /\ met' \subseteq Reasons
        BY <1>20, <1>d DEF Settle
    <2> QED
        BY <1>20, <2>1, <2>2 DEF Settle, Dismiss
<1>21. CASE Answer
    BY <1>21 DEF Answer
<1>22. CASE Allocate \/ Free \/ Answered \/ UNCHANGED vars
               \/ \E reason \in Reasons : ComeUp(reason)
    BY <1>22 DEF Allocate, Free, ComeUp, Answered, vars
<1> QED
    BY <1>1, <1>2, <1>3, <1>4, <1>5, <1>6, <1>7, <1>8, <1>9, <1>10, <1>11, <1>12,
       <1>13, <1>14, <1>15, <1>16, <1>17, <1>18, <1>19, <1>20, <1>21, <1>22
    DEF Next, Loop, Coordinate, Environment

LEMMA TypedStep == ASSUME EvaluationInv, [Next]_vars PROVE Typed'
BY TypeStep, InboxStep DEF Typed
-----------------------------------------------------------------------------
\* A channel with a run at its head has none behind it.
LEMMA TakenRun ==
    ASSUME Typed, NEW w \in Workers
    PROVE  /\ HasJob(w, "run") => HasRun(w)
           /\ HasJob(w, "run") \/ HasJob(w, "shutdown") =>
                Tail(inbox[w]) \notin {<<"run">>, <<"run", "shutdown">>}
<1>1. inbox[w] \in Inboxes
    BY ChannelsAreJobs DEF Typed
<1>2. CASE inbox[w] = << >>
    BY <1>2 DEF HasJob
<1>3. CASE inbox[w] = <<"run">>
    BY <1>3, Jobs DEF HasJob, HasRun
<1>4. CASE inbox[w] = <<"run", "shutdown">>
    BY <1>4, Jobs DEF HasJob, HasRun
<1>5. CASE inbox[w] = <<"shutdown">>
    BY <1>5, Jobs DEF HasJob, HasRun
<1> QED
    BY <1>1, <1>2, <1>3, <1>4, <1>5 DEF Inboxes

\* Being dismissed gives nobody a run.
LEMMA DismissedRun ==
    ASSUME NEW c \in {<< >>, <<"run">>}
    PROVE  Append(c, "shutdown") \in {<<"run">>, <<"run", "shutdown">>} => c = <<"run">>
BY Jobs

\* Nobody runs twice or reports twice: one step per action.
LEMMA RunOnceStep ==
    ASSUME EvaluationInv, [Next]_vars
    PROVE  RunOnce'
<1> SUFFICES ASSUME NEW v \in Workers PROVE RunsOnce(v)'
    BY DEF RunOnce
<1>a. RunsOnce(v) /\ TypeOK /\ Typed
    BY DEF EvaluationInv, RunOnce, Typed
<1>b. ASSUME /\ inbox'[v] = inbox[v] /\ live'[v] = live[v]
             /\ sent'[v] = sent[v] /\ pc'[v] = pc[v]
             /\ Unsent(v)' => Unsent(v)
      PROVE  RunsOnce(v)'
    BY <1>a, <1>b DEF RunsOnce, HasRun, Idle
<1>c. ASSUME NEW w \in Workers, TakeJob(w), UNCHANGED <<phase, todo>>,
             HasJob(w, "run") \/ HasJob(w, "shutdown"), v = w
      PROVE  ~ HasRun(v)' /\ ~ Unsent(v)'
    <2>1. inbox'[v] = Tail(inbox[v]) /\ inbox[v] # << >>
        BY <1>a, <1>c DEF TypeOK, TakeJob, HasJob
    <2> QED
        BY <1>a, <1>c, <2>1, TakenRun DEF HasRun, RunsOnce, Unsent
<1>d. ASSUME NEW w \in Workers, TakeJob(w), v # w
      PROVE  inbox'[v] = inbox[v]
    BY <1>a, <1>d DEF TypeOK, TakeJob
<1> USE <1>a DEF TypeOK, RunsOnce, Unsent, Idle, Goto,
                 coordinator, workers, dataflow, budget
<1>1. ASSUME NEW w \in Workers, CheckPoisoned(w) PROVE RunsOnce(v)'
    BY <1>1 DEF CheckPoisoned, HasRun
<1>2. ASSUME NEW w \in Workers, Build(w) PROVE RunsOnce(v)'
    <2>1. CASE v = w
        BY <1>2, <1>c, <2>1, TakenRun DEF Build
    <2>2. CASE v # w
        BY <1>2, <1>b, <1>d, <2>2 DEF Build
    <2> QED
        BY <2>1, <2>2
<1>3. ASSUME NEW w \in Workers, FailToBuild(w) PROVE RunsOnce(v)'
    <2>1. CASE v = w
        BY <1>3, <1>c, <2>1, TakenRun DEF FailToBuild
    <2>2. CASE v # w
        BY <1>3, <1>b, <1>d, <2>2 DEF FailToBuild
    <2> QED
        BY <2>1, <2>2
<1>4. ASSUME NEW w \in Workers, PanicBuilding(w) PROVE RunsOnce(v)'
    <2>1. CASE v = w
        BY <1>4, <1>c, <2>1, TakenRun DEF PanicBuilding
    <2>2. CASE v # w
        BY <1>4, <1>b, <1>d, <2>2 DEF PanicBuilding
    <2> QED
        BY <2>1, <2>2
<1>5. ASSUME NEW w \in Workers, TakeShutdown(w) PROVE RunsOnce(v)'
    <2>1. CASE v = w
        BY <1>5, <1>c, <2>1, TakenRun DEF TakeShutdown
    <2>2. CASE v # w
        BY <1>5, <1>b, <1>d, <2>2 DEF TakeShutdown
    <2> QED
        BY <2>1, <2>2
<1>6. ASSUME NEW w \in Workers,
             Operate(w) \/ MeetFault(w) \/ Capture(w) \/ Park(w) \/ Observe(w)
               \/ Flush(w) \/ KeepRunning(w) \/ NoJob(w)
      PROVE  RunsOnce(v)'
    BY <1>6 DEF Operate, MeetFault, Capture, Park, Observe, Flush, KeepRunning, NoJob, HasRun
<1>7. ASSUME NEW w \in Workers, Report(w) \/ TellRun(w) PROVE RunsOnce(v)'
    BY <1>7 DEF Report, TellRun, HasRun
<1>8. ASSUME NEW w \in Workers, Panic(w) \/ RecordPanic(w) \/ Poison(w)
      PROVE  RunsOnce(v)'
    BY <1>8 DEF Panic, RecordPanic, Poison, HasRun
<1>9. ASSUME NEW w \in Workers, Send(w) PROVE RunsOnce(v)'
    BY <1>9, Jobs DEF Send, HasRun
<1>10. ASSUME Dismiss, ~ Leaving, UNCHANGED <<pc, live, sent>> PROVE RunsOnce(v)'
    BY <1>10, DismissedRun DEF Dismiss, Typed, Channel, HasRun
<1>11. ASSUME NEW w \in Workers, SendFails(w) PROVE RunsOnce(v)'
    BY <1>10, <1>11 DEF SendFails, Leaving
<1>12. ASSUME NEW w \in Workers, Receive(w) PROVE RunsOnce(v)'
    BY <1>b, <1>12 DEF Receive
<1>13. CASE WaitTimesOut \/ Answer
    BY <1>b, <1>13 DEF WaitTimesOut, Answer
<1>14. CASE Conclude
    BY <1>b, <1>10, <1>14 DEF Conclude, Leaving
<1>15. CASE Settle
    BY <1>10, <1>15 DEF Settle, Leaving
<1>16. CASE Allocate \/ Free \/ Answered \/ UNCHANGED vars
               \/ \E reason \in Reasons : ComeUp(reason)
    BY <1>b, <1>16 DEF Allocate, Free, ComeUp, Answered, vars
<1> QED
    BY <1>1, <1>2, <1>3, <1>4, <1>5, <1>6, <1>7, <1>8, <1>9, <1>11, <1>12,
       <1>13, <1>14, <1>15, <1>16
    DEF Next, Loop, Coordinate, Environment
-----------------------------------------------------------------------------
\* The facts the steps below need of the worker w, in one place.
LEMMA OfWorker ==
    ASSUME EvaluationInv, NEW w \in Workers
    PROVE  RunsOnce(w) /\ Told(w) /\ TypeOK
BY DEF EvaluationInv, RunOnce, OnRecord, Typed

\* A worker that builds has neither a dataflow nor a report.
LEMMA BuildsOnce ==
    ASSUME EvaluationInv, NEW w \in Workers, HasJob(w, "run")
    PROVE  ~ live[w] /\ sent[w] = "none"
BY OfWorker, TakenRun DEF EvaluationInv, RunsOnce, Idle

\* A worker that has built stays built: its dataflow goes with a report.
LEMMA BuiltStays ==
    ASSUME EvaluationInv, [Next]_vars, EverybodyBuilt
    PROVE  EverybodyBuilt'
<1> SUFFICES ASSUME NEW v \in Workers PROVE live'[v] \/ sent'[v] = "ok"
    BY DEF EverybodyBuilt
<1>a. (live[v] \/ sent[v] = "ok") /\ TypeOK /\ RunsOnce(v)
    BY OfWorker DEF EverybodyBuilt
<1>1. ASSUME NEW w \in Workers, Build(w) PROVE live'[v] \/ sent'[v] = "ok"
    BY <1>a, <1>1 DEF Build, TypeOK
<1>2. ASSUME NEW w \in Workers, FailToBuild(w) PROVE live'[v] \/ sent'[v] = "ok"
    BY <1>a, <1>2, BuildsOnce DEF FailToBuild, TypeOK
<1>3. ASSUME NEW w \in Workers, Report(w) \/ TellRun(w)
      PROVE  live'[v] \/ sent'[v] = "ok"
    BY <1>a, <1>3 DEF Report, TellRun, Goto, RunsOnce, Idle, TypeOK
<1>4. CASE UNCHANGED <<live, sent>>
    BY <1>a, <1>4
<1>5. \/ \E w \in Workers : Build(w) \/ FailToBuild(w) \/ Report(w) \/ TellRun(w)
      \/ UNCHANGED <<live, sent>>
    BY DEF Next, Loop, Coordinate, Environment, vars, workers, dataflow, budget,
           CheckPoisoned, TakeShutdown, NoJob, Operate, MeetFault, Capture, Park,
           Observe, Flush, KeepRunning, RecordPanic, Poison, PanicBuilding, Panic,
           Send, SendFails, Receive, WaitTimesOut, Conclude, Settle, Answer,
           ComeUp, Allocate, Free, Answered
<1> QED
    BY <1>1, <1>2, <1>3, <1>4, <1>5

\* A worker flushes by Flush, and only then reports well.
LEMMA FlushesFirst ==
    ASSUME EvaluationInv, [Next]_vars, NEW w \in Workers, HasFlushed(w)'
    PROVE  HasFlushed(w) \/ Flush(w)
<1>a. TypeOK
    BY DEF EvaluationInv, Typed
<1> USE <1>a DEF HasFlushed, TypeOK, Goto, coordinator, workers, dataflow, budget
<1>1. ASSUME NEW v \in Workers, Loop(v), v # w
      PROVE  HasFlushed(w)
    BY <1>1 DEF Loop, CheckPoisoned, Build, FailToBuild, TakeShutdown, NoJob,
                Operate, MeetFault, Capture, Park, Observe, Flush, KeepRunning,
                Report, RecordPanic, Poison, TellRun
<1>2. ASSUME Loop(w), ~ Flush(w)
      PROVE  HasFlushed(w)
    BY <1>2 DEF Loop, CheckPoisoned, Build, FailToBuild, TakeShutdown, NoJob,
                Operate, MeetFault, Capture, Park, Observe, KeepRunning,
                Report, RecordPanic, Poison, TellRun
<1>3. CASE Environment \/ Answered \/ UNCHANGED vars
    BY <1>3 DEF Environment, ComeUp, Allocate, Free, PanicBuilding, Panic, Answered, vars
<1>4. CASE Coordinate
    BY <1>4 DEF Coordinate, Send, SendFails, Receive, WaitTimesOut, Conclude, Settle,
                Answer
<1> QED
    BY <1>1, <1>2, <1>3, <1>4 DEF Next

\* Once everything has settled, only a flush moves a row.
LEMMA SettledRows ==
    ASSUME EvaluationInv, [Next]_vars, EverybodyBuilt, EverythingSettled
    PROVE  UNCHANGED <<place, at>> \/ \E w \in Workers : Flush(w)
<1>1. \A w \in Workers : ~ Build(w)
    BY BuildsOnce DEF Build, EverybodyBuilt
<1>2. \A w \in Workers : ~ Operate(w) /\ ~ MeetFault(w) /\ ~ Capture(w)
    BY DEF Operate, MeetFault, Capture, RowsAt, EverythingSettled
<1> QED
    BY <1>1, <1>2
    DEF Next, Loop, Coordinate, Environment, vars, workers, dataflow, budget,
        CheckPoisoned, FailToBuild, TakeShutdown, NoJob, Park, Observe, KeepRunning,
        Report, RecordPanic, Poison, TellRun, PanicBuilding, Panic, Send, SendFails,
        Receive, WaitTimesOut, Conclude, Settle, Answer, ComeUp, Allocate, Free,
        Answered

\* Whoever has flushed was the last to do anything for its rows.
LEMMA FlushedLastStep ==
    ASSUME EvaluationInv, [Next]_vars
    PROVE  FlushedLast'
<1> SUFFICES ASSUME NEW w \in Workers, HasFlushed(w)'
             PROVE  /\ EverybodyBuilt'
                    /\ EverythingSettled'
                    /\ \A r \in Rows : at'[r] = w => place'[r] # "captured"
    BY DEF FlushedLast
<1>a. TypeOK /\ FlushedLast
    BY DEF EvaluationInv, Typed
<1>1. EverybodyBuilt /\ EverythingSettled
    <2>1. CASE HasFlushed(w)
        BY <1>a, <2>1 DEF FlushedLast
    <2>2. CASE Flush(w)
        BY <2>2 DEF Flush, ProbeDone, EverybodyBuilt, EverythingSettled
    <2> QED
        BY <2>1, <2>2, FlushesFirst
<1>2. ASSUME NEW v \in Workers, Flush(v), v = w \/ HasFlushed(w)
      PROVE  /\ EverythingSettled'
             /\ \A r \in Rows : at'[r] = w => place'[r] # "captured"
    BY <1>a, <1>1, <1>2 DEF Flush, RowsAt, EverythingSettled, FlushedLast, TypeOK
<1>3. EverybodyBuilt'
    BY <1>1, BuiltStays
<1>4. CASE UNCHANGED <<place, at>> /\ HasFlushed(w)
    BY <1>a, <1>3, <1>4 DEF FlushedLast, EverythingSettled
<1>5. CASE Flush(w)
    BY <1>2, <1>3, <1>5
<1>6. CASE HasFlushed(w)
    <2>1. UNCHANGED <<place, at>> \/ \E v \in Workers : Flush(v)
        BY <1>1, SettledRows
    <2> QED
        BY <1>2, <1>3, <1>4, <1>6, <2>1
<1> QED
    BY <1>5, <1>6, FlushesFirst
-----------------------------------------------------------------------------
\* What is on record, what has come up and what is poisoned stays so.
LEMMA Monotone ==
    ASSUME EvaluationInv, [Next]_vars
    PROVE  /\ fault # "none" => fault' = fault
           /\ met \subseteq met'
           /\ poisoned => poisoned'
           /\ Leaving => Leaving'
<1>a. fault # "none" => Reason = fault
    BY DEF Reason, Stopped
<1> USE DEF coordinator, workers, dataflow, budget
<1>1. ASSUME NEW w \in Workers, Loop(w)
      PROVE  /\ fault # "none" => fault' = fault
             /\ met \subseteq met'
             /\ poisoned => poisoned'
             /\ phase' = phase
    BY <1>a, <1>1
    DEF Loop, CheckPoisoned, Build, FailToBuild, TakeShutdown, NoJob, Operate,
        MeetFault, Capture, Park, Observe, Flush, KeepRunning, Report, RecordPanic,
        Poison, TellRun, Fault, Stopped
<1>2. CASE Coordinate
    BY <1>a, <1>2
    DEF Coordinate, Send, SendFails, Receive, WaitTimesOut, Conclude, Settle, Answer,
        Dismiss, Fault, Stopped, Leaving
<1>3. CASE Environment \/ Answered \/ UNCHANGED vars
    BY <1>3
    DEF Environment, ComeUp, Allocate, Free, PanicBuilding, Panic, Answered, vars, Leaving
<1> QED
    BY <1>1, <1>2, <1>3 DEF Next, Leaving

\* A row vanishes only where the fault is on record already, or is recorded
\* with it.
LEMMA SilenceStep ==
    ASSUME EvaluationInv, [Next]_vars
    PROVE  SilenceHasAReason'
<1> SUFFICES ASSUME NEW r \in Rows, place'[r] = "lost"
             PROVE  fault' # "none"
    BY DEF SilenceHasAReason
<1>a. TypeOK /\ SilenceHasAReason
    BY DEF EvaluationInv, Typed, OnRecord
<1>1. CASE place[r] = "lost"
    BY <1>a, <1>1, Monotone DEF SilenceHasAReason
<1>2. CASE place[r] # "lost"
    <2>1. PICK w \in Workers : Operate(w) \/ MeetFault(w)
        BY <1>a, <1>2
        DEF Next, Loop, Coordinate, Environment, vars, workers, dataflow, budget,
            CheckPoisoned, Build, FailToBuild, TakeShutdown, NoJob, Capture, Park,
            Observe, Flush, KeepRunning, Report, RecordPanic, Poison, TellRun,
            PanicBuilding, Panic, Send, SendFails, Receive, WaitTimesOut, Conclude,
            Settle, Answer, ComeUp, Allocate, Free, Answered, RowsAt, TypeOK
    <2>2. CASE Operate(w)
        BY <1>a, <1>2, <2>2 DEF Operate, RowsAt, Stopped, TypeOK, budget
    <2>3. CASE MeetFault(w)
        BY <2>3 DEF MeetFault, Fault, Stopped
    <2> QED
        BY <2>1, <2>2, <2>3
<1> QED
    BY <1>1, <1>2

\* Where a worker stands, and what it has reported, has come up.
LEMMA ToldStep ==
    ASSUME EvaluationInv, [Next]_vars, NEW v \in Workers
    PROVE  Told(v)'
<1>a. Told(v) /\ RunsOnce(v) /\ TypeOK /\ OnRecord
    BY OfWorker DEF EvaluationInv
<1>b. /\ fault # "none" => fault' = fault
      /\ met \subseteq met' /\ (poisoned => poisoned') /\ (Leaving => Leaving')
    BY Monotone
<1>c. ASSUME /\ pc'[v] = pc[v] \/ pc'[v] \in {"top", "receiving", "stepping",
                                          "observing", "retaining", "flushed"}
             /\ sent'[v] = sent[v]
             /\ live'[v] = live[v]
             /\ "refused" \in met' => "refused" \in met
      PROVE  Told(v)'
    BY <1>a, <1>b, <1>c DEF Told
<1> USE <1>a, <1>b DEF TypeOK, Goto, coordinator, workers, dataflow, budget
<1>1. ASSUME NEW w \in Workers, CheckPoisoned(w)
      PROVE  Told(v)'
    BY <1>1 DEF CheckPoisoned, Told
<1>2. ASSUME NEW w \in Workers, Build(w)
      PROVE  Told(v)'
    BY <1>2 DEF Build, Told
<1>3. ASSUME NEW w \in Workers, FailToBuild(w)
      PROVE  Told(v)'
    BY <1>3 DEF FailToBuild, Told
<1>4. ASSUME NEW w \in Workers, PanicBuilding(w) \/ Panic(w)
      PROVE  Told(v)'
    BY <1>4 DEF PanicBuilding, Panic, Told
<1>5. ASSUME NEW w \in Workers, TakeShutdown(w)
      PROVE  Told(v)'
    <2>1. inbox[w] \in Channel /\ inbox[w] # << >> /\ Head(inbox[w]) = "shutdown"
        BY <1>5 DEF TakeShutdown, HasJob, EvaluationInv, Typed
    <2>2. Leaving'
        BY <1>b, <2>1, Jobs DEF Channel
    <2> QED
        BY <1>5, <2>2 DEF TakeShutdown, Told
<1>6. ASSUME NEW w \in Workers,
             Operate(w) \/ Capture(w) \/ Park(w) \/ Observe(w)
               \/ Flush(w) \/ KeepRunning(w) \/ NoJob(w)
      PROVE  Told(v)'
    BY <1>c, <1>6 DEF Operate, Capture, Park, Observe, Flush, KeepRunning, NoJob
<1>7. ASSUME NEW w \in Workers, MeetFault(w)
      PROVE  Told(v)'
    BY <1>c, <1>7 DEF MeetFault
<1>8. ASSUME NEW w \in Workers, Report(w)
      PROVE  Told(v)'
    BY <1>8 DEF Report, Told, RunsOnce
<1>9. ASSUME NEW w \in Workers, RecordPanic(w)
      PROVE  Told(v)'
    BY <1>9 DEF RecordPanic, Fault, Stopped, Told
<1>10. ASSUME NEW w \in Workers, Poison(w)
       PROVE  Told(v)'
    BY <1>10 DEF Poison, Told
<1>11. ASSUME NEW w \in Workers, TellRun(w)
       PROVE  Told(v)'
    BY <1>11 DEF TellRun, Told, OnRecord, PoisonedWithReason
<1>12. CASE Coordinate
    <2>1. UNCHANGED <<pc, sent, live>> /\ met' \subseteq met \cup {"tuples"}
        BY <1>12 DEF Coordinate, Send, SendFails, Receive, WaitTimesOut, Conclude,
                     Settle, Answer, Dismiss
    <2> QED
        BY <1>c, <2>1
<1>13. CASE Allocate \/ Free \/ Answered \/ UNCHANGED vars
               \/ \E reason \in Reasons : ComeUp(reason)
    <2>1. UNCHANGED <<pc, sent, live>>
          /\ met' \subseteq met \cup {"cancelled", "deadline", "memory"}
        BY <1>13 DEF Allocate, Free, Answered, ComeUp, vars
    <2> QED
        BY <1>c, <2>1
<1> QED
    BY <1>1, <1>2, <1>3, <1>4, <1>5, <1>6, <1>7, <1>8, <1>9, <1>10, <1>11, <1>12, <1>13
    DEF Next, Loop, Environment

\* Every reason on record has come up, and every reason that has come up and
\* stopped a row is on record.
LEMMA OnRecordStep ==
    ASSUME EvaluationInv, [Next]_vars
    PROVE  OnRecord'
<1>a. OnRecord /\ TypeOK /\ Reason \in met \cup {"none"}
    BY ReasonIsMet DEF EvaluationInv, Typed
<1>b. /\ fault # "none" => fault' = fault
      /\ met \subseteq met' /\ (poisoned => poisoned')
    BY Monotone
<1>c. ASSUME NEW reason \in met', reason # "none", Fault(reason)
      PROVE  fault' \in met' /\ fault' # "none"
    BY <1>a, <1>b, <1>c DEF Fault, Stopped, OnRecord
<1>1. SilenceHasAReason'
    BY SilenceStep
<1>2. \A w \in Workers : Told(w)'
    BY ToldStep
<1> USE DEF coordinator, workers, dataflow, budget
<1>3. PoisonedWithReason'
    <2>1. CASE poisoned
        BY <1>a, <1>b, <2>1 DEF OnRecord, PoisonedWithReason
    <2>2. CASE ~ poisoned /\ poisoned'
        <3>1. PICK w \in Workers : Poison(w)
            BY <2>2
            DEF Next, Loop, Coordinate, Environment, vars, CheckPoisoned, Build,
                FailToBuild, TakeShutdown, NoJob, Operate, MeetFault, Capture, Park,
                Observe, Flush, KeepRunning, Report, RecordPanic, TellRun,
                PanicBuilding, Panic, Send, SendFails, Receive, WaitTimesOut,
                Conclude, Settle, Answer, ComeUp, Allocate, Free, Answered
        <3> QED
            BY <1>a, <1>b, <3>1 DEF Poison, Goto, OnRecord, Told, PoisonedWithReason
    <2> QED
        BY <2>1, <2>2 DEF PoisonedWithReason
<1>4. (over => "memory" \in met)'
    BY <1>a, <1>b
    DEF OnRecord, Next, Loop, Coordinate, Environment, vars, CheckPoisoned, Build,
        FailToBuild, TakeShutdown, NoJob, Operate, MeetFault, Capture, Park, Observe,
        Flush, KeepRunning, Report, RecordPanic, Poison, TellRun, PanicBuilding,
        Panic, Send, SendFails, Receive, WaitTimesOut, Conclude, Settle, Answer,
        ComeUp, Allocate, Free, Answered
<1>5. (fault \in met \cup {"none"})'
    <2>1. CASE UNCHANGED fault \/ fault' = Reason
        BY <1>a, <1>b, <2>1 DEF OnRecord
    <2>2. ASSUME NEW w \in Workers, MeetFault(w) PROVE fault' \in met'
        BY <1>c, <2>2 DEF MeetFault
    <2>3. ASSUME NEW w \in Workers, RecordPanic(w) PROVE fault' \in met'
        BY <1>a, <1>b, <1>c, <2>3 DEF RecordPanic, Goto, OnRecord, Told
    <2>4. CASE Settle
        BY <1>a, <1>b, <1>c, <2>4 DEF Settle, OnRecord
    <2> QED
        BY <2>1, <2>2, <2>3, <2>4
        DEF Next, Loop, Coordinate, Environment, vars, CheckPoisoned, Build,
            FailToBuild, TakeShutdown, NoJob, Operate, Capture, Park, Observe, Flush,
            KeepRunning, Report, Poison, TellRun, PanicBuilding, Panic, Send,
            SendFails, Receive, WaitTimesOut, Conclude, Answer, ComeUp, Allocate,
            Free, Answered
<1>6. ("function" \in met => fault # "none")'
    <2>1. CASE "function" \in met
        BY <1>a, <1>b, <2>1 DEF OnRecord
    <2>2. CASE "function" \notin met /\ "function" \in met'
        <3>1. PICK w \in Workers : MeetFault(w)
            BY <2>2
            DEF Next, Loop, Coordinate, Environment, vars, CheckPoisoned, Build,
                FailToBuild, TakeShutdown, NoJob, Operate, Capture, Park, Observe,
                Flush, KeepRunning, Report, RecordPanic, Poison, TellRun,
                PanicBuilding, Panic, Send, SendFails, Receive, WaitTimesOut,
                Conclude, Settle, Answer, ComeUp, Allocate, Free, Answered
        <3> QED
            BY <1>c, <3>1 DEF MeetFault
    <2> QED
        BY <2>1, <2>2
<1>7. ("tuples" \in met => fault # "none" /\ Cardinality(Rows) > TupleLimit)'
    <2>1. CASE "tuples" \in met
        BY <1>a, <1>b, <2>1 DEF OnRecord
    <2>2. CASE "tuples" \notin met /\ "tuples" \in met'
        <3>1. Settle
            BY <2>2
            DEF Next, Loop, Coordinate, Environment, vars, CheckPoisoned, Build,
                FailToBuild, TakeShutdown, NoJob, Operate, MeetFault, Capture, Park,
                Observe, Flush, KeepRunning, Report, RecordPanic, Poison, TellRun,
                PanicBuilding, Panic, Send, SendFails, Receive, WaitTimesOut,
                Conclude, Answer, ComeUp, Allocate, Free, Answered
        <3>2. /\ result' \subseteq Rows
              /\ Cardinality(result') > TupleLimit
              /\ Fault("tuples") /\ "tuples" \in met'
            BY <2>2, <3>1 DEF Settle, TooMany
        <3>3. Cardinality(Rows) \in Nat /\ Cardinality(result') \in Nat
              /\ Cardinality(result') <= Cardinality(Rows)
            BY <3>2, EvaluationAssumption, FS_Subset, FS_CardinalityType
        <3> QED
            BY <1>c, <3>2, <3>3, EvaluationAssumption
    <2> QED
        BY <2>1, <2>2
<1>8. ("panic" \in met => fault # "none" \/ \E w \in Workers : pc[w] = "panicked")'
    <2> SUFFICES ASSUME "panic" \in met', fault' = "none"
                 PROVE  \E w \in Workers : pc'[w] = "panicked"
        OBVIOUS
    <2>1. ASSUME NEW w \in Workers, PanicBuilding(w) \/ Panic(w)
          PROVE  pc'[w] = "panicked"
        BY <1>a, <2>1 DEF PanicBuilding, Panic, Goto, TypeOK
    <2>2. CASE "panic" \in met
        <3>1. PICK w \in Workers : pc[w] = "panicked"
            BY <1>a, <1>b, <2>2 DEF OnRecord
        <3>2. ASSUME NEW v \in Workers, Loop(v) PROVE pc'[w] = "panicked"
            BY <1>a, <1>b, <3>1, <3>2
            DEF Loop, CheckPoisoned, Build, FailToBuild, TakeShutdown, NoJob, Operate,
                MeetFault, Capture, Park, Observe, Flush, KeepRunning, Report,
                RecordPanic, Poison, TellRun, Fault, Stopped, Goto, TypeOK
        <3>3. ASSUME ~ \E v \in Workers : Loop(v) \/ PanicBuilding(v) \/ Panic(v)
              PROVE  UNCHANGED pc
            BY <3>3
            DEF Next, Coordinate, Environment, vars, Send, SendFails, Receive,
                WaitTimesOut, Conclude, Settle, Answer, ComeUp, Allocate, Free, Answered
        <3> QED
            BY <2>1, <3>1, <3>2, <3>3
    <2>3. CASE "panic" \notin met
        <3>1. \E w \in Workers : PanicBuilding(w) \/ Panic(w)
            BY <2>3
            DEF Next, Loop, Coordinate, Environment, vars, CheckPoisoned, Build,
                FailToBuild, TakeShutdown, NoJob, Operate, MeetFault, Capture, Park,
                Observe, Flush, KeepRunning, Report, RecordPanic, Poison, TellRun,
                Send, SendFails, Receive, WaitTimesOut, Conclude, Settle, Answer,
                ComeUp, Allocate, Free, Answered
        <3> QED
            BY <2>1, <3>1
    <2> QED
        BY <2>2, <2>3
<1> QED
    BY <1>1, <1>2, <1>3, <1>4, <1>5, <1>6, <1>7, <1>8 DEF OnRecord
-----------------------------------------------------------------------------
\* A good report is final.
LEMMA OkStays ==
    ASSUME EvaluationInv, [Next]_vars, NEW v \in Workers, sent[v] = "ok"
    PROVE  sent'[v] = "ok"
<1>a. RunsOnce(v) /\ TypeOK
    BY OfWorker
<1>1. ASSUME NEW w \in Workers, FailToBuild(w) PROVE sent'[v] = "ok"
    BY <1>a, <1>1, BuildsOnce DEF FailToBuild, TypeOK
<1>2. ASSUME NEW w \in Workers, Report(w) PROVE sent'[v] = "ok"
    BY <1>a, <1>2 DEF Report, TypeOK
<1>3. ASSUME NEW w \in Workers, TellRun(w) PROVE sent'[v] = "ok"
    BY <1>a, <1>3 DEF TellRun, Goto, RunsOnce, Idle, TypeOK
<1>4. \/ \E w \in Workers : FailToBuild(w) \/ Report(w) \/ TellRun(w)
      \/ UNCHANGED sent
    BY DEF Next, Loop, Coordinate, Environment, vars, workers, dataflow, budget,
           CheckPoisoned, Build, TakeShutdown, NoJob, Operate, MeetFault, Capture,
           Park, Observe, Flush, KeepRunning, RecordPanic, Poison, PanicBuilding,
           Panic, Send, SendFails, Receive, WaitTimesOut, Conclude, Settle, Answer,
           ComeUp, Allocate, Free, Answered
<1> QED
    BY <1>1, <1>2, <1>3, <1>4

\* What has been published when everybody reported well and nothing is on
\* record is every row.
LEMMA AllPublished ==
    ASSUME EvaluationInv, AllWell, fault = "none"
    PROVE  {r \in Rows : place[r] = "published"} = Rows
<1> SUFFICES ASSUME NEW r \in Rows PROVE place[r] = "published"
    OBVIOUS
<1>1. at[r] \in Workers
    BY DEF EvaluationInv, Typed, TypeOK
<1>2. place[r] \in {"published", "lost"}
    BY <1>1 DEF EvaluationInv, FlushedLast, HasFlushed, EverythingSettled, AllWell
<1>3. place[r] # "lost"
    BY DEF EvaluationInv, OnRecord, SilenceHasAReason
<1> QED
    BY <1>2, <1>3

\* Once the threads have left, they do not come back.
LEMMA LeftStays ==
    ASSUME EvaluationInv, [Next]_vars, \A w \in Workers : pc[w] = "left"
    PROVE  \A w \in Workers : pc'[w] = "left"
<1>1. ASSUME NEW w \in Workers PROVE ~ (Loop(w) \/ PanicBuilding(w) \/ Panic(w))
    BY <1>1
    DEF Loop, CheckPoisoned, Build, FailToBuild, TakeShutdown, NoJob, Operate, MeetFault,
        Capture, Park, Observe, Flush, KeepRunning, Report, RecordPanic, Poison, TellRun,
        PanicBuilding, Panic, Goto
<1>2. UNCHANGED pc
    BY <1>1
    DEF Next, Coordinate, Environment, vars, workers, Send, SendFails, Receive,
        WaitTimesOut, Conclude, Settle, Answer, ComeUp, Allocate, Free, Answered
<1> QED
    BY <1>2

\* What the coordinator knows at each of its stages: one step per action.
LEMMA GatheredStep ==
    ASSUME EvaluationInv, [Next]_vars
    PROVE  Gathered'
<1>a. /\ Gathered /\ TypeOK /\ OnRecord
      /\ Reason \in met \cup {"none"} /\ (fault # "none" => Reason = fault)
      /\ Reason = "none" => fault = "none"
    BY ReasonIsMet DEF EvaluationInv, Typed
<1>b. /\ fault # "none" => fault' = fault
      /\ met \subseteq met' /\ (poisoned => poisoned')
    BY Monotone
<1>c. \A w \in Workers : sent[w] = "ok" => sent'[w] = "ok"
    BY OkStays
<1>d. (\A w \in Workers : pc[w] = "left") => \A w \in Workers : pc'[w] = "left"
    BY LeftStays
<1>1. CASE UNCHANGED coordinator
    BY <1>a, <1>b, <1>c, <1>d, <1>1 DEF Gathered, AllWell, coordinator, TooMany
<1> USE <1>a, <1>b, <1>c DEF Gathered
<1>2. ASSUME NEW w \in Workers, Send(w) PROVE Gathered'
    BY <1>2 DEF Send
<1>3. ASSUME NEW w \in Workers, SendFails(w) PROVE Gathered'
    <2>1. "panic" \in met
        BY <1>3 DEF SendFails, OnRecord, Told, PoisonedWithReason, Leaving
    <2> QED
        BY <1>3, <2>1 DEF SendFails, Dismiss
<1>4. ASSUME NEW w \in Workers, Receive(w) PROVE Gathered'
    <2>1. sent[w] \in met \cup {"ok"}
        BY <1>4 DEF Receive, Arrived, OnRecord, Told
    <2>2. firstError' \in met \cup {"none"}
        BY <1>4, <2>1 DEF Receive
    <2>3. firstError' = "none" => firstError = "none" /\ sent[w] = "ok"
        BY <1>4 DEF Receive, Arrived
    <2> QED
        BY <1>4, <2>2, <2>3 DEF Receive
<1>5. CASE WaitTimesOut
    BY <1>5 DEF WaitTimesOut, workers
<1>6. CASE Conclude
    <2>1. Verdict \in met \cup {"none"}
        BY DEF Verdict, OnRecord
    <2>2. Verdict = "none" => firstError = "none" /\ ~ poisoned
        BY DEF Verdict, OnRecord, PoisonedWithReason
    <2>3. Verdict = "none" => AllWell
        BY <1>6, <2>2 DEF Conclude, AllWell
    <2> QED
        BY <1>6, <2>1, <2>2, <2>3 DEF Conclude, Dismiss, AllWell
<1>7. CASE Settle
    <2>1. AllWell /\ AllWell'
        BY <1>7 DEF Settle, AllWell
    <2>2. fault' = "none" => result' = Rows /\ ~ TooMany(Cardinality(result'))
        <3> SUFFICES ASSUME fault' = "none"
                     PROVE  result' = Rows /\ ~ TooMany(Cardinality(result'))
            OBVIOUS
        <3>1. fault = "none"
            OBVIOUS
        <3>2. result' = Rows
            BY <1>7, <2>1, <3>1, AllPublished DEF Settle
        <3>3. ~ TooMany(Cardinality(result'))
            BY <1>7 DEF Settle, Fault, Stopped
        <3> QED
            BY <3>2, <3>3
    <2> QED
        BY <1>7, <2>1, <2>2 DEF Settle, Dismiss, TooMany
<1>8. CASE Answer
    <2>1. "ok" \notin met /\ "none" \notin met
        BY DEF TypeOK, Reasons
    <2>2. firstError # "none" => answer' = firstError
        BY <1>8 DEF Answer
    <2>3. firstError = "none" =>
            answer' \in met \/ (answer' = "ok" /\ fault = "none")
        BY <1>8 DEF Answer
    <2>4. answer' = "ok" => result = Rows /\ ~ TooMany(Cardinality(result))
        BY <1>8, <2>1, <2>2, <2>3 DEF Answer
    <2> QED
        BY <1>d, <1>8, <2>1, <2>2, <2>3, <2>4 DEF Answer, TooMany
<1>9. ASSUME NEW w \in Workers, Loop(w) PROVE UNCHANGED coordinator
    BY <1>9
    DEF Loop, CheckPoisoned, Build, FailToBuild, TakeShutdown, NoJob, Operate, MeetFault,
        Capture, Park, Observe, Flush, KeepRunning, Report, RecordPanic, Poison, TellRun
<1>10. CASE Environment \/ Answered \/ UNCHANGED vars
    <2>1. UNCHANGED coordinator
        BY <1>10 DEF Environment, ComeUp, Allocate, Free, PanicBuilding, Panic, Answered,
                     vars
    <2> QED
        BY <1>1, <2>1
<1> QED
    BY <1>1, <1>2, <1>3, <1>4, <1>5, <1>6, <1>7, <1>8, <1>9, <1>10 DEF Next, Coordinate

LEMMA EvaluationInvariant == Spec => []EvaluationInv
<1>1. EvaluationInv /\ [Next]_vars => EvaluationInv'
    BY TypedStep, RunOnceStep, FlushedLastStep, OnRecordStep, GatheredStep
    DEF EvaluationInv
<1> QED
    BY <1>1, InitEvaluation, PTL DEF Spec
-----------------------------------------------------------------------------
\* Every variable keeps its type.
THEOREM EvaluationTypes == Spec => []TypeOK
<1>1. EvaluationInv => TypeOK
    BY DEF EvaluationInv, Typed
<1> QED
    BY <1>1, EvaluationInvariant, PTL

\* An answer with rows has every row the program derives.
THEOREM EvaluationComplete == Spec => []NoRowMissing
<1>1. EvaluationInv => NoRowMissing
    BY DEF EvaluationInv, Gathered, NoRowMissing
<1> QED
    BY <1>1, EvaluationInvariant, PTL

\* An answer with rows is within its tuple ceiling.
THEOREM EvaluationCeiling == Spec => []CeilingHolds
<1>1. EvaluationInv => CeilingHolds
    <2> SUFFICES ASSUME EvaluationInv, answer = "ok"
                 PROVE  Cardinality(result) <= TupleLimit
        BY DEF CeilingHolds
    <2>1. result = Rows /\ ~ (Cardinality(result) > TupleLimit)
        BY DEF EvaluationInv, Gathered, TooMany
    <2>2. Cardinality(result) \in Nat
        BY <2>1, EvaluationAssumption, FS_CardinalityType
    <2> QED
        BY <2>1, <2>2, EvaluationAssumption
<1> QED
    BY <1>1, EvaluationInvariant, PTL

\* A row never vanishes without a reason that the coordinator will find, and
\* a poisoned set has one.
THEOREM EvaluationReasons == Spec => [](SilenceHasAReason /\ PoisonedWithReason)
<1>1. EvaluationInv => SilenceHasAReason /\ PoisonedWithReason
    BY DEF EvaluationInv, OnRecord
<1> QED
    BY <1>1, EvaluationInvariant, PTL

\* A worker's report is its only one, and comes after its captures.
THEOREM EvaluationReports == Spec => [](PublishedBeforeReported /\ OneReportEach)
<1>1. EvaluationInv => PublishedBeforeReported
    BY DEF EvaluationInv, FlushedLast, HasFlushed, PublishedBeforeReported, RowsAt
<1>2. EvaluationInv => OneReportEach
    BY DEF EvaluationInv, RunOnce, RunsOnce, Idle, OneReportEach
<1> QED
    BY <1>1, <1>2, EvaluationInvariant, PTL

\* A worker reports once: whoever runs or unwinds has not reported before.
THEOREM EvaluationReportsOnce == Spec => []OneReportEach
BY EvaluationReports, PTL

\* The diagnostic of a refusal names something that did come up.
THEOREM EvaluationDeserved == Spec => []AnswerIsDeserved
<1>1. EvaluationInv => AnswerIsDeserved
    BY DEF EvaluationInv, Gathered, OnRecord, AnswerIsDeserved
<1> QED
    BY <1>1, EvaluationInvariant, PTL

\* The first fault stays on record.
THEOREM EvaluationFirstFault == Spec => FirstFaultStays
<1>1. EvaluationInv /\ [Next]_vars => [fault # "none" => fault' = fault]_fault
    BY Monotone
<1> QED
    BY <1>1, EvaluationInvariant, PTL DEF Spec, FirstFaultStays
-----------------------------------------------------------------------------
\* The answer itself: rows only if nothing that stays had come up, a reason
\* only if it had.
LEMMA AnswerImplements ==
    ASSUME EvaluationInv, Answer
    PROVE  Promise!AnswerRows \/ Promise!AnswerReason
<1>a. /\ Gathered /\ TypeOK /\ OnRecord
      /\ Reason \in met \cup {"none"} /\ (fault # "none" => Reason = fault)
    BY ReasonIsMet DEF EvaluationInv, Typed
<1>b. met' = met /\ result' = result /\ answer = "none"
    BY <1>a DEF Answer, Gathered
<1>1. CASE firstError # "none" \/ Reason # "none"
    <2>1. answer' \in met /\ answer' # "ok"
        BY <1>a, <1>1 DEF Answer, Gathered, TypeOK, Diagnostics, Reasons
    <2> QED
        BY <1>b, <2>1 DEF Promise!AnswerReason
<1>2. CASE firstError = "none" /\ Reason = "none"
    <2>1. answer' = "ok" /\ fault = "none" /\ AllWell /\ result = Rows
        BY <1>a, <1>2 DEF Answer, Gathered
    <2>2. PICK w \in Workers : sent[w] = "ok"
        BY <2>1, EvaluationAssumption DEF AllWell
    <2>3. "refused" \notin met
        BY <1>a, <2>2 DEF OnRecord, Told
    <2>4. "panic" \notin met /\ "function" \notin met /\ "tuples" \notin met
        BY <1>a, <2>1 DEF OnRecord, Answer
    <2>5. "cancelled" \notin met /\ "deadline" \notin met
        BY <1>a, <1>2, ReasonIsMet
    <2>6. met \subseteq {"memory"}
        BY <1>a, <2>3, <2>4, <2>5 DEF TypeOK, Reasons
    <2> QED
        BY <1>b, <2>1, <2>6 DEF Promise!AnswerRows
<1> QED
    BY <1>1, <1>2

\* A step that does not answer lets at most one more reason come up, and that
\* only before the answer.
LEMMA QuietImplements ==
    ASSUME EvaluationInv, Next, ~ Answer
    PROVE  Promise!ComeUp \/ UNCHANGED Promise!vars
<1>a. Gathered /\ TypeOK
    BY DEF EvaluationInv, Typed
<1>1. answer' = answer /\ (answer = "ok" => result' = result)
    BY <1>a
    DEF Next, Loop, Coordinate, Environment, vars, coordinator, CheckPoisoned, Build,
        FailToBuild, TakeShutdown, NoJob, Operate, MeetFault, Capture, Park, Observe,
        Flush, KeepRunning, Report, RecordPanic, Poison, TellRun, PanicBuilding, Panic,
        Send, SendFails, Receive, WaitTimesOut, Conclude, Settle, ComeUp, Allocate,
        Free, Answered, Gathered
<1>2. met' = met \/ \E reason \in Reasons : met' = met \cup {reason}
    BY DEF Next, Loop, Coordinate, Environment, vars, budget, CheckPoisoned, Build,
           FailToBuild, TakeShutdown, NoJob, Operate, MeetFault, Capture, Park, Observe,
           Flush, KeepRunning, Report, RecordPanic, Poison, TellRun, PanicBuilding,
           Panic, Send, SendFails, Receive, WaitTimesOut, Conclude, Settle, ComeUp,
           Allocate, Free, Answered, Reasons
<1>3. CASE answer = "none"
    BY <1>1, <1>2, <1>3 DEF Promise!ComeUp, Promise!vars
<1>4. CASE answer # "none"
    <2>1. \A w \in Workers : ~ (Loop(w) \/ PanicBuilding(w) \/ Panic(w))
        BY <1>a, <1>4
        DEF Gathered, Loop, CheckPoisoned, Build, FailToBuild, TakeShutdown, NoJob,
            Operate, MeetFault, Capture, Park, Observe, Flush, KeepRunning, Report,
            RecordPanic, Poison, TellRun, PanicBuilding, Panic, Goto
    <2>2. met' = met
        BY <1>a, <1>4, <2>1
        DEF Next, Coordinate, Environment, vars, budget, Gathered, Send, SendFails,
            Receive, WaitTimesOut, Conclude, Settle, ComeUp, Allocate, Free, Answered
    <2> QED
        BY <1>1, <2>2 DEF Promise!vars
<1> QED
    BY <1>3, <1>4

\* What the caller sees of an evaluation is what EvaluationPromise allows.
THEOREM EvaluationKeepsPromise == Spec => PromiseSpec
<1>1. Init => Promise!Init
    BY EvaluationAssumption DEF Init, Promise!Init
<1>2. EvaluationInv /\ [Next]_vars => [Promise!Next]_(Promise!vars)
    <2> SUFFICES ASSUME EvaluationInv, [Next]_vars
                 PROVE  Promise!Next \/ UNCHANGED Promise!vars
        OBVIOUS
    <2>1. CASE Answer
        BY <2>1, AnswerImplements DEF Promise!Next
    <2>2. CASE Next /\ ~ Answer
        BY <2>2, QuietImplements DEF Promise!Next
    <2>3. CASE UNCHANGED vars
        BY <2>3 DEF vars, coordinator, budget, Promise!vars
    <2> QED
        BY <2>1, <2>2, <2>3
<1> QED
    BY <1>1, <1>2, EvaluationInvariant, PTL DEF Spec, PromiseSpec, Promise!Spec
=============================================================================
