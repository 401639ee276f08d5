------------------------------ MODULE Service ------------------------------
(***************************************************************************)
(* The service: one engine behind a Unix-domain socket.  One thread        *)
(* accepts connections, reads one request from each, and answers all but   *)
(* evaluations itself; an evaluation gets a thread of its own, which       *)
(* registers the request's id, evaluates under the engine's admission      *)
(* limit, takes the id away again, and writes the response.                *)
(*                                                                         *)
(* The admission limit is the one of module Admission, whose calls are the *)
(* requests here.  What an admitted evaluation computes is reduced to its  *)
(* outcome (module Evaluation): it refuses if it is cancelled before its   *)
(* last poll, and otherwise it may succeed or fail.                        *)
(***************************************************************************)
EXTENDS Admission

CONSTANTS Ids, NoId,
          IdOf,           \* the id each request carries; NoId for a reload
          Undurable       \* requests whose budget_seconds is no duration

Requests == Evaluations   \* evaluate and reload requests

NoRequest == "none"

ASSUME ServiceAssumption == /\ NoId \notin Ids
                            /\ IdOf \in [Requests -> Ids \cup {NoId}]
                            /\ Undurable \subseteq Requests
                            /\ NoRequest \notin Requests

VARIABLES serving,   \* the accept loop: "accepting", "joining" or "returned"
          stage,     \* the thread of each request
          inFlight,  \* Service::in_flight: whose token an id designates
          token,     \* the cancel token of each request
          outcome,   \* what its evaluation came to
          lastRun,   \* Service::last_run
          reply,     \* what the last cancel command was answered
          since      \* history: what became of a request's id since it registered

serviceVars == <<serving, stage, inFlight, token, outcome, lastRun, reply, since, vars>>

Proceed(r, from, to) == /\ stage[r] = from
                        /\ stage' = [stage EXCEPT ![r] = to]

\* Clients may give one id to several requests.  To the others that run under
\* the id of r, this happens to it now; to r nothing has.
Happens(r, event) ==
    since' = [q \in Requests |->
                IF q = r THEN "nothing"
                ELSE IF stage[q] = "running" /\ IdOf[q] = IdOf[r] THEN event
                ELSE since[q]]

\* The accept loop reads an evaluation and starts its thread.
Accept(r) == /\ serving = "accepting"
             /\ Proceed(r, "unsent", "accepted")
             /\ UNCHANGED <<serving, inFlight, token, outcome, lastRun, reply, since, vars>>

\* The accept loop answers a cancel command.
Cancel(id) ==
    /\ serving = "accepting"
    /\ IF inFlight[id] = NoRequest
       THEN reply' = "not in flight" /\ UNCHANGED token
       ELSE reply' = "ok" /\ token' = [token EXCEPT ![inFlight[id]] = TRUE]
    /\ UNCHANGED <<serving, stage, inFlight, outcome, lastRun, since, vars>>

\* The accept loop answers shutdown and joins the threads it started.
Shutdown == /\ serving = "accepting"
            /\ serving' = "joining"
            /\ UNCHANGED <<stage, inFlight, token, outcome, lastRun, reply, since, vars>>

InProgress == {r \in Requests : stage[r] \notin {"unsent", "answered", "died"}}

Return == /\ serving = "joining"
          /\ InProgress = {}
          /\ serving' = "returned"
          /\ UNCHANGED <<stage, inFlight, token, outcome, lastRun, reply, since, vars>>
-----------------------------------------------------------------------------
(* The thread of a request *)

\* The request's id designates its token from here on, whoever had the id.
Register(r) ==
    /\ Proceed(r, "accepted", "running")
    /\ inFlight' = IF IdOf[r] = NoId THEN inFlight ELSE [inFlight EXCEPT ![IdOf[r]] = r]
    /\ Happens(r, "registered")
    /\ UNCHANGED <<serving, token, outcome, lastRun, reply, vars>>

\* The time budget is turned into a Duration, outside of the engine's own
\* protection: the thread unwinds.
Die(r) == /\ r \in Undurable
          /\ pc[r] = "called"
          /\ Proceed(r, "running", "died")
          /\ UNCHANGED <<serving, inFlight, token, outcome, lastRun, reply, since, vars>>

\* The program or its rows are refused, before or after that.
RefuseRequest(r) ==
    /\ stage[r] = "running"
    /\ Refuse(r)
    /\ outcome' = [outcome EXCEPT ![r] = "failed"]
    /\ UNCHANGED <<serving, stage, inFlight, token, lastRun, reply, since>>

\* Engine::evaluate waits for its place.
Enter(r) == /\ stage[r] = "running"
            /\ r \notin Undurable
            /\ Arrive(r) \/ Admit(r) \/ Wait(r)
            /\ UNCHANGED <<serving, stage, inFlight, token, outcome, lastRun, reply, since>>

WakeUnnotified(r) == /\ SpuriousWake(r)
                     /\ UNCHANGED <<serving, stage, inFlight, token, outcome, lastRun, reply, since>>

\* The evaluation polls its budget a last time.
Decide(r) ==
    /\ pc[r] = "admitted"
    /\ outcome[r] = "none"
    /\ \E o \in (IF token[r] THEN {"failed"} ELSE {"ok", "failed"}) :
          outcome' = [outcome EXCEPT ![r] = o]
    /\ UNCHANGED <<serving, stage, inFlight, token, lastRun, reply, since, vars>>

\* Engine::evaluate returns; the outputs are written, which may fail.
Leave(r) ==
    /\ outcome[r] # "none"
    /\ Release(r)
    /\ \E o \in {outcome[r], "failed"} : outcome' = [outcome EXCEPT ![r] = o]
    /\ UNCHANGED <<serving, stage, inFlight, token, lastRun, reply, since>>

\* Mutant of Unregister: only a success takes the id away.
UnregisterOnSuccess(r) ==
    /\ pc[r] = "ended"
    /\ Proceed(r, "running", "unregistered")
    /\ inFlight' = [id \in Ids |-> IF id = IdOf[r] /\ outcome[r] = "ok"
                                   THEN NoRequest ELSE inFlight[id]]
    /\ Happens(r, "unregistered")
    /\ UNCHANGED <<serving, token, outcome, lastRun, reply, vars>>

\* Mutant of Unregister: every id is taken away.
UnregisterAll(r) ==
    /\ pc[r] = "ended"
    /\ Proceed(r, "running", "unregistered")
    /\ inFlight' = [id \in Ids |-> NoRequest]
    /\ Happens(r, "unregistered")
    /\ UNCHANGED <<serving, token, outcome, lastRun, reply, vars>>

\* The id is taken away, whoever it designates by now.
Unregister(r) ==
    /\ pc[r] = "ended"
    /\ Proceed(r, "running", "unregistered")
    /\ inFlight' = [id \in Ids |-> IF id = IdOf[r] THEN NoRequest ELSE inFlight[id]]
    /\ Happens(r, "unregistered")
    /\ UNCHANGED <<serving, token, outcome, lastRun, reply, vars>>

\* A success is remembered for stats, the response is written, and with the
\* thread go its token and its outcome.
Respond(r) ==
    /\ Proceed(r, "unregistered", "answered")
    /\ lastRun' = IF outcome[r] = "ok" THEN r ELSE lastRun
    /\ token' = [token EXCEPT ![r] = FALSE]
    /\ outcome' = [outcome EXCEPT ![r] = "none"]
    /\ UNCHANGED <<serving, inFlight, reply, since, vars>>
-----------------------------------------------------------------------------
ServiceInit ==
    /\ Init
    /\ serving = "accepting"
    /\ stage = [r \in Requests |-> "unsent"]
    /\ inFlight = [id \in Ids |-> NoRequest]
    /\ token = [r \in Requests |-> FALSE]
    /\ outcome = [r \in Requests |-> "none"]
    /\ lastRun = NoRequest
    /\ reply = "none"
    /\ since = [r \in Requests |-> "nothing"]

Thread(r) == \/ Register(r) \/ Die(r) \/ RefuseRequest(r) \/ Enter(r)
             \/ Decide(r) \/ Leave(r) \/ Unregister(r) \/ Respond(r)

ServiceNext ==
    \/ \E r \in Requests : Accept(r) \/ Thread(r) \/ WakeUnnotified(r)
    \/ \E id \in Ids : Cancel(id)
    \/ Shutdown \/ Return
    \/ serving = "returned" /\ UNCHANGED serviceVars

\* Threads go on as long as they can, and the service returns when it can.
\* No client has to send anything.
ServiceFairness == WF_serviceVars(Return) /\ \A r \in Requests : WF_serviceVars(Thread(r))

ServiceSpec == ServiceInit /\ [][ServiceNext]_serviceVars /\ ServiceFairness
-----------------------------------------------------------------------------
\* An id designates only a request that carries it and has not ended by
\* itself: a cancel never goes to a request that is answered, or to one of
\* another id.  What an id may go on designating is a request whose thread
\* has died on its time budget.
NoStaleEntry ==
    \A id \in Ids : inFlight[id] # NoRequest =>
        stage[inFlight[id]] \in {"running", "died"} /\ IdOf[inFlight[id]] = id

\* Every request that is accepted is answered, also behind the admission limit
\* and also after shutdown, if its time budget is a duration at all: from some
\* time on, none of those that were sent is without its answer.
EveryRequestIsAnswered ==
    <>[](\A r \in Requests \ Undurable : stage[r] \in {"unsent", "answered"})

\* Shutdown ends the service, whatever it has accepted: it does not go on
\* joining its threads for ever.
ShutdownReturns == <>[](serving # "joining")

\* "`cancel`: `id` of an evaluation in flight", as far as the map keeps it when
\* requests share an id: the last to register is the one that is cancelled,
\* and while none of the others has ended since, a cancel is not refused.
CancelFindsTheEvaluation ==
    [][\A id \in Ids, r \in Requests : Cancel(id) /\ IdOf[r] = id /\ stage[r] = "running" =>
         /\ since[r] = "nothing" => token'[r]
         /\ since[r] = "registered" => reply' = "ok"]_serviceVars
=============================================================================
