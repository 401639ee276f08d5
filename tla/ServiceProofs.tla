---------------------------- MODULE ServiceProofs ----------------------------
(***************************************************************************)
(* The admission limit, for every number of calls and every limit, and the *)
(* service behind it, for every set of requests and ids.                   *)
(*                                                                         *)
(* Of the limit's invariants none is inductive alone.  That Admit stays    *)
(* within the limit needs the counter to count the admitted; that a        *)
(* wake-up is never lost needs both, because Release compares free places  *)
(* with waiters.  AdmissionInv is their conjunction.                       *)
(*                                                                         *)
(* Every step of the service is a step of the admission limit or leaves it *)
(* alone, so what holds of the engine holds of the engine behind a         *)
(* service.  Clients may give any number of requests one id, and threads   *)
(* may die with one.  What the map of ids then still says of a request     *)
(* that runs depends on what the others under its id have done since it    *)
(* registered (Designated): nothing, registered too, or gone.              *)
(***************************************************************************)
EXTENDS Service, TLAPS, FiniteSetTheorems

-----------------------------------------------------------------------------
(* The admission limit *)

AdmissionInv == /\ TypeOK
                /\ CountsTheAdmitted
                /\ WithinLimit
                /\ NoLostWakeup

\* However the calls are spread over the stages, each stage is a finite set.
LEMMA StagesAreFinite ==
    ASSUME NEW place
    PROVE  IsFiniteSet(At(place)) /\ Cardinality(At(place)) \in Nat
<1>1. At(place) \in SUBSET Evaluations
    BY DEF At
<1>2. IsFiniteSet(At(place))
    BY <1>1, AdmissionAssumption, FS_Subset
<1> QED
    BY <1>2, FS_CardinalityType

\* A call that changes stage alone moves from one set to the other.
LEMMA OneCallMoves ==
    ASSUME TypeOK, NEW e \in Evaluations, NEW from, NEW to \in Stages,
           Goto(e, from, to), NEW place
    PROVE  At(place)' = IF place = to THEN At(place) \cup {e}
                        ELSE At(place) \ (IF place = from THEN {e} ELSE {})
    BY DEF TypeOK, Goto, At

\* The counts that follow: a stage the call neither leaves nor enters keeps
\* its count, and the others change by one.
LEMMA OneCallCounts ==
    ASSUME TypeOK, NEW e \in Evaluations, NEW from \in Stages, NEW to \in Stages,
           from # to, Goto(e, from, to), NEW place
    PROVE  Cardinality(At(place))' =
             IF place = to THEN Cardinality(At(place)) + 1
             ELSE IF place = from THEN Cardinality(At(place)) - 1
             ELSE Cardinality(At(place))
<1>1. CASE place = to
    <2>1. e \notin At(place)
        BY <1>1 DEF At, Goto
    <2>2. At(place)' = At(place) \cup {e}
        BY <1>1, OneCallMoves
    <2> QED
        BY <1>1, <2>1, <2>2, StagesAreFinite, FS_AddElement
<1>2. CASE place = from
    <2>1. e \in At(place)
        BY <1>2 DEF At, Goto
    <2>2. At(place)' = At(place) \ {e}
        BY <1>2, OneCallMoves
    <2> QED
        BY <1>2, <2>1, <2>2, StagesAreFinite, FS_RemoveElement
<1>3. CASE place # to /\ place # from
    <2>1. At(place)' = At(place)
        BY <1>3, OneCallMoves
    <2> QED
        BY <1>3, <2>1
<1> QED
    BY <1>1, <1>2, <1>3
-----------------------------------------------------------------------------
\* Initially nobody is admitted and nobody waits.
LEMMA InitAdmission == Init => AdmissionInv
<1> SUFFICES ASSUME Init PROVE AdmissionInv
    OBVIOUS
<1>1. TypeOK
    BY DEF Init, TypeOK, Stages
<1>2. At("admitted") = {} /\ At("waiting") = {}
    BY DEF Init, At
<1>3. Cardinality(At("admitted")) = 0
    BY <1>2, FS_EmptySet
<1> QED
    BY <1>1, <1>2, <1>3, AdmissionAssumption
    DEF Init, AdmissionInv, CountsTheAdmitted, WithinLimit, NoLostWakeup

\* A call that moves without touching the counter, and neither to nor from
\* admission, leaves the count right; it may leave the woken only to wait
\* again behind a full engine.
LEMMA QuietMove ==
    ASSUME AdmissionInv, NEW e \in Evaluations,
           NEW from \in Stages, NEW to \in Stages, from # to,
           "admitted" \notin {from, to}, Goto(e, from, to), running' = running,
           "waiting" = to => Full,
           "woken" = from => Full
    PROVE  AdmissionInv'
<1>1. TypeOK'
    BY DEF AdmissionInv, TypeOK, Goto
<1>2. Cardinality(At("admitted"))' = Cardinality(At("admitted"))
    BY OneCallCounts DEF AdmissionInv
<1>3. CountsTheAdmitted' /\ WithinLimit'
    BY <1>2 DEF AdmissionInv, CountsTheAdmitted, WithinLimit
<1>4. NoLostWakeup'
    <2> SUFFICES ASSUME At("waiting")' # {}
                 PROVE  Limit > 0 /\ running + Cardinality(At("woken"))' >= Limit
        BY DEF NoLostWakeup
    <2>1. Cardinality(At("woken"))' \in Nat
        <3>1. from = "woken" => Cardinality(At("woken")) > 0
            BY StagesAreFinite, FS_EmptySet DEF At, Goto
        <3> QED
            BY <3>1, StagesAreFinite, OneCallCounts DEF AdmissionInv
    <2>2. CASE Full
        BY <2>1, <2>2, AdmissionAssumption DEF Full, AdmissionInv, TypeOK
    <2>3. CASE ~ Full
        <3>1. to # "waiting" /\ from # "woken"
            BY <2>3
        <3>2. At("waiting") # {}
            BY <3>1, OneCallMoves DEF AdmissionInv
        <3>3. Cardinality(At("woken"))' >= Cardinality(At("woken"))
            BY <3>1, OneCallCounts, StagesAreFinite DEF AdmissionInv
        <3> QED
            BY <2>1, <3>2, <3>3, StagesAreFinite, AdmissionAssumption
            DEF AdmissionInv, NoLostWakeup, TypeOK
    <2> QED
        BY <2>2, <2>3
<1> QED
    BY <1>1, <1>3, <1>4 DEF AdmissionInv

\* An admission takes a place that was free, and spends a wake-up or none.
LEMMA AdmitKeeps ==
    ASSUME AdmissionInv, NEW e \in Evaluations, NEW from \in {"arriving", "woken"},
           ~ Full, Goto(e, from, "admitted"), running' = running + 1
    PROVE  AdmissionInv'
<1>1. TypeOK'
    BY DEF AdmissionInv, TypeOK, Goto, Stages
<1>2. Cardinality(At("admitted"))' = Cardinality(At("admitted")) + 1
    BY OneCallCounts DEF AdmissionInv, Stages
<1>3. CountsTheAdmitted'
    BY <1>2 DEF AdmissionInv, CountsTheAdmitted
<1>4. WithinLimit'
    BY <1>2, AdmissionAssumption
    DEF AdmissionInv, CountsTheAdmitted, WithinLimit, TypeOK, Full
<1>5. NoLostWakeup'
    <2> SUFFICES ASSUME At("waiting")' # {}
                 PROVE  Limit > 0 /\ running' + Cardinality(At("woken"))' >= Limit
        BY DEF NoLostWakeup
    <2>1. At("waiting") # {}
        BY OneCallMoves DEF AdmissionInv, Stages
    <2>2. Cardinality(At("woken"))' \in {Cardinality(At("woken")), Cardinality(At("woken")) - 1}
        BY OneCallCounts DEF AdmissionInv, Stages
    <2> QED
        BY <2>1, <2>2, StagesAreFinite, AdmissionAssumption
        DEF AdmissionInv, NoLostWakeup, TypeOK
<1> QED
    BY <1>1, <1>3, <1>4, <1>5 DEF AdmissionInv

\* A drop frees a place and, if anybody waits, wakes one for it.
LEMMA ReleaseKeeps ==
    ASSUME AdmissionInv, NEW e \in Evaluations, Release(e)
    PROVE  AdmissionInv'
<1>1. e \in At("admitted")
    BY DEF Release, At
<1>2. At("admitted")' = At("admitted") \ {e}
    BY DEF Release, At, AdmissionInv, TypeOK
<1>3. Cardinality(At("admitted"))' = Cardinality(At("admitted")) - 1
    BY <1>1, <1>2, StagesAreFinite, FS_RemoveElement
<1>4. Cardinality(At("admitted")) > 0
    BY <1>1, StagesAreFinite, FS_EmptySet
<1>5. TypeOK'
    BY <1>4, StagesAreFinite
    DEF Release, At, AdmissionInv, TypeOK, Stages, CountsTheAdmitted
<1>6. CountsTheAdmitted' /\ WithinLimit'
    BY <1>3, StagesAreFinite, AdmissionAssumption
    DEF Release, AdmissionInv, CountsTheAdmitted, WithinLimit
<1>7. NoLostWakeup'
    <2>1. CASE At("waiting") = {}
        <3>1. At("waiting")' = {}
            BY <2>1 DEF Release, At, AdmissionInv, TypeOK
        <3> QED
            BY <3>1 DEF NoLostWakeup
    <2>2. CASE At("waiting") # {}
        <3>1. PICK w \in At("waiting") : pc' = [pc EXCEPT ![e] = "ended", ![w] = "woken"]
            BY <2>2 DEF Release
        <3>2. At("woken")' = At("woken") \cup {w} /\ w \notin At("woken")
            BY <1>1, <3>1 DEF At, AdmissionInv, TypeOK
        <3>3. Cardinality(At("woken"))' = Cardinality(At("woken")) + 1
            BY <3>2, StagesAreFinite, FS_AddElement
        <3> QED
            BY <2>2, <3>3, StagesAreFinite, AdmissionAssumption
            DEF Release, AdmissionInv, NoLostWakeup, TypeOK
    <2> QED
        BY <2>1, <2>2
<1> QED
    BY <1>5, <1>6, <1>7 DEF AdmissionInv

\* AdmissionInv is inductive: one step per action.
LEMMA NextAdmission == AdmissionInv /\ [Next]_vars => AdmissionInv'
<1> SUFFICES ASSUME AdmissionInv, [Next]_vars PROVE AdmissionInv'
    OBVIOUS
<1>1. ASSUME NEW e \in Evaluations, Arrive(e) \/ Refuse(e) \/ SpuriousWake(e)
      PROVE  AdmissionInv'
    BY <1>1, QuietMove DEF Arrive, Refuse, SpuriousWake, Stages
<1>2. ASSUME NEW e \in Evaluations, Wait(e)
      PROVE  AdmissionInv'
    BY <1>2, QuietMove DEF Wait, Stages
<1>3. ASSUME NEW e \in Evaluations, Admit(e)
      PROVE  AdmissionInv'
    BY <1>3, AdmitKeeps DEF Admit
<1>4. ASSUME NEW e \in Evaluations, Release(e)
      PROVE  AdmissionInv'
    BY <1>4, ReleaseKeeps
<1>5. CASE UNCHANGED vars
    BY <1>5 DEF vars, AdmissionInv, TypeOK, CountsTheAdmitted, WithinLimit,
                NoLostWakeup, At
<1> QED
    BY <1>1, <1>2, <1>3, <1>4, <1>5 DEF Next, Finished

\* The counter of Admission counts exactly the evaluations that hold a guard.
THEOREM AdmissionCounts == Spec => [](TypeOK /\ CountsTheAdmitted)
<1>1. AdmissionInv => TypeOK /\ CountsTheAdmitted
    BY DEF AdmissionInv
<1> QED
    BY <1>1, InitAdmission, NextAdmission, PTL DEF Spec

\* No more evaluations than max_concurrent ever run at once.
THEOREM AdmissionLimits == Spec => []WithinLimit
<1>1. AdmissionInv => WithinLimit
    BY DEF AdmissionInv
<1> QED
    BY <1>1, InitAdmission, NextAdmission, PTL DEF Spec

\* While a call waits, every free place has a woken thread coming for it.
THEOREM AdmissionWakes == Spec => []NoLostWakeup
<1>1. AdmissionInv => NoLostWakeup
    BY DEF AdmissionInv
<1> QED
    BY <1>1, InitAdmission, NextAdmission, PTL DEF Spec
-----------------------------------------------------------------------------
(* The service *)

ThreadTypes == /\ stage \in [Requests -> {"unsent", "accepted", "running", "unregistered",
                                          "answered", "died"}]
               /\ inFlight \in [Ids -> Requests \cup {NoRequest}]
               /\ token \in [Requests -> BOOLEAN]
               /\ since \in [Requests -> {"nothing", "registered", "unregistered"}]

\* What is known of the entry of a running request's id: nobody has touched it,
\* or somebody has written it and nobody has taken it away since.
Designated ==
    \A r \in Requests : stage[r] = "running" /\ IdOf[r] # NoId =>
        /\ since[r] = "nothing" => inFlight[IdOf[r]] = r
        /\ since[r] = "registered" => inFlight[IdOf[r]] # NoRequest

-----------------------------------------------------------------------------
\* What the thread of a request does with the engine is a call of it.
LEMMA ServiceStepsAreAdmission == [ServiceNext]_serviceVars => [Next]_vars
<1> SUFFICES ASSUME [ServiceNext]_serviceVars PROVE [Next]_vars
    OBVIOUS
<1>1. ASSUME NEW r \in Requests,
             RefuseRequest(r) \/ Enter(r) \/ Leave(r) \/ WakeUnnotified(r)
      PROVE  Next
    BY <1>1 DEF Requests, RefuseRequest, Enter, Leave, WakeUnnotified, Next
<1>2. ASSUME NEW r \in Requests,
             Accept(r) \/ Register(r) \/ Die(r) \/ Decide(r) \/ Unregister(r) \/ Respond(r)
      PROVE  UNCHANGED vars
    BY <1>2 DEF Accept, Register, Die, Decide, Unregister, Respond
<1>3. ASSUME NEW id \in Ids, Cancel(id)
      PROVE  UNCHANGED vars
    BY <1>3 DEF Cancel
<1>4. CASE Shutdown \/ Return \/ UNCHANGED serviceVars
    BY <1>4 DEF Shutdown, Return, serviceVars
<1> QED
    BY <1>1, <1>2, <1>3, <1>4 DEF ServiceNext, Thread

LEMMA ServiceAdmission == ServiceSpec => []AdmissionInv
<1>1. ServiceInit => AdmissionInv
    BY InitAdmission DEF ServiceInit
<1>2. AdmissionInv /\ [ServiceNext]_serviceVars => AdmissionInv'
    BY ServiceStepsAreAdmission, NextAdmission
<1> QED
    BY <1>1, <1>2, PTL DEF ServiceSpec
-----------------------------------------------------------------------------
\* The steps that touch neither a stage nor the map of ids.
Aside == UNCHANGED <<stage, inFlight, since>>

\* Every other step moves one request, and only Register and Unregister write
\* the map.
LEMMA StageSteps ==
    ASSUME [ServiceNext]_serviceVars
    PROVE  \/ Aside
           \/ \E r \in Requests : \/ Register(r) \/ Unregister(r)
                                  \/ Accept(r) \/ Die(r) \/ Respond(r)
<1>1. ASSUME NEW r \in Requests,
             RefuseRequest(r) \/ Enter(r) \/ Decide(r) \/ Leave(r) \/ WakeUnnotified(r)
      PROVE  Aside
    BY <1>1 DEF RefuseRequest, Enter, Decide, Leave, WakeUnnotified, Aside
<1>2. ASSUME NEW id \in Ids, Cancel(id)
      PROVE  Aside
    BY <1>2 DEF Cancel, Aside
<1>3. CASE Shutdown \/ Return \/ UNCHANGED serviceVars
    BY <1>3 DEF Shutdown, Return, serviceVars, Aside
<1> QED
    BY <1>1, <1>2, <1>3 DEF ServiceNext, Thread

LEMMA ThreadTypesStep ==
    ASSUME ThreadTypes, [ServiceNext]_serviceVars
    PROVE  ThreadTypes'
<1>1. token' \in [Requests -> BOOLEAN]
    <2>1. ASSUME NEW id \in Ids, Cancel(id)
          PROVE  token' \in [Requests -> BOOLEAN]
        BY <2>1 DEF Cancel, ThreadTypes
    <2>2. ASSUME NEW r \in Requests, Respond(r)
          PROVE  token' \in [Requests -> BOOLEAN]
        BY <2>2 DEF Respond, ThreadTypes
    <2>3. CASE UNCHANGED token
        BY <2>3 DEF ThreadTypes
    <2> QED
        BY <2>1, <2>2, <2>3
        DEF ServiceNext, Thread, serviceVars, Accept, Register, Die, RefuseRequest, Enter, Decide,
            Leave, Unregister, WakeUnnotified, Shutdown, Return
<1>2. CASE Aside
    BY <1>1, <1>2 DEF Aside, ThreadTypes
<1>3. ASSUME NEW r \in Requests, Accept(r) \/ Die(r) \/ Respond(r)
      PROVE  ThreadTypes'
    BY <1>1, <1>3 DEF Accept, Die, Respond, Proceed, ThreadTypes
<1>4. ASSUME NEW r \in Requests, Register(r)
      PROVE  ThreadTypes'
    BY <1>1, <1>4 DEF Register, Happens, Proceed, ThreadTypes
<1>5. ASSUME NEW r \in Requests, Unregister(r)
      PROVE  ThreadTypes'
    BY <1>1, <1>5 DEF Unregister, Happens, Proceed, ThreadTypes
<1> QED
    BY <1>2, <1>3, <1>4, <1>5, StageSteps

\* What NoStaleEntry says of one entry.
Fresh(id) == stage[inFlight[id]] \in {"running", "died"} /\ IdOf[inFlight[id]] = id

\* A request that ends by itself takes its id away, one that dies leaves it.
LEMMA NoStaleEntryStep ==
    ASSUME ThreadTypes, NoStaleEntry, [ServiceNext]_serviceVars
    PROVE  NoStaleEntry'
<1>1. CASE Aside
    BY <1>1 DEF Aside, NoStaleEntry
<1> SUFFICES ASSUME NEW id \in Ids, inFlight'[id] # NoRequest
             PROVE  Fresh(id)'
    BY DEF NoStaleEntry, Fresh
<1>2. ASSUME NEW r \in Requests, Accept(r) \/ Respond(r)
      PROVE  Fresh(id)'
    <2>1. inFlight' = inFlight /\ stage[r] \notin {"running", "died"}
        BY <1>2 DEF Accept, Respond, Proceed
    <2>2. inFlight[id] # r /\ stage'[inFlight[id]] = stage[inFlight[id]]
        BY <1>2, <2>1 DEF Accept, Respond, Proceed, ThreadTypes, NoStaleEntry
    <2> QED
        BY <2>1, <2>2 DEF NoStaleEntry, Fresh
<1>3. ASSUME NEW r \in Requests, Die(r)
      PROVE  Fresh(id)'
    BY <1>3, ServiceAssumption DEF Die, Proceed, ThreadTypes, NoStaleEntry, Fresh
<1>4. ASSUME NEW r \in Requests, Register(r)
      PROVE  Fresh(id)'
    <2>1. stage'[r] = "running" /\ stage[r] = "accepted"
        BY <1>4 DEF Register, Proceed, ThreadTypes
    <2>2. CASE IdOf[r] = id
        BY <1>4, <2>1, <2>2, ServiceAssumption DEF Register, ThreadTypes, Fresh
    <2>3. CASE IdOf[r] # id
        <3>1. inFlight'[id] = inFlight[id]
            BY <1>4, <2>3 DEF Register, ThreadTypes
        <3>2. inFlight[id] # r /\ stage'[inFlight[id]] = stage[inFlight[id]]
            BY <1>4, <2>1, <3>1 DEF Register, Proceed, ThreadTypes, NoStaleEntry
        <3> QED
            BY <3>1, <3>2 DEF NoStaleEntry, Fresh
    <2> QED
        BY <2>2, <2>3
<1>5. ASSUME NEW r \in Requests, Unregister(r)
      PROVE  Fresh(id)'
    <2>1. id # IdOf[r] /\ inFlight'[id] = inFlight[id]
        BY <1>5 DEF Unregister
    <2>2. inFlight[id] # r /\ stage'[inFlight[id]] = stage[inFlight[id]]
        BY <1>5, <2>1 DEF Unregister, Proceed, ThreadTypes, NoStaleEntry
    <2> QED
        BY <2>1, <2>2 DEF NoStaleEntry, Fresh
<1> QED
    BY <1>1, <1>2, <1>3, <1>4, <1>5, StageSteps DEF NoStaleEntry, Fresh

\* The last to write an entry is the one it designates, until somebody takes
\* it away.
LEMMA DesignatedStep ==
    ASSUME ThreadTypes, Designated, [ServiceNext]_serviceVars
    PROVE  Designated'
<1>1. CASE Aside
    BY <1>1 DEF Aside, Designated
<1> SUFFICES ASSUME NEW s \in Requests, stage'[s] = "running", IdOf[s] # NoId
             PROVE  /\ since'[s] = "nothing" => inFlight'[IdOf[s]] = s
                    /\ since'[s] = "registered" => inFlight'[IdOf[s]] # NoRequest
    BY <1>1 DEF Designated
<1>0. IdOf[s] \in Ids
    BY ServiceAssumption
<1>2. ASSUME NEW r \in Requests, Accept(r) \/ Die(r) \/ Respond(r)
      PROVE  /\ since'[s] = "nothing" => inFlight'[IdOf[s]] = s
             /\ since'[s] = "registered" => inFlight'[IdOf[s]] # NoRequest
    BY <1>2 DEF Accept, Die, Respond, Proceed, ThreadTypes, Designated
<1>3. ASSUME NEW r \in Requests, Register(r)
      PROVE  /\ since'[s] = "nothing" => inFlight'[IdOf[s]] = s
             /\ since'[s] = "registered" => inFlight'[IdOf[s]] # NoRequest
    <2>1. CASE s = r
        BY <1>0, <1>3, <2>1 DEF Register, Happens, ThreadTypes
    <2>2. CASE s # r /\ IdOf[s] = IdOf[r]
        <3>1. stage[s] = "running"
            BY <1>3, <2>2 DEF Register, Proceed, ThreadTypes
        <3>2. since'[s] = "registered"
            BY <1>3, <2>2, <3>1 DEF Register, Happens
        <3>3. inFlight'[IdOf[s]] = r
            BY <1>0, <1>3, <2>2 DEF Register, ThreadTypes
        <3> QED
            BY <3>2, <3>3, ServiceAssumption
    <2>3. CASE s # r /\ IdOf[s] # IdOf[r]
        <3>1. stage[s] = "running" /\ since'[s] = since[s]
            BY <1>3, <2>3 DEF Register, Happens, Proceed, ThreadTypes
        <3>2. inFlight'[IdOf[s]] = inFlight[IdOf[s]]
            BY <1>0, <1>3, <2>3 DEF Register, ThreadTypes
        <3> QED
            BY <3>1, <3>2 DEF Designated
    <2> QED
        BY <2>1, <2>2, <2>3
<1>4. ASSUME NEW r \in Requests, Unregister(r)
      PROVE  /\ since'[s] = "nothing" => inFlight'[IdOf[s]] = s
             /\ since'[s] = "registered" => inFlight'[IdOf[s]] # NoRequest
    <2>1. s # r /\ stage[s] = "running"
        BY <1>4 DEF Unregister, Proceed, ThreadTypes
    <2>2. CASE IdOf[s] = IdOf[r]
        BY <1>4, <2>1, <2>2 DEF Unregister, Happens
    <2>3. CASE IdOf[s] # IdOf[r]
        <3>1. since'[s] = since[s] /\ inFlight'[IdOf[s]] = inFlight[IdOf[s]]
            BY <1>0, <1>4, <2>1, <2>3 DEF Unregister, Happens
        <3> QED
            BY <2>1, <3>1 DEF Designated
    <2> QED
        BY <2>2, <2>3
<1> QED
    BY <1>1, <1>2, <1>3, <1>4, StageSteps DEF Designated

LEMMA ServiceStarts == ServiceInit => ThreadTypes /\ NoStaleEntry /\ Designated
BY DEF ServiceInit, ThreadTypes, NoStaleEntry, Designated
-----------------------------------------------------------------------------
\* "It evaluates under the engine's admission limit": the service never has
\* more evaluations running than max_concurrent, and none of its threads
\* waits for a place that is free and that nobody is coming for.
THEOREM ServiceAdmits == ServiceSpec => [](TypeOK /\ WithinLimit /\ NoLostWakeup)
<1>1. AdmissionInv => TypeOK /\ WithinLimit /\ NoLostWakeup
    BY DEF AdmissionInv
<1> QED
    BY <1>1, ServiceAdmission, PTL

\* A cancel never goes to a request that is answered, or to one of another id,
\* whichever ids clients give and whichever threads die with one.
THEOREM ServiceForgetsTheEnded == ServiceSpec => []NoStaleEntry
<1>1. ThreadTypes /\ NoStaleEntry /\ [ServiceNext]_serviceVars => (ThreadTypes /\ NoStaleEntry)'
    BY ThreadTypesStep, NoStaleEntryStep
<1> QED
    BY <1>1, ServiceStarts, PTL DEF ServiceSpec

\* "`cancel`: `id` of an evaluation in flight": of the requests that run under
\* an id the last to register is the one that is cancelled, and no cancel is
\* refused while one runs under it and no other has ended since it registered.
THEOREM ServiceFindsTheEvaluation == ServiceSpec => CancelFindsTheEvaluation
<1>1. ThreadTypes /\ Designated /\ [ServiceNext]_serviceVars => (ThreadTypes /\ Designated)'
    BY ThreadTypesStep, DesignatedStep
<1>2. ThreadTypes /\ Designated /\ [ServiceNext]_serviceVars
        => [\A id \in Ids, r \in Requests : Cancel(id) /\ IdOf[r] = id /\ stage[r] = "running" =>
              /\ since[r] = "nothing" => token'[r]
              /\ since[r] = "registered" => reply' = "ok"]_serviceVars
    <2> SUFFICES ASSUME ThreadTypes, Designated, NEW id \in Ids, NEW r \in Requests,
                        Cancel(id), IdOf[r] = id, stage[r] = "running"
                 PROVE  /\ since[r] = "nothing" => token'[r]
                        /\ since[r] = "registered" => reply' = "ok"
        OBVIOUS
    <2>1. IdOf[r] # NoId
        BY ServiceAssumption
    <2>2. CASE since[r] = "nothing"
        <3>1. inFlight[id] = r /\ r # NoRequest
            BY <2>1, <2>2, ServiceAssumption DEF Designated
        <3> QED
            BY <2>2, <3>1 DEF Cancel, ThreadTypes
    <2>3. CASE since[r] = "registered"
        BY <2>1, <2>3 DEF Cancel, Designated
    <2> QED
        BY <2>2, <2>3
<1> QED
    BY <1>1, <1>2, ServiceStarts, PTL DEF ServiceSpec, CancelFindsTheEvaluation
=============================================================================
