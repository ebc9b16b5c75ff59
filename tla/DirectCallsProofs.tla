--------------------------- MODULE DirectCallsProofs ---------------------------
(***************************************************************************)
(* Proofs about DirectCalls for any number of requests and runs and any     *)
(* endpoints. A request takes no step of a run, so that all that            *)
(* CustomRunProofs shows of the runs holds beside any requests.             *)
(***************************************************************************)
EXTENDS DirectCalls, CustomRunProofs

RequestPCs == {"none", "call", "write", "200", "502", "500", "lost"}
Values == Requests \cup Power \cup {Fresh}
Rows == [Columns -> Values]

(* The copies of the row are empty before a request loads it, and again     *)
(* when its session is closed.                                              *)
RequestRec ==
  [pc : RequestPCs, at : Offered \cup {"none"}, made : Nat,
   seen : Rows \cup {<< >>}, sees : MachineStates \cup {NoState},
   copy : Rows \cup {<< >>}]

(* A request at work holds the row it loaded; one that writes has made all  *)
(* the calls of its endpoint.                                               *)
HoldsRow(c) ==
  /\ c.pc \in {"call", "write"} => c.seen \in Rows
  /\ c.pc = "write" => c.copy \in Rows /\ c.made = Len(Endpoints[c.at].calls)

DirectInv ==
  /\ state \in MachineStates
  /\ column \in Rows
  /\ request \in [Requests -> RequestRec]
  /\ \A q \in Requests : HoldsRow(request[q])

-----------------------------------------------------------------------------
(* Runs are undisturbed                                                     *)

(* A step of this system is one of the runs', or leaves them alone.         *)
LEMMA RunsGoOn == [DirectNext]_directVars => [CustomNext]_customVars
  <1>1. ASSUME NEW q \in Requests, NEW e \in Offered, Arrive(q, e)
        PROVE  UNCHANGED customVars
    BY <1>1 DEF Arrive, RunsUnchanged
  <1>2. ASSUME NEW q \in Requests, Serve(q)
        PROVE  UNCHANGED customVars
    BY <1>2 DEF Serve, CallReturns, CallRaises, Assign, Write, RunsUnchanged
  <1>3. ASSUME NEW r \in Runs, RunWork(r) \/ CreateWorkflow(r) \/ ResumeLoad(r)
        PROVE  CustomNext
    BY <1>3 DEF RunWork, CustomNext
  <1>4. ServerCrash => CustomNext
    BY DEF ServerCrash, CustomNext
  <1>5. UNCHANGED directVars => UNCHANGED customVars
    BY DEF directVars
  <1> QED BY <1>1, <1>2, <1>3, <1>4, <1>5 DEF DirectNext

(* Whatever the endpoints that call the BMC do beside it, a custom workflow *)
(* behaves as it does alone.                                                *)
THEOREM RequestsLeaveRunsAlone == DirectSpec => CustomSpec
  <1>1. DirectInit => CustomInit
    BY DEF DirectInit
  <1> QED BY <1>1, RunsGoOn, PTL DEF DirectSpec, CustomSpec

(* Beside requests too, the workflow's rows and runs keep their types.      *)
THEOREM CustomTypesBesideRequests == DirectSpec => []CustomTypeOK
  BY RequestsLeaveRunsAlone, CustomTypesHold, PTL

(* Beside requests too, a resume skips no step that was not carried out.    *)
THEOREM NothingLostBesideRequests == DirectSpec => []NoStepLost
  BY RequestsLeaveRunsAlone, CheckpointsLoseNothing, PTL

(* Beside requests too, a run is an atomic change of the two rows.          *)
THEOREM StoreBesideRequests == StepsGiven => (DirectSpec => RefinesStore)
  BY RequestsLeaveRunsAlone, RunImplementsStore

(* Beside requests too, no two runs of a workflow with a target state wait  *)
(* for each other's rows.                                                   *)
THEOREM NoCircleBesideRequests == Target # NoState => (DirectSpec => []NoCircularWait)
  BY RequestsLeaveRunsAlone, TargetOrdersLocks

-----------------------------------------------------------------------------
(* The inductive invariant                                                  *)

LEMMA InitDirect == DirectInit => DirectInv
  <1> SUFFICES ASSUME DirectInit PROVE DirectInv
    OBVIOUS
  <1>1. state \in MachineStates
    BY StatesAssumption DEF DirectInit, CustomInit
  <1>2. column \in Rows
    BY DEF DirectInit, Rows, Values, Power
  <1>3. NoRequest \in RequestRec /\ HoldsRow(NoRequest)
    BY DEF NoRequest, RequestRec, RequestPCs, HoldsRow
  <1>4. request \in [Requests -> RequestRec] /\ \A q \in Requests : request[q] = NoRequest
    BY <1>3 DEF DirectInit
  <1> QED BY <1>1, <1>2, <1>3, <1>4 DEF DirectInv

(* A step of one request, of which only its own record has to be looked at. *)
LEMMA OneRequestSteps ==
  ASSUME DirectInv, NEW q \in Requests, NEW c \in RequestRec, HoldsRow(c),
         SetRequest(q, c), RunsUnchanged, column' \in Rows
  PROVE  DirectInv'
  <1>1. request' \in [Requests -> RequestRec]
    BY DEF DirectInv, SetRequest
  <1>2. \A p \in Requests : request'[p] = IF p = q THEN c ELSE request[p]
    BY DEF DirectInv, SetRequest
  <1>3. \A p \in Requests : HoldsRow(request'[p])
    BY <1>2 DEF DirectInv
  <1>4. state' = state
    BY DEF RunsUnchanged, customVars
  <1> QED BY <1>1, <1>3, <1>4 DEF DirectInv

LEMMA ArriveStep ==
  ASSUME DirectInv, NEW q \in Requests, NEW e \in Offered, Arrive(q, e)
  PROVE  DirectInv'
  <1> DEFINE c == [pc |-> "call", at |-> e, made |-> 0, seen |-> column,
                   sees |-> state, copy |-> column]
  <1>1. c \in RequestRec /\ HoldsRow(c)
    BY DEF DirectInv, RequestRec, RequestPCs, HoldsRow
  <1>2. SetRequest(q, c) /\ RunsUnchanged /\ column' \in Rows
    BY DEF Arrive, DirectInv
  <1> HIDE DEF c
  <1> QED BY <1>1, <1>2, OneRequestSteps

LEMMA CallSteps ==
  ASSUME DirectInv, NEW q \in Requests, NEW reply, CallReturns(q, reply) \/ CallRaises(q, reply)
  PROVE  DirectInv'
  <1>0. /\ request[q] \in RequestRec /\ HoldsRow(request[q]) /\ request[q].pc = "call"
        /\ RunsUnchanged /\ column' \in Rows
    BY DEF DirectInv, CallReturns, CallRaises, InRequest
  <1>1. CASE CallReturns(q, reply)
    <2> DEFINE c == [request[q] EXCEPT !.made = request[q].made + 1]
    <2>1. c \in RequestRec /\ HoldsRow(c)
      BY <1>0 DEF RequestRec, HoldsRow
    <2>2. SetRequest(q, c)
      BY <1>1 DEF CallReturns
    <2> HIDE DEF c
    <2> QED BY <1>0, <2>1, <2>2, OneRequestSteps
  <1>2. CASE CallRaises(q, reply)
    <2> DEFINE c == [NoRequest EXCEPT !.pc =
                       IF Result(NextCall(q).method, reply) = "bmc_error" THEN "502" ELSE "500"]
    <2>1. c \in RequestRec /\ HoldsRow(c)
      BY DEF NoRequest, RequestRec, RequestPCs, HoldsRow
    <2>2. SetRequest(q, c)
      BY <1>2 DEF CallRaises
    <2> HIDE DEF c
    <2> QED BY <1>0, <2>1, <2>2, OneRequestSteps
  <1> QED BY <1>1, <1>2

LEMMA AssignStep ==
  ASSUME DirectInv, NEW q \in Requests, Assign(q)
  PROVE  DirectInv'
  <1>0. /\ request[q] \in RequestRec /\ request[q].seen \in Rows
        /\ RunsUnchanged /\ column' \in Rows
        /\ request[q].made = Len(Endpoints[request[q].at].calls)
    BY DEF DirectInv, Assign, InRequest, HoldsRow, Ep
  <1> DEFINE told(power, news) ==
        [col \in Columns |-> IF col = "power_state" /\ col \in Ep(q).writes THEN power
                             ELSE IF col \in news THEN q ELSE request[q].seen[col]]
  <1>1. PICK power \in Power, news \in SUBSET Ep(q).writes :
          SetRequest(q, [request[q] EXCEPT !.pc = "write", !.copy = told(power, news)])
    BY DEF Assign
  <1>2. told(power, news) \in Rows
    BY <1>0 DEF Rows, Values
  <1> HIDE DEF told
  <1> DEFINE c == [request[q] EXCEPT !.pc = "write", !.copy = told(power, news)]
  <1>3. c \in RequestRec /\ HoldsRow(c)
    BY <1>0, <1>2 DEF RequestRec, RequestPCs, HoldsRow
  <1>4. SetRequest(q, c)
    BY <1>1
  <1> HIDE DEF c
  <1> QED BY <1>0, <1>3, <1>4, OneRequestSteps

LEMMA WriteStep ==
  ASSUME DirectInv, NEW q \in Requests, Write(q)
  PROVE  DirectInv'
  <1>1. request[q].copy \in Rows /\ RunsUnchanged
    BY DEF DirectInv, Write, InRequest, HoldsRow
  <1>2. column' \in Rows
    BY <1>1 DEF Write, DirectInv, Rows
  <1> DEFINE c == [NoRequest EXCEPT !.pc = "200"]
  <1>3. c \in RequestRec /\ HoldsRow(c)
    BY DEF NoRequest, RequestRec, RequestPCs, HoldsRow
  <1>4. SetRequest(q, c)
    BY DEF Write
  <1> HIDE DEF c
  <1> QED BY <1>1, <1>2, <1>3, <1>4, OneRequestSteps

LEMMA RunStep ==
  ASSUME DirectInv, state' \in MachineStates, UNCHANGED <<column, request>>
  PROVE  DirectInv'
  BY DEF DirectInv

LEMMA CrashedRequests ==
  ASSUME DirectInv, ServerCrash
  PROVE  DirectInv'
  <1> DEFINE lost == [NoRequest EXCEPT !.pc = "lost"]
  <1>1. lost \in RequestRec /\ HoldsRow(lost)
    BY DEF NoRequest, RequestRec, RequestPCs, HoldsRow
  <1>2. request' = [q \in Requests |->
          IF request[q].pc \in {"call", "write"} THEN lost ELSE request[q]]
    BY DEF ServerCrash
  <1> HIDE DEF lost
  <1>3. \A q \in Requests : request'[q] \in {lost, request[q]}
    BY <1>2
  <1>4. request' \in [Requests -> RequestRec]
    BY <1>1, <1>2, <1>3 DEF DirectInv
  <1>5. \A q \in Requests : HoldsRow(request'[q])
    BY <1>1, <1>3 DEF DirectInv
  <1>6. state' = state /\ column' = column
    BY DEF ServerCrash, Crash, rowVars
  <1> QED BY <1>4, <1>5, <1>6 DEF DirectInv

LEMMA NextDirect ==
  ASSUME DirectInv, CustomInv, CustomInv', [DirectNext]_directVars
  PROVE  DirectInv'
  <1>0. state' \in MachineStates
    BY DEF CustomInv, RowTypes
  <1>1. ASSUME NEW q \in Requests, NEW e \in Offered, Arrive(q, e) PROVE DirectInv'
    BY <1>1, ArriveStep
  <1>2. ASSUME NEW q \in Requests, Serve(q) PROVE DirectInv'
    BY <1>2, CallSteps, AssignStep, WriteStep DEF Serve
  <1>3. ASSUME NEW r \in Runs,
               \/ RunWork(r)
               \/ (CreateWorkflow(r) \/ ResumeLoad(r)) /\ UNCHANGED <<column, request>>
        PROVE  DirectInv'
    BY <1>0, <1>3, RunStep DEF RunWork
  <1>4. ServerCrash => DirectInv'
    BY CrashedRequests
  <1>5. UNCHANGED directVars => DirectInv'
    BY <1>0, RunStep DEF directVars
  <1> QED BY <1>1, <1>2, <1>3, <1>4, <1>5 DEF DirectNext

LEMMA DirectInvHolds == DirectSpec => []DirectInv
  <1>1. DirectInv /\ CustomInv /\ CustomInv' /\ [DirectNext]_directVars => DirectInv'
    BY NextDirect
  <1> QED BY <1>1, InitDirect, CustomInvHolds, RequestsLeaveRunsAlone, PTL DEF DirectSpec

-----------------------------------------------------------------------------
(* Results                                                                  *)

(* Rows, runs, columns and requests keep their types, and no request writes *)
(* before all the calls of its endpoint were made.                          *)
THEOREM DirectTypesHold == DirectSpec => []DirectTypeOK
  <1>1. DirectInv /\ CustomTypeOK => DirectTypeOK
    BY DEF DirectInv, DirectTypeOK, Rows, Values, RequestRec, RequestPCs, HoldsRow,
           InRequest, Ep
  <1> QED BY <1>1, DirectInvHolds, CustomTypesBesideRequests, PTL
=============================================================================
