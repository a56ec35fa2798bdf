---------------------- MODULE SimulationLifecycleProofs ----------------------
(***************************************************************************)
(* Proofs about SimulationLifecycle, for any number of requests, workers,  *)
(* simulations and months: the types of everything that is stored and      *)
(* remembered, on which the proofs about results and dispatches build.     *)
(***************************************************************************)
EXTENDS SimulationLifecycle, AccountStoreProofs, SequenceTheorems

(***************************************************************************)
(* The inductive invariant behind LifecycleTypeOK: besides the types, what *)
(* a request and a worker must remember at each stage, and why a debit is  *)
(* rejected.                                                               *)
(***************************************************************************)
Rejections ==
    \A c \in Clients :
        call[c].at = "rejected" =>
            /\ call[c].op.name = "debit"
            /\ ~CanAfford(call[c].doc, call[c].op.tokens)

\* the last three are stages of TeamSimulations
ReqStages ==
    {"idle", "create_account", "create_debit", "create_status", "create_cost", "publish",
     "retry_checks", "retry_account", "retry_debit", "append_read", "append_write",
     "rerun_next", "delete_list", "wipe_account", "delete_next", "view",
     "dissolve_list", "dissolve_account", "dissolve_members"}

ReqKinds ==
    {"none", "create", "retry", "rerun", "delete", "clear", "wipe", "view", "dissolve"}

ReqType ==
    [at : ReqStages, kind : ReqKinds, sid : SimIds \cup {Absent},
     estimate : Estimates \cup {Absent}, period : Nat \cup {Absent},
     events : Seq(Status), sids : SUBSET SimIds, doomed : SUBSET (SimIds \X BlobNames)]

Billing == {"create_account", "create_debit", "create_status", "create_cost",
            "retry_account", "retry_debit"}

Submitting == Billing \cup {"retry_checks", "append_read", "append_write", "publish"}

Remembers(q) ==
    /\ q.at \in Submitting => q.sid \in SimIds
    /\ q.at \in Billing => q.estimate \in Estimates /\ q.period \in Nat

RequestsOK ==
    /\ req \in [Requests -> ReqType]
    /\ \A r \in Requests : Remembers(req[r])

JobStages ==
    {"idle", "config", "status_read", "status_write", "simulate", "results", "reconcile",
     "overage", "partial", "cost_save", "fail_cost", "refund", "refund_save", "ack"}

JobType ==
    [at : JobStages, sid : SimIds \cup {Absent}, next : Status, actual : Nat \cup {Absent},
     record : CostRecord \cup {Absent}, events : Seq(Status)]

\* job j of a worker whose account call is c
Works(j, c) ==
    /\ j # NoJob => j.sid \in SimIds
    /\ j.at \in {"results", "reconcile", "overage", "partial", "cost_save"} => j.actual \in Nat
    /\ j.at \in {"overage", "partial", "cost_save", "refund", "refund_save"} =>
          j.record \in CostRecord
    /\ j.at \in {"overage", "partial"} =>
          j.actual > j.record.estimated_tokens /\ c.op.name = "debit"

WorkersOK ==
    /\ job \in [Workers -> JobType]
    /\ \A w \in Workers : Works(job[w], call[w])

SimInv ==
    /\ StoreInv
    /\ Rejections
    /\ SimulationTypeOK
    /\ RequestsOK
    /\ WorkersOK
-----------------------------------------------------------------------------
LEMMA EmptyTrail == << >> \in Seq(Status)
  BY EmptySeq

LEMMA NoRequestIsType == NoRequest \in ReqType /\ Remembers(NoRequest)
  <1>1. {} \in SUBSET (SimIds \X BlobNames)
    OBVIOUS
  <1>2. NoRequest \in ReqType
    BY <1>1, EmptyTrail DEF NoRequest, ReqType, ReqStages, ReqKinds
  <1>3. NoRequest.at = "idle"
    BY DEF NoRequest
  <1> QED
    BY <1>2, <1>3 DEF Remembers, Submitting, Billing

LEMMA NoJobIsType == NoJob \in JobType /\ \A c : Works(NoJob, c)
  <1>1. "running" \in Status
    BY DEF Status
  <1>2. NoJob \in JobType
    BY <1>1, EmptyTrail DEF NoJob, JobType, JobStages
  <1>3. NoJob.at = "idle"
    BY DEF NoJob
  <1> QED
    BY <1>2, <1>3 DEF Works

LEMMA CallerFacts ==
    /\ Requests \subseteq Clients
    /\ Workers \subseteq Clients
    /\ \A r \in Requests, w \in Workers : r # w
  BY RequestsAreClients, WorkersAreClients, CallersAreDistinct

\* a caller makes a call, takes the outcome of one, or does neither
Calls(c) == Forget(c) \/ (\E op \in Operation : Invoke(c, op)) \/ call' = call

LEMMA CallsKeep ==
    ASSUME StoreInv, Rejections, NEW c \in Clients, Calls(c),
           account' \in Account \cup {Absent}, month' = month
    PROVE  /\ StoreInv'
           /\ Rejections'
           /\ \A d \in Clients : d # c => call'[d] = call[d]
  <1>1. call \in [Clients -> CallType]
    BY DEF StoreInv, TypeOK
  <1>2. CASE Forget(c)
    <2>1. StoreInv'
      BY <1>2, StoreForget
    <2>2. call' = [call EXCEPT ![c] = NoCall] /\ NoCall.at # "rejected"
      BY <1>2, NoCallType DEF Forget
    <2> QED
      BY <1>1, <2>1, <2>2 DEF Rejections
  <1>3. ASSUME NEW op \in Operation, Invoke(c, op)
        PROVE  /\ StoreInv'
               /\ Rejections'
               /\ \A d \in Clients : d # c => call'[d] = call[d]
    <2>1. call' = [call EXCEPT ![c] = Begun(op)] /\ Begun(op).at # "rejected"
      BY <1>3 DEF Invoke, Begun
    <2>2. StoreInv'
      <3>1. CASE account' = account
        BY <1>3, <3>1, StoreInvoke
      <3>2. Begun(op) \in CallType /\ Begun(op).at \in {"list", "read"}
        BY DEF Begun, CallType, Stages
      <3> HIDE DEF Begun
      <3> QED
        BY <2>1, <3>2, StoreMove
    <2> HIDE DEF Begun
    <2> QED
      BY <1>1, <2>1, <2>2 DEF Rejections
  <1>4. CASE call' = call
    <2>1. StoreInv'
      BY <1>4 DEF StoreInv, TypeOK, Documented
    <2> QED
      BY <1>4, <2>1 DEF Rejections
  <1> QED
    BY <1>2, <1>3, <1>4 DEF Calls

\* a step of one request
LEMMA RequestMove ==
    ASSUME SimInv, SimulationTypeOK', NEW r \in Requests, Calls(r),
           account' \in Account \cup {Absent}, month' = month, job' = job,
           NEW new \in ReqType, Remembers(new), req' = [req EXCEPT ![r] = new]
    PROVE  SimInv'
  <1>1. /\ StoreInv' /\ Rejections'
        /\ \A d \in Clients : d # r => call'[d] = call[d]
    BY CallsKeep, CallerFacts DEF SimInv
  <1>2. WorkersOK'
    BY <1>1, CallerFacts DEF SimInv, WorkersOK
  <1>3. RequestsOK'
    BY DEF SimInv, RequestsOK
  <1> QED
    BY <1>1, <1>2, <1>3 DEF SimInv

\* a step of one worker
LEMMA JobMove ==
    ASSUME SimInv, SimulationTypeOK', NEW w \in Workers, Calls(w),
           account' = account, month' = month, req' = req,
           NEW new \in JobType, Works(new, call'[w]), job' = [job EXCEPT ![w] = new]
    PROVE  SimInv'
  <1>1. account \in Account \cup {Absent}
    BY DEF SimInv, StoreInv, TypeOK
  <1>2. /\ StoreInv' /\ Rejections'
        /\ \A d \in Clients : d # w => call'[d] = call[d]
    BY <1>1, CallsKeep, CallerFacts DEF SimInv
  <1>3. WorkersOK'
    BY <1>2, CallerFacts DEF SimInv, WorkersOK
  <1>4. RequestsOK'
    BY DEF SimInv, RequestsOK
  <1> QED
    BY <1>2, <1>3, <1>4 DEF SimInv

LEMMA BlobsStay == ASSUME SimInv, UNCHANGED simVars PROVE SimulationTypeOK'
  BY DEF SimInv, SimulationTypeOK, simVars
-----------------------------------------------------------------------------
(***************************************************************************)
(* Requests.                                                               *)
(***************************************************************************)
\* what every step may assume of the state it starts in
LEMMA RequestFacts ==
    ASSUME SimInv, NEW r \in Requests
    PROVE  /\ account \in Account \cup {Absent} /\ month \in Nat
           /\ req[r] \in ReqType /\ Remembers(req[r])
           /\ req \in [Requests -> ReqType]
           /\ call[r] \in CallType
  BY CallerFacts, LastPeriodAssumption DEF SimInv, RequestsOK, StoreInv, TypeOK

LEMMA OperationFacts ==
    /\ GetOrCreate(UserRole) \in Operation
    /\ \A n \in Nat : Debit(n) \in Operation /\ Credit(n) \in Operation
    /\ Estimates \subseteq Nat
  BY UserRoleAssumption, EstimatesAssumption DEF GetOrCreate, Debit, Credit, Operation

\* what a request keeps when only its stage changes
Fits(r, stage) ==
    /\ stage \in ReqStages
    /\ stage \in Submitting => req[r].sid \in SimIds
    /\ stage \in Billing => req[r].estimate \in Estimates /\ req[r].period \in Nat

LEMMA GoMove ==
    ASSUME SimInv, SimulationTypeOK', NEW r \in Requests, Calls(r),
           account' \in Account \cup {Absent}, month' = month, job' = job,
           NEW stage, Go(r, stage), Fits(r, stage)
    PROVE  SimInv'
  <1> DEFINE new == [req[r] EXCEPT !.at = stage]
  <1>1. req[r] \in ReqType /\ req \in [Requests -> ReqType]
    BY RequestFacts
  <1>2. new \in ReqType /\ Remembers(new)
    BY <1>1 DEF ReqType, Remembers, Fits
  <1>3. req' = [req EXCEPT ![r] = new]
    BY <1>1 DEF Go
  <1> HIDE DEF new
  <1> QED
    BY <1>2, <1>3, RequestMove

LEMMA EndMove ==
    ASSUME SimInv, SimulationTypeOK', NEW r \in Requests, Finish(r),
           account' \in Account \cup {Absent}, month' = month, job' = job
    PROVE  SimInv'
  <1>1. Calls(r) /\ req' = [req EXCEPT ![r] = NoRequest]
    BY DEF Finish, Calls
  <1> QED
    BY <1>1, NoRequestIsType, RequestMove

LEMMA StartKeepsTypes ==
    ASSUME SimInv, NEW r \in Requests, RequestStart(r), job' = job
    PROVE  SimInv'
  <1>1. /\ account \in Account \cup {Absent} /\ month \in Nat
        /\ req \in [Requests -> ReqType]
    BY RequestFacts
  <1>2. {} \in SUBSET (SimIds \X BlobNames) /\ {} \in SUBSET SimIds
    OBVIOUS
  <1>3. ASSUME NEW s \in SimIds, NEW e \in Estimates, CreateStart(r, s, e)
        PROVE  SimInv'
    <2> DEFINE new == [NoRequest EXCEPT !.at = "create_account", !.kind = "create",
                                        !.sid = s, !.estimate = e, !.period = month]
    <2>1. new \in ReqType /\ Remembers(new)
      BY <1>1, <1>2, EmptyTrail DEF NoRequest, ReqType, ReqStages, ReqKinds, Remembers
    <2>2. req' = [req EXCEPT ![r] = new]
      BY <1>3 DEF CreateStart, Accept
    <2>3. Calls(r) /\ account' = account /\ month' = month
      BY <1>3, OperationFacts DEF CreateStart, Calls
    <2>4. SimulationTypeOK'
      BY <1>3, BlobsStay DEF CreateStart
    <2> HIDE DEF new
    <2> QED
      BY <1>1, <2>1, <2>2, <2>3, <2>4, RequestMove
  <1>4. ASSUME NEW s \in SimIds, RetryStart(r, s)
        PROVE  SimInv'
    <2> DEFINE new == [NoRequest EXCEPT !.at = "retry_checks", !.kind = "retry", !.sid = s]
    <2>1. new \in ReqType /\ Remembers(new)
      BY <1>2, EmptyTrail DEF NoRequest, ReqType, ReqStages, ReqKinds, Remembers, Billing
    <2>2. req' = [req EXCEPT ![r] = new]
      BY <1>4 DEF RetryStart, Accept
    <2>3. Calls(r) /\ account' = account /\ month' = month
      BY <1>4 DEF RetryStart, Calls, storeVars
    <2>4. SimulationTypeOK'
      BY <1>4, BlobsStay DEF RetryStart
    <2> HIDE DEF new
    <2> QED
      BY <1>1, <2>1, <2>2, <2>3, <2>4, RequestMove
  <1>5. ASSUME NEW stage \in {"rerun_next", "delete_list"}, NEW kind \in ReqKinds,
               NEW sids \in SUBSET SimIds,
               Accept(r, kind, [NoRequest EXCEPT !.at = stage, !.kind = kind, !.sids = sids]),
               UNCHANGED <<storeVars, simVars>>
        PROVE  SimInv'
    <2> DEFINE new == [NoRequest EXCEPT !.at = stage, !.kind = kind, !.sids = sids]
    <2>1. new \in ReqType /\ Remembers(new)
      BY <1>2, EmptyTrail DEF NoRequest, ReqType, ReqStages, Remembers, Submitting, Billing
    <2>2. req' = [req EXCEPT ![r] = new]
      BY <1>5 DEF Accept
    <2>3. Calls(r) /\ account' = account /\ month' = month
      BY <1>5 DEF Calls, storeVars
    <2>4. SimulationTypeOK'
      BY <1>5, BlobsStay
    <2> HIDE DEF new
    <2> QED
      BY <1>1, <2>1, <2>2, <2>3, <2>4, RequestMove
  <1>6. CASE RerunStart(r)
    <2>1. SimulationPairs \in SUBSET SimIds
      BY DEF SimulationPairs
    <2> HIDE DEF SimulationPairs
    <2> QED
      BY <1>5, <1>6, <2>1 DEF RerunStart, ReqKinds
  <1>7. ASSUME NEW s \in SimIds, DeleteStart(r, s)
        PROVE  SimInv'
    <2>1. {s} \in SUBSET SimIds
      OBVIOUS
    <2> QED
      BY <1>5, <1>7, <2>1 DEF DeleteStart, ReqKinds
  <1>8. CASE ClearStart(r) \/ WipeStart(r)
    BY <1>5, <1>8 DEF ClearStart, WipeStart, ReqKinds
  <1>9. CASE ViewStart(r)
    <2> DEFINE new == [NoRequest EXCEPT !.at = "view", !.kind = "view"]
    <2>1. new \in ReqType /\ Remembers(new)
      BY <1>2, EmptyTrail
      DEF NoRequest, ReqType, ReqStages, ReqKinds, Remembers, Submitting, Billing
    <2>2. req' = [req EXCEPT ![r] = new]
      BY <1>9 DEF ViewStart, Accept
    <2>3. Calls(r) /\ account' = account /\ month' = month
      BY <1>9, OperationFacts DEF ViewStart, Calls
    <2>4. SimulationTypeOK'
      BY <1>9, BlobsStay DEF ViewStart
    <2> HIDE DEF new
    <2> QED
      BY <1>1, <2>1, <2>2, <2>3, <2>4, RequestMove
  <1> QED
    BY <1>3, <1>4, <1>6, <1>7, <1>8, <1>9 DEF RequestStart

LEMMA NetChargeType ==
    ASSUME SimulationTypeOK, NEW s \in SimIds
    PROVE  NetChargeOf(s) \in Nat
  BY DEF SimulationTypeOK, NetChargeOf, NetCharge, CostRecord

LEMMA DeleteBlobType ==
    ASSUME SimulationTypeOK, NEW x \in SimIds \X BlobNames, DeleteBlob(x), queue' = queue
    PROVE  SimulationTypeOK'
  <1>1. x[1] \in SimIds
    OBVIOUS
  <1>2. retired' \in Nat
    BY <1>1, NetChargeType DEF SimulationTypeOK, DeleteBlob
  <1>3. trail' \in [SimIds -> Seq(Status) \cup {Absent}] /\ \A s \in SimIds : trail'[s] # << >>
    <2>1. Absent # << >>
      BY AbsentIsNoBlob, EmptyTrail
    <2>2. CASE x[2] = "status.json"
      BY <1>1, <2>1, <2>2 DEF SimulationTypeOK, DeleteBlob
    <2>3. CASE x[2] # "status.json"
      BY <2>3 DEF SimulationTypeOK, DeleteBlob
    <2> QED
      BY <2>2, <2>3
  <1> QED
    BY <1>1, <1>2, <1>3 DEF SimulationTypeOK, DeleteBlob

LEMMA NewCostType ==
    ASSUME SimInv, NEW r \in Requests, req[r].at \in Billing
    PROVE  NewCost(r) \in CostRecord
  BY RequestFacts, OperationFacts DEF NewCost, CostRecord, Remembers

LEMMA TrailType ==
    ASSUME SimInv, NEW s \in SimIds
    PROVE  RecordToAppendTo(s) \in Seq(Status)
  BY EmptyTrail DEF RecordToAppendTo, SimInv, SimulationTypeOK

LEMMA AppendType ==
    ASSUME NEW events \in Seq(Status), NEW e \in Status
    PROVE  /\ Append(events, e) \in Seq(Status) /\ Append(events, e) # << >>
           /\ Last(Append(events, e)) = e
  <1>1. /\ Append(events, e) \in Seq(Status) /\ Append(events, e) # << >>
        /\ Len(Append(events, e)) = Len(events) + 1
        /\ Append(events, e)[Len(events) + 1] = e
    BY AppendProperties
  <1> QED
    BY <1>1 DEF Last

LEMMA CreateStepKeepsTypes ==
    ASSUME SimInv, NEW r \in Requests, job' = job,
           CreateAdmit(r) \/ CreateSaveConfig(r) \/ CreateSaveStatus(r) \/ CreateSaveCost(r)
    PROVE  SimInv'
  <1>1. /\ account \in Account \cup {Absent}
        /\ req[r] \in ReqType /\ Remembers(req[r])
    BY RequestFacts
  <1>2. CASE CreateAdmit(r)
    <2>1. SimulationTypeOK' /\ account' = account /\ month' = month
      BY <1>2, BlobsStay DEF CreateAdmit
    <2>2. CASE Finish(r)
      BY <1>1, <2>1, <2>2, EndMove
    <2>3. CASE Go(r, "create_debit") /\ Invoke(r, Debit(req[r].estimate))
      <3>1. Fits(r, "create_debit") /\ req[r].estimate \in Nat
        BY <1>1, <1>2, OperationFacts
        DEF CreateAdmit, At, Fits, Remembers, ReqStages, Submitting, Billing
      <3>2. Calls(r)
        BY <2>3, <3>1, OperationFacts DEF Calls
      <3> QED
        BY <1>1, <2>1, <2>3, <3>1, <3>2, GoMove
    <2> QED
      BY <1>2, <2>2, <2>3 DEF CreateAdmit
  <1>3. CASE CreateSaveConfig(r)
    <2>1. /\ req[r].sid \in SimIds /\ req[r].estimate \in Estimates
          /\ Fits(r, "create_status")
      BY <1>1, <1>3 DEF CreateSaveConfig, At, Fits, Remembers, ReqStages, Submitting, Billing
    <2>2. SimulationTypeOK'
      BY <1>3, <2>1 DEF CreateSaveConfig, SimInv, SimulationTypeOK
    <2>3. Calls(r) /\ account' = account /\ month' = month
      BY <1>3 DEF CreateSaveConfig, Calls
    <2> QED
      BY <1>1, <1>3, <2>1, <2>2, <2>3, GoMove DEF CreateSaveConfig
  <1>4. CASE CreateSaveStatus(r)
    <2>1. req[r].sid \in SimIds /\ Fits(r, "create_cost")
      BY <1>1, <1>4 DEF CreateSaveStatus, At, Fits, Remembers, ReqStages, Submitting, Billing
    <2> DEFINE first == <<"pending">>
    <2>2. first \in Seq(Status) /\ first # << >>
      BY DEF Status
    <2>5. trail' = [trail EXCEPT ![req[r].sid] = first]
      BY <1>4 DEF CreateSaveStatus
    <2> HIDE DEF first
    <2>3. SimulationTypeOK'
      BY <1>4, <2>1, <2>2, <2>5 DEF CreateSaveStatus, SimInv, SimulationTypeOK
    <2>4. Calls(r) /\ account' = account /\ month' = month
      BY <1>4 DEF CreateSaveStatus, Calls, storeVars
    <2> QED
      BY <1>1, <1>4, <2>1, <2>3, <2>4, GoMove DEF CreateSaveStatus
  <1>5. CASE CreateSaveCost(r)
    <2>1. req[r].sid \in SimIds /\ Fits(r, "publish") /\ req[r].at \in Billing
      BY <1>1, <1>5 DEF CreateSaveCost, At, Fits, Remembers, ReqStages, Submitting, Billing
    <2>2. NewCost(r) \in CostRecord
      BY <2>1, NewCostType
    <2>3. SimulationTypeOK'
      BY <1>5, <2>1, <2>2 DEF CreateSaveCost, SimInv, SimulationTypeOK
    <2>4. Calls(r) /\ account' = account /\ month' = month
      BY <1>5 DEF CreateSaveCost, Calls, storeVars
    <2> QED
      BY <1>1, <1>5, <2>1, <2>3, <2>4, GoMove DEF CreateSaveCost
  <1> QED
    BY <1>2, <1>3, <1>4, <1>5

LEMMA RetryStepKeepsTypes ==
    ASSUME SimInv, NEW r \in Requests, job' = job,
           RetryAdmit(r) \/ RetryDebit(r) \/ Reject(r) \/ RetrySaveCost(r)
    PROVE  SimInv'
  <1>1. /\ account \in Account \cup {Absent} /\ month \in Nat
        /\ req \in [Requests -> ReqType]
        /\ req[r] \in ReqType /\ Remembers(req[r])
    BY RequestFacts
  <1>2. CASE RetryAdmit(r)
    <2>1. SimulationTypeOK' /\ account' = account /\ month' = month
      BY <1>2, BlobsStay DEF RetryAdmit
    <2>2. CASE Finish(r)
      BY <1>1, <2>1, <2>2, EndMove
    <2>3. CASE ~Finish(r)
      <3> DEFINE s == req[r].sid
                 new == [req[r] EXCEPT !.at = "retry_account", !.estimate = config[s],
                                       !.period = month]
      <3>1. /\ config[s] # Absent /\ Invoke(r, GetOrCreate(UserRole))
            /\ req' = [req EXCEPT ![r].at = "retry_account", ![r].estimate = config[s],
                                  ![r].period = month]
        BY <1>2, <2>3 DEF RetryAdmit
      <3>2. s \in SimIds
        BY <1>1, <1>2 DEF RetryAdmit, At, Remembers, Submitting
      <3>3. config[s] \in Estimates
        BY <3>1, <3>2 DEF SimInv, SimulationTypeOK
      <3>4. new \in ReqType /\ Remembers(new)
        BY <1>1, <3>2, <3>3 DEF ReqType, ReqStages, Remembers
      <3>5. req' = [req EXCEPT ![r] = new]
        BY <1>1, <3>1
      <3>6. Calls(r)
        BY <3>1, OperationFacts DEF Calls
      <3> HIDE DEF new
      <3> QED
        BY <1>1, <2>1, <3>4, <3>5, <3>6, RequestMove
    <2> QED
      BY <2>2, <2>3
  <1>3. CASE RetryDebit(r)
    <2>1. Fits(r, "retry_debit") /\ req[r].estimate \in Nat
      BY <1>1, <1>3, OperationFacts
      DEF RetryDebit, At, Fits, Remembers, ReqStages, Submitting, Billing
    <2>2. Calls(r)
      BY <1>3, <2>1, OperationFacts DEF RetryDebit, Calls
    <2>3. SimulationTypeOK' /\ account' = account /\ month' = month
      BY <1>3, BlobsStay DEF RetryDebit
    <2> QED
      BY <1>1, <1>3, <2>1, <2>2, <2>3, GoMove DEF RetryDebit
  <1>4. CASE Reject(r)
    <2>1. SimulationTypeOK' /\ account' = account /\ month' = month
      BY <1>4, BlobsStay DEF Reject
    <2> QED
      BY <1>1, <1>4, <2>1, EndMove DEF Reject
  <1>5. CASE RetrySaveCost(r)
    <2>1. req[r].sid \in SimIds /\ Fits(r, "append_read") /\ req[r].at \in Billing
      BY <1>1, <1>5 DEF RetrySaveCost, At, Fits, Remembers, ReqStages, Submitting, Billing
    <2>2. NewCost(r) \in CostRecord
      BY <2>1, NewCostType
    <2>3. NetChargeOf(req[r].sid) \in Nat /\ retired \in Nat
      BY <2>1, NetChargeType DEF SimInv, SimulationTypeOK
    <2>4. SimulationTypeOK'
      BY <1>5, <2>1, <2>2, <2>3 DEF RetrySaveCost, SimInv, SimulationTypeOK
    <2>5. Calls(r) /\ account' = account /\ month' = month
      BY <1>5 DEF RetrySaveCost, Calls
    <2> QED
      BY <1>1, <1>5, <2>1, <2>4, <2>5, GoMove DEF RetrySaveCost
  <1> QED
    BY <1>2, <1>3, <1>4, <1>5

LEMMA PublishType ==
    ASSUME SimulationTypeOK, NEW s \in SimIds, Publish(s), UNCHANGED <<blobs, retired>>
    PROVE  SimulationTypeOK'
  BY DEF Publish, SimulationTypeOK, blobs

LEMMA TailStepKeepsTypes ==
    ASSUME SimInv, NEW r \in Requests, job' = job,
           RerunNext(r) \/ AppendRead(r) \/ AppendWrite(r) \/ Trigger(r)
    PROVE  SimInv'
  <1>1. /\ account \in Account \cup {Absent}
        /\ req \in [Requests -> ReqType]
        /\ req[r] \in ReqType /\ Remembers(req[r])
    BY RequestFacts
  <1>2. CASE RerunNext(r)
    <2>1. SimulationTypeOK' /\ account' = account /\ month' = month
      BY <1>2, BlobsStay DEF RerunNext
    <2>2. CASE Finish(r)
      BY <1>1, <2>1, <2>2, EndMove
    <2>3. CASE ~Finish(r)
      <3>1. PICK s \in req[r].sids :
               req' = [req EXCEPT ![r].sids = @ \ {s},
                                  ![r].sid = s,
                                  ![r].at = IF config[s] = Absent
                                            THEN "rerun_next"
                                            ELSE "append_read"]
        BY <1>2, <2>3 DEF RerunNext
      <3> DEFINE new == [req[r] EXCEPT !.sids = @ \ {s},
                                       !.sid = s,
                                       !.at = IF config[s] = Absent
                                              THEN "rerun_next"
                                              ELSE "append_read"]
      <3>2. s \in SimIds /\ req[r].sids \ {s} \in SUBSET SimIds
        BY <1>1 DEF ReqType
      <3>3. new \in ReqType /\ Remembers(new)
        BY <1>1, <3>2 DEF ReqType, ReqStages, Remembers, Billing
      <3>4. req' = [req EXCEPT ![r] = new]
        BY <1>1, <3>1 DEF ReqType
      <3>5. Calls(r)
        BY <1>2, <2>3 DEF RerunNext, Calls
      <3> HIDE DEF new
      <3> QED
        BY <1>1, <2>1, <3>3, <3>4, <3>5, RequestMove
    <2> QED
      BY <2>2, <2>3
  <1>3. CASE AppendRead(r)
    <2> DEFINE events == RecordToAppendTo(req[r].sid)
               new == [req[r] EXCEPT !.at = "append_write", !.events = events]
    <2>1. req[r].sid \in SimIds
      BY <1>1, <1>3 DEF AppendRead, At, Remembers, Submitting
    <2>2. events \in Seq(Status)
      BY <2>1, TrailType
    <2>3. new \in ReqType /\ Remembers(new)
      BY <1>1, <2>1, <2>2 DEF ReqType, ReqStages, Remembers, Billing
    <2>4. req' = [req EXCEPT ![r] = new]
      BY <1>1, <1>3 DEF AppendRead
    <2>5. Calls(r) /\ account' = account /\ month' = month
      BY <1>3 DEF AppendRead, Calls, storeVars
    <2>6. SimulationTypeOK'
      BY <1>3, BlobsStay DEF AppendRead
    <2> HIDE DEF new
    <2> QED
      BY <1>1, <2>3, <2>4, <2>5, <2>6, RequestMove
  <1>4. CASE AppendWrite(r)
    <2>1. req[r].sid \in SimIds /\ req[r].events \in Seq(Status) /\ Fits(r, "publish")
      BY <1>1, <1>4 DEF AppendWrite, At, Fits, Remembers, ReqType, ReqStages, Submitting, Billing
    <2>2. "retried" \in Status
      BY DEF Status
    <2> DEFINE longer == Append(req[r].events, "retried")
    <2>5. longer \in Seq(Status) /\ longer # << >>
      BY <2>1, <2>2, AppendType
    <2>6. trail' = [trail EXCEPT ![req[r].sid] = longer]
      BY <1>4 DEF AppendWrite
    <2> HIDE DEF longer
    <2>3. SimulationTypeOK'
      BY <1>4, <2>1, <2>5, <2>6 DEF AppendWrite, SimInv, SimulationTypeOK
    <2>4. Calls(r) /\ account' = account /\ month' = month
      BY <1>4 DEF AppendWrite, Calls, storeVars
    <2> QED
      BY <1>1, <1>4, <2>1, <2>3, <2>4, GoMove DEF AppendWrite
  <1>5. CASE Trigger(r)
    <2>1. req[r].sid \in SimIds /\ Fits(r, "rerun_next")
      BY <1>1, <1>5 DEF Trigger, At, Fits, Remembers, ReqStages, Submitting, Billing
    <2>2. SimulationTypeOK' /\ account' = account /\ month' = month
      BY <1>5, <2>1, PublishType DEF Trigger, SimInv, blobs
    <2>3. CASE Finish(r)
      BY <1>1, <2>2, <2>3, EndMove
    <2>4. CASE Go(r, "rerun_next") /\ call' = call
      BY <1>1, <2>1, <2>2, <2>4, GoMove DEF Calls
    <2> QED
      BY <1>5, <2>3, <2>4 DEF Trigger
  <1> QED
    BY <1>2, <1>3, <1>4, <1>5

LEMMA DeleteStepKeepsTypes ==
    ASSUME SimInv, NEW r \in Requests, job' = job,
           DeleteList(r) \/ WipeAccount(r) \/ DeleteNext(r) \/ ViewEnd(r) \/ Abort(r)
    PROVE  SimInv'
  <1>1. /\ account \in Account \cup {Absent}
        /\ req \in [Requests -> ReqType]
        /\ req[r] \in ReqType /\ Remembers(req[r])
    BY RequestFacts
  <1>2. CASE DeleteList(r)
    <2> DEFINE stage == IF req[r].kind = "wipe" /\ account # Absent
                        THEN "wipe_account" ELSE "delete_next"
               listed == BlobsUnder(req[r].sids)
               new == [req[r] EXCEPT !.at = stage, !.doomed = listed]
    <2>1. listed \in SUBSET (SimIds \X BlobNames)
      BY <1>1 DEF BlobsUnder, ReqType
    <2>2. stage \in {"wipe_account", "delete_next"}
      OBVIOUS
    <2>3. req' = [req EXCEPT ![r] = new]
      BY <1>1, <1>2 DEF DeleteList
    <2> HIDE DEF stage, listed
    <2>4. new \in ReqType /\ Remembers(new)
      BY <1>1, <2>1, <2>2 DEF ReqType, ReqStages, Remembers, Submitting, Billing
    <2>5. Calls(r) /\ account' = account /\ month' = month
      BY <1>2 DEF DeleteList, Calls, storeVars
    <2>6. SimulationTypeOK'
      BY <1>2, BlobsStay DEF DeleteList
    <2> HIDE DEF new
    <2> QED
      BY <1>1, <2>3, <2>4, <2>5, <2>6, RequestMove
  <1>3. CASE WipeAccount(r)
    <2>1. SimulationTypeOK' /\ account' = Absent /\ month' = month
      BY <1>3, BlobsStay DEF WipeAccount
    <2>2. CASE Finish(r)
      BY <2>1, <2>2, EndMove
    <2>3. CASE Go(r, "delete_next") /\ call' = call
      <3>1. Fits(r, "delete_next")
        BY DEF Fits, ReqStages, Submitting, Billing
      <3> QED
        BY <2>1, <2>3, <3>1, GoMove DEF Calls
    <2> QED
      BY <1>3, <2>2, <2>3 DEF WipeAccount
  <1>4. CASE DeleteNext(r)
    <2>1. account' = account /\ month' = month /\ queue' = queue
      BY <1>4 DEF DeleteNext
    <2>2. CASE req[r].doomed = {} /\ Finish(r) /\ UNCHANGED <<blobs, retired>>
      <3>1. SimulationTypeOK'
        BY <2>1, <2>2, BlobsStay DEF simVars, blobs
      <3> QED
        BY <1>1, <2>1, <2>2, <3>1, EndMove
    <2>3. ASSUME NEW x \in req[r].doomed, DeleteBlob(x),
                 \/ req' = [req EXCEPT ![r].doomed = @ \ {x}] /\ call' = call
                 \/ Finish(r)
          PROVE  SimInv'
      <3> DEFINE new == [req[r] EXCEPT !.doomed = @ \ {x}]
      <3>1. x \in SimIds \X BlobNames /\ req[r].doomed \ {x} \in SUBSET (SimIds \X BlobNames)
        BY <1>1 DEF ReqType
      <3>2. SimulationTypeOK'
        BY <2>1, <2>3, <3>1, DeleteBlobType DEF SimInv
      <3>3. CASE Finish(r)
        BY <1>1, <2>1, <3>2, <3>3, EndMove
      <3>4. CASE req' = [req EXCEPT ![r].doomed = @ \ {x}] /\ call' = call
        <4>1. new \in ReqType /\ Remembers(new)
          BY <1>1, <3>1 DEF ReqType, Remembers
        <4>2. req' = [req EXCEPT ![r] = new]
          BY <1>1, <3>4 DEF ReqType
        <4> HIDE DEF new
        <4> QED
          BY <1>1, <2>1, <3>2, <3>4, <4>1, <4>2, RequestMove DEF Calls
      <3> QED
        BY <2>3, <3>3, <3>4
    <2> QED
      BY <1>4, <2>2, <2>3 DEF DeleteNext
  <1>5. CASE ViewEnd(r) \/ Abort(r)
    <2>1. SimulationTypeOK' /\ account' = account /\ month' = month /\ Finish(r)
      BY <1>5, BlobsStay DEF ViewEnd, Abort
    <2> QED
      BY <1>1, <2>1, EndMove
  <1> QED
    BY <1>2, <1>3, <1>4, <1>5

LEMMA RequestKeepsTypes ==
    ASSUME SimInv, NEW r \in Requests, RequestStep(r) \/ Abort(r), job' = job
    PROVE  SimInv'
  BY CreateStepKeepsTypes, RetryStepKeepsTypes, TailStepKeepsTypes, DeleteStepKeepsTypes
  DEF RequestStep
-----------------------------------------------------------------------------
(***************************************************************************)
(* Workers.                                                                *)
(***************************************************************************)
LEMMA WorkerFacts ==
    ASSUME SimInv, NEW w \in Workers
    PROVE  /\ w \in Clients /\ month \in Nat
           /\ job \in [Workers -> JobType]
           /\ job[w] \in JobType /\ Works(job[w], call[w])
           /\ call[w] \in CallType
           /\ job[w].at # "idle" => job[w].sid \in SimIds
  <1>1. /\ w \in Clients /\ month \in Nat
        /\ job \in [Workers -> JobType]
        /\ job[w] \in JobType /\ Works(job[w], call[w])
        /\ call[w] \in CallType
    BY CallerFacts, LastPeriodAssumption DEF SimInv, WorkersOK, StoreInv, TypeOK
  <1>2. NoJob.at = "idle"
    BY DEF NoJob
  <1> HIDE DEF NoJob
  <1> QED
    BY <1>1, <1>2 DEF Works

LEMMA AnnounceMove ==
    ASSUME SimInv, SimulationTypeOK', NEW w \in Workers, Calls(w),
           account' = account, month' = month, req' = req,
           NEW status \in Status, Announce(w, status), job[w].sid \in SimIds
    PROVE  SimInv'
  <1> DEFINE new == [NoJob EXCEPT !.at = "status_read", !.sid = job[w].sid,
                                  !.next = status]
  <1>1. new \in JobType /\ Works(new, call'[w])
    BY EmptyTrail DEF NoJob, JobType, JobStages, Works
  <1>2. job' = [job EXCEPT ![w] = new]
    BY DEF Announce
  <1> HIDE DEF new
  <1> QED
    BY <1>1, <1>2, JobMove

\* what a job needs at each stage it may turn to
Suits(j, stage) ==
    /\ stage \in JobStages
    /\ j.sid \in SimIds
    /\ stage \notin {"results", "overage"}
    /\ stage \in {"reconcile", "partial", "cost_save"} => j.actual \in Nat
    /\ stage \in {"partial", "cost_save", "refund_save", "refund"} => j.record \in CostRecord
    /\ stage = "partial" => j.actual > j.record.estimated_tokens

LEMMA TurnMove ==
    ASSUME SimInv, SimulationTypeOK', NEW w \in Workers, Calls(w),
           account' = account, month' = month, req' = req,
           NEW stage, Turn(w, stage), Suits(job[w], stage),
           stage = "partial" => call'[w].op.name = "debit"
    PROVE  SimInv'
  <1> DEFINE new == [job[w] EXCEPT !.at = stage]
  <1>1. job[w] \in JobType /\ job \in [Workers -> JobType]
    BY WorkerFacts
  <1>2. new \in JobType
    BY <1>1 DEF JobType, Suits
  <1>3. Works(new, call'[w])
    BY <1>1 DEF JobType, Works, Suits
  <1>4. job' = [job EXCEPT ![w] = new]
    BY <1>1 DEF Turn
  <1> HIDE DEF new
  <1> QED
    BY <1>2, <1>3, <1>4, JobMove

LEMMA DeliverKeepsTypes ==
    ASSUME SimInv, NEW w \in Workers, NEW s \in SimIds, Deliver(w, s), req' = req
    PROVE  SimInv'
  <1> DEFINE new == [NoJob EXCEPT !.at = "config", !.sid = s]
  <1>1. job \in [Workers -> JobType]
    BY WorkerFacts
  <1>2. new \in JobType /\ Works(new, call'[w])
    BY EmptyTrail DEF NoJob, JobType, JobStages, Works, Status
  <1>3. job' = [job EXCEPT ![w] = new]
    <2>1. job[w] = NoJob /\ job' = [job EXCEPT ![w].at = "config", ![w].sid = s]
      BY DEF Deliver
    <2> QED
      BY <1>1, <2>1 DEF NoJob
  <1>4. SimulationTypeOK'
    BY DEF Deliver, SimInv, SimulationTypeOK, blobs
  <1>5. Calls(w) /\ account' = account /\ month' = month
    BY DEF Deliver, Calls, storeVars
  <1> HIDE DEF new
  <1> QED
    BY <1>2, <1>3, <1>4, <1>5, JobMove

LEMMA RunStepKeepsTypes ==
    ASSUME SimInv, NEW w \in Workers, req' = req,
           ReadConfig(w) \/ ReadStatus(w) \/ WriteStatus(w) \/ Simulate(w)
              \/ SaveResults(w) \/ Ack(w)
    PROVE  SimInv'
  <1>1. /\ job \in [Workers -> JobType]
        /\ job[w] \in JobType /\ Works(job[w], call[w])
        /\ job[w].at # "idle" => job[w].sid \in SimIds
    BY WorkerFacts
  <1>2. CASE ReadConfig(w)
    <2>1. SimulationTypeOK' /\ Calls(w) /\ account' = account /\ month' = month
      BY <1>2, BlobsStay DEF ReadConfig, Calls, storeVars
    <2>2. job[w].sid \in SimIds /\ "running" \in Status /\ Suits(job[w], "fail_cost")
      BY <1>1, <1>2 DEF ReadConfig, On, Status, Suits, JobStages
    <2> QED
      BY <1>2, <2>1, <2>2, TurnMove, AnnounceMove DEF ReadConfig
  <1>3. CASE ReadStatus(w)
    <2> DEFINE events == RecordToAppendTo(job[w].sid)
               new == [job[w] EXCEPT !.at = "status_write", !.events = events]
    <2>1. SimulationTypeOK' /\ Calls(w) /\ account' = account /\ month' = month
      BY <1>3, BlobsStay DEF ReadStatus, Calls, storeVars
    <2>2. job[w].sid \in SimIds
      BY <1>1, <1>3 DEF ReadStatus, On
    <2>3. events \in Seq(Status)
      BY <2>2, TrailType
    <2> HIDE DEF events
    <2>4. new \in JobType /\ Works(new, call'[w])
      BY <1>1, <2>2, <2>3 DEF JobType, JobStages, Works
    <2>5. job' = [job EXCEPT ![w] = new]
      BY <1>1, <1>3 DEF ReadStatus, events
    <2> HIDE DEF new
    <2> QED
      BY <2>1, <2>4, <2>5, JobMove
  <1>4. CASE WriteStatus(w)
    <2> DEFINE longer == Append(job[w].events, job[w].next)
               stage == IF job[w].next = "running" THEN "simulate" ELSE "ack"
               new == [job[w] EXCEPT !.at = stage, !.events = << >>]
    <2>1. Calls(w) /\ account' = account /\ month' = month
      BY <1>4 DEF WriteStatus, Calls, storeVars
    <2>2. job[w].sid \in SimIds /\ job[w].events \in Seq(Status) /\ job[w].next \in Status
      BY <1>1, <1>4 DEF WriteStatus, On, JobType
    <2>3. longer \in Seq(Status) /\ longer # << >>
      BY <2>2, AppendType
    <2>4. trail' = [trail EXCEPT ![job[w].sid] = longer]
      BY <1>4 DEF WriteStatus
    <2> HIDE DEF longer
    <2>5. SimulationTypeOK'
      BY <1>4, <2>2, <2>3, <2>4 DEF WriteStatus, SimInv, SimulationTypeOK
    <2>6. stage \in {"simulate", "ack"}
      OBVIOUS
    <2>7. job' = [job EXCEPT ![w] = new]
      BY <1>1, <1>4 DEF WriteStatus
    <2> HIDE DEF stage
    <2>8. new \in JobType /\ Works(new, call'[w])
      BY <1>1, <2>2, <2>6, EmptyTrail DEF JobType, JobStages, Works
    <2> HIDE DEF new
    <2> QED
      BY <2>1, <2>5, <2>7, <2>8, JobMove
  <1>5. CASE Simulate(w)
    <2>1. SimulationTypeOK' /\ Calls(w) /\ account' = account /\ month' = month
      BY <1>5, BlobsStay DEF Simulate, Calls, storeVars
    <2>2. job[w].sid \in SimIds /\ Suits(job[w], "fail_cost")
      BY <1>1, <1>5 DEF Simulate, On, Suits, JobStages
    <2>3. ASSUME NEW a \in Actuals,
                 job' = [job EXCEPT ![w].at = "results", ![w].actual = a]
          PROVE  SimInv'
      <3> DEFINE new == [job[w] EXCEPT !.at = "results", !.actual = a]
      <3>1. new \in JobType /\ Works(new, call'[w])
        BY <1>1, <2>2, ActualsAssumption DEF JobType, JobStages, Works
      <3>2. job' = [job EXCEPT ![w] = new]
        BY <1>1, <2>3
      <3> HIDE DEF new
      <3> QED
        BY <2>1, <3>1, <3>2, JobMove
    <2> QED
      BY <1>5, <2>1, <2>2, <2>3, TurnMove DEF Simulate
  <1>6. CASE SaveResults(w)
    <2>1. Calls(w) /\ account' = account /\ month' = month
      BY <1>6 DEF SaveResults, Calls, storeVars
    <2>2. job[w].sid \in SimIds /\ Suits(job[w], "reconcile")
      BY <1>1, <1>6 DEF SaveResults, On, Suits, JobStages, Works
    <2>3. SimulationTypeOK'
      BY <1>6, <2>2 DEF SaveResults, SimInv, SimulationTypeOK
    <2> QED
      BY <1>6, <2>1, <2>2, <2>3, TurnMove DEF SaveResults
  <1>7. CASE Ack(w)
    <2>1. SimulationTypeOK' /\ Calls(w) /\ account' = account /\ month' = month
      BY <1>7, BlobsStay DEF Ack, Calls, storeVars
    <2>2. job' = [job EXCEPT ![w] = NoJob]
      BY <1>7 DEF Ack
    <2> QED
      BY <2>1, <2>2, NoJobIsType, JobMove
  <1> QED
    BY <1>2, <1>3, <1>4, <1>5, <1>6, <1>7

\* what a rejected debit left of the cap, and what a debit asked for
LEMMA DebitFacts ==
    ASSUME SimInv, NEW w \in Workers
    PROVE  /\ call[w].at = "rejected" => Remaining(w) \in Nat
           /\ call[w].op.name = "debit" => call[w].op.tokens \in Nat
  <1>1. call[w] \in CallType /\ w \in Clients
    BY WorkerFacts
  <1>2. ASSUME call[w].at = "rejected"
        PROVE  Remaining(w) \in Nat
    <2>1. call[w].doc \in Account /\ ~CanAfford(call[w].doc, call[w].op.tokens)
      BY <1>1, <1>2 DEF SimInv, StoreInv, TypeOK, Rejections
    <2>2. /\ call[w].doc.monthly_token_limit \in Nat
          /\ call[w].doc.tokens_used \in Nat
          /\ call[w].doc.monthly_token_limit # Unlimited
      BY <2>1 DEF Account, Caps, CanAfford
    <2> QED
      BY <2>2 DEF Remaining, TokensRemaining, FlooredAtZero
  <1>3. ASSUME call[w].op.name = "debit"
        PROVE  call[w].op.tokens \in Nat
    BY <1>1, <1>3 DEF CallType, Operation
  <1> QED
    BY <1>2, <1>3

LEMMA ChargedMove ==
    ASSUME SimInv, SimulationTypeOK', NEW w \in Workers, Calls(w),
           account' = account, month' = month, req' = req,
           NEW tokens \in Nat, Charged(w, tokens),
           job[w].sid \in SimIds, job[w].actual \in Nat, job[w].record \in CostRecord
    PROVE  SimInv'
  <1> DEFINE record == [job[w].record EXCEPT !.tokens_charged = @ + tokens]
             new == [job[w] EXCEPT !.at = "cost_save", !.record = record]
  <1>1. job[w] \in JobType /\ job \in [Workers -> JobType]
    BY WorkerFacts
  <1>2. record \in CostRecord
    BY DEF CostRecord
  <1>3. job' = [job EXCEPT ![w] = new]
    BY <1>1 DEF Charged, JobType
  <1> HIDE DEF record
  <1>4. new \in JobType /\ Works(new, call'[w])
    BY <1>1, <1>2 DEF JobType, JobStages, Works
  <1> HIDE DEF new
  <1> QED
    BY <1>3, <1>4, JobMove

LEMMA ReconcileKeepsTypes ==
    ASSUME SimInv, NEW w \in Workers, req' = req, Reconcile(w)
    PROVE  SimInv'
  <1> DEFINE record == cost[job[w].sid]
             delta == job[w].actual - record.estimated_tokens
             stage == IF delta > 0 THEN "overage" ELSE "cost_save"
             new == [job[w] EXCEPT !.at = stage, !.record = record]
  <1>1. /\ job \in [Workers -> JobType]
        /\ job[w] \in JobType /\ w \in Clients /\ call[w] \in CallType
        /\ job[w].sid \in SimIds /\ job[w].actual \in Nat
    BY WorkerFacts DEF Reconcile, On, Works
  <1>2. SimulationTypeOK' /\ account' = account /\ month' = month
    BY BlobsStay DEF Reconcile
  <1>3. ASSUME Announce(w, "done"), call' = call
        PROVE  SimInv'
    <2>1. "done" \in Status /\ Calls(w)
      BY <1>3 DEF Status, Calls
    <2> QED
      BY <1>1, <1>2, <1>3, <2>1, AnnounceMove
  <1>4. ASSUME record # Absent,
               job' = [job EXCEPT ![w].at = stage, ![w].record = record],
               IF delta > 0 THEN Invoke(w, Debit(delta)) ELSE call' = call
        PROVE  SimInv'
    <2>1. record \in CostRecord
      BY <1>1, <1>4 DEF SimInv, SimulationTypeOK
    <2>2. record.estimated_tokens \in Nat
      BY <2>1 DEF CostRecord
    <2>3. job' = [job EXCEPT ![w] = new]
      BY <1>1, <1>4 DEF JobType
    <2>4. new \in JobType
      BY <1>1, <2>1 DEF JobType, JobStages
    <2>5. Works(new, call'[w]) /\ Calls(w)
      <3>1. CASE delta > 0
        <4>1. delta \in Nat
          BY <1>1, <2>2, <3>1
        <4>2. call'[w].op.name = "debit"
          BY <1>1, <1>4, <3>1, WorkerFacts
          DEF Invoke, Begun, Debit, SimInv, StoreInv, TypeOK
        <4>3. new.at = "overage" /\ new.actual > new.record.estimated_tokens
              /\ new.actual \in Nat /\ new.record \in CostRecord /\ new.sid \in SimIds
          BY <1>1, <2>1, <2>2, <3>1 DEF JobType
        <4>4. Debit(delta) \in Operation
          BY <4>1, OperationFacts
        <4>5. Calls(w)
          BY <1>4, <3>1, <4>4 DEF Calls
        <4> HIDE DEF new
        <4> QED
          BY <4>2, <4>3, <4>5 DEF Works
      <3>2. CASE ~(delta > 0)
        <4>1. new.at = "cost_save" /\ new.actual \in Nat
              /\ new.record \in CostRecord /\ new.sid \in SimIds
          BY <1>1, <2>1, <3>2 DEF JobType
        <4>2. Calls(w)
          BY <1>4, <3>2 DEF Calls
        <4> HIDE DEF new
        <4> QED
          BY <4>1, <4>2 DEF Works
      <3> QED
        BY <3>1, <3>2
    <2> HIDE DEF new
    <2> QED
      BY <1>2, <2>3, <2>4, <2>5, JobMove
  <1> QED
    BY <1>3, <1>4 DEF Reconcile

LEMMA ChargeKeepsTypes ==
    ASSUME SimInv, NEW w \in Workers, req' = req,
           Overage(w) \/ Partial(w) \/ SaveCost(w)
    PROVE  SimInv'
  <1>1. /\ job \in [Workers -> JobType]
        /\ job[w] \in JobType /\ w \in Clients /\ call[w] \in CallType
        /\ job[w].sid \in SimIds /\ job[w].actual \in Nat /\ job[w].record \in CostRecord
    BY WorkerFacts DEF Overage, Partial, SaveCost, On, Works
  <1>2. "done" \in Status
    BY DEF Status
  <1>3. job[w].record.estimated_tokens \in Nat
    BY <1>1 DEF CostRecord
  <1>4. CASE Overage(w)
    <2> DEFINE delta == job[w].actual - job[w].record.estimated_tokens
    <2>1. SimulationTypeOK' /\ account' = account /\ month' = month
      BY <1>4, BlobsStay DEF Overage
    <2>2. job[w].actual > job[w].record.estimated_tokens
      BY <1>4, WorkerFacts DEF Overage, On, Works
    <2>3. delta \in Nat
      BY <1>1, <1>3, <2>2
    <2>4. CASE Charged(w, delta) /\ Forget(w)
      BY <1>1, <2>1, <2>3, <2>4, ChargedMove DEF Calls
    <2>5. CASE call[w].at = "rejected" /\ Turn(w, "partial") /\ Invoke(w, Debit(Remaining(w)))
      <3>1. Debit(Remaining(w)) \in Operation
        BY <2>5, DebitFacts, OperationFacts
      <3>2. Calls(w)
        BY <2>5, <3>1 DEF Calls
      <3>3. call'[w].op.name = "debit"
        BY <1>1, <2>5 DEF Invoke, Begun, Debit, SimInv, StoreInv, TypeOK
      <3>4. Suits(job[w], "partial")
        BY <1>1, <2>2 DEF Suits, JobStages
      <3> QED
        BY <2>1, <2>5, <3>2, <3>3, <3>4, TurnMove
    <2>6. CASE Turn(w, "cost_save") /\ Forget(w)
      <3>1. Suits(job[w], "cost_save")
        BY <1>1 DEF Suits, JobStages
      <3> QED
        BY <2>1, <2>6, <3>1, TurnMove DEF Calls
    <2>7. CASE Announce(w, "done") /\ Forget(w)
      BY <1>1, <1>2, <2>1, <2>7, AnnounceMove DEF Calls
    <2> QED
      BY <1>4, <2>4, <2>5, <2>6, <2>7 DEF Overage
  <1>5. CASE Partial(w)
    <2>1. SimulationTypeOK' /\ account' = account /\ month' = month /\ Forget(w)
      BY <1>5, BlobsStay DEF Partial
    <2>2. call[w].op.tokens \in Nat
      BY <1>5, WorkerFacts, DebitFacts DEF Partial, On, Works
    <2>3. CASE Charged(w, call[w].op.tokens)
      BY <1>1, <2>1, <2>2, <2>3, ChargedMove DEF Calls
    <2>4. CASE Announce(w, "done")
      BY <1>1, <1>2, <2>1, <2>4, AnnounceMove DEF Calls
    <2> QED
      BY <1>5, <2>3, <2>4 DEF Partial
  <1>6. CASE SaveCost(w)
    <2> DEFINE record == [job[w].record EXCEPT !.actual_tokens = job[w].actual]
    <2>1. record \in CostRecord
      BY <1>1 DEF CostRecord
    <2>2. cost' = [cost EXCEPT ![job[w].sid] = record]
      BY <1>6 DEF SaveCost
    <2> HIDE DEF record
    <2>3. SimulationTypeOK'
      BY <1>1, <1>6, <2>1, <2>2 DEF SaveCost, SimInv, SimulationTypeOK
    <2>4. Calls(w) /\ account' = account /\ month' = month
      BY <1>6 DEF SaveCost, Calls, storeVars
    <2> QED
      BY <1>1, <1>2, <1>6, <2>3, <2>4, AnnounceMove DEF SaveCost
  <1> QED
    BY <1>4, <1>5, <1>6

LEMMA FailKeepsTypes ==
    ASSUME SimInv, NEW w \in Workers, req' = req,
           FailCost(w) \/ Refunded(w) \/ SaveRefund(w)
    PROVE  SimInv'
  <1>1. /\ job \in [Workers -> JobType]
        /\ job[w] \in JobType /\ w \in Clients
        /\ job[w].sid \in SimIds
        /\ job[w].at \in {"refund", "refund_save"} => job[w].record \in CostRecord
    BY WorkerFacts DEF FailCost, Refunded, SaveRefund, On, Works
  <1>2. "failed" \in Status
    BY DEF Status
  <1>3. CASE FailCost(w)
    <2> DEFINE record == cost[job[w].sid]
               new == [job[w] EXCEPT !.at = "refund", !.record = record]
    <2>1. SimulationTypeOK' /\ account' = account /\ month' = month
      BY <1>3, BlobsStay DEF FailCost
    <2>2. CASE Announce(w, "failed") /\ call' = call
      BY <1>1, <1>2, <2>1, <2>2, AnnounceMove DEF Calls
    <2>3. CASE /\ record # Absent
               /\ job' = [job EXCEPT ![w].at = "refund", ![w].record = record]
               /\ Invoke(w, Credit(record.tokens_charged))
      <3>1. record \in CostRecord
        BY <1>1, <2>3 DEF SimInv, SimulationTypeOK
      <3>2. Credit(record.tokens_charged) \in Operation
        BY <3>1, OperationFacts DEF CostRecord
      <3>3. Calls(w)
        BY <2>3, <3>2 DEF Calls
      <3>4. job' = [job EXCEPT ![w] = new]
        BY <1>1, <2>3 DEF JobType
      <3> HIDE DEF record
      <3>5. new \in JobType /\ Works(new, call'[w])
        BY <1>1, <3>1 DEF JobType, JobStages, Works
      <3> HIDE DEF new
      <3> QED
        BY <2>1, <3>3, <3>4, <3>5, JobMove
    <2> QED
      BY <1>3, <2>2, <2>3 DEF FailCost, RefundDue
  <1>4. CASE Refunded(w)
    <2>1. SimulationTypeOK' /\ account' = account /\ month' = month /\ Calls(w)
      BY <1>4, BlobsStay DEF Refunded, Calls
    <2>2. Suits(job[w], "refund_save")
      BY <1>1, <1>4 DEF Refunded, On, Suits, JobStages
    <2> QED
      BY <1>1, <1>2, <1>4, <2>1, <2>2, AnnounceMove, TurnMove DEF Refunded
  <1>5. CASE SaveRefund(w)
    <2> DEFINE record == [job[w].record EXCEPT !.refunded = TRUE]
    <2>1. record \in CostRecord
      BY <1>1, <1>5 DEF SaveRefund, On, CostRecord
    <2>2. cost' = [cost EXCEPT ![job[w].sid] = record]
      BY <1>5 DEF SaveRefund
    <2> HIDE DEF record
    <2>3. SimulationTypeOK'
      BY <1>1, <1>5, <2>1, <2>2 DEF SaveRefund, SimInv, SimulationTypeOK
    <2>4. Calls(w) /\ account' = account /\ month' = month
      BY <1>5 DEF SaveRefund, Calls, storeVars
    <2> QED
      BY <1>1, <1>2, <1>5, <2>3, <2>4, AnnounceMove DEF SaveRefund
  <1> QED
    BY <1>3, <1>4, <1>5
-----------------------------------------------------------------------------
(***************************************************************************)
(* The steps of the repository calls, the faults, and the clock.           *)
(***************************************************************************)
\* a call takes a step: it is still the same operation
LEMMA AdvanceMove ==
    ASSUME SimInv, UNCHANGED <<simVars, req, job>>, StoreInv',
           NEW c \in Clients, NEW stage, NEW doc, Advance(c, stage, doc),
           stage = "rejected" =>
              /\ call[c].op.name = "debit"
              /\ ~CanAfford(doc, call[c].op.tokens)
    PROVE  SimInv'
  <1> DEFINE new == [at |-> stage, op |-> call[c].op, doc |-> doc]
  <1>1. /\ call' = [call EXCEPT ![c] = new]
        /\ call \in [Clients -> CallType]
    BY DEF Advance, SimInv, StoreInv, TypeOK
  <1>2. new.at = stage /\ new.op = call[c].op /\ new.doc = doc
    OBVIOUS
  <1> HIDE DEF new
  <1>3. Rejections'
    BY <1>1, <1>2 DEF SimInv, Rejections
  <1>4. \A d \in Clients : call'[d].op = call[d].op
    BY <1>1, <1>2
  <1>5. WorkersOK'
    BY <1>4, CallerFacts DEF SimInv, WorkersOK, Works
  <1>6. RequestsOK'
    BY DEF SimInv, RequestsOK
  <1>7. SimulationTypeOK'
    BY BlobsStay
  <1> QED
    BY <1>3, <1>5, <1>6, <1>7 DEF SimInv

LEMMA AfterGetRejects ==
    ASSUME NEW op, NEW doc, AfterGet(op, doc) = "rejected"
    PROVE  op.name = "debit" /\ ~CanAfford(doc, op.tokens)
  BY DEF AfterGet

LEMMA AccountKeepsTypes ==
    ASSUME SimInv, NEW c \in Clients, Read(c) \/ Seed(c) \/ Write(c),
           UNCHANGED <<simVars, req, job>>
    PROVE  SimInv'
  <1>1. CASE Read(c)
    <2>1. StoreInv'
      BY <1>1, StoreRead DEF SimInv
    <2>2. ASSUME NEW doc, Advance(c, "seed", doc)
          PROVE  SimInv'
      BY <2>1, <2>2, AdvanceMove
    <2>3. CASE Advance(c, AfterGet(call[c].op, account), account)
      BY <2>1, <2>3, AfterGetRejects, AdvanceMove
    <2> QED
      BY <1>1, <2>2, <2>3 DEF Read
  <1>2. CASE Seed(c)
    <2>1. StoreInv' /\ Advance(c, AfterGet(call[c].op, call[c].doc), call[c].doc)
      BY <1>2, StoreSeed DEF SimInv, Seed
    <2> QED
      BY <2>1, AfterGetRejects, AdvanceMove
  <1>3. CASE Write(c)
    <2>1. StoreInv' /\ Advance(c, "returned", call[c].doc)
      BY <1>3, StoreWrite DEF SimInv, Write
    <2> QED
      BY <2>1, AdvanceMove
  <1> QED
    BY <1>1, <1>2, <1>3

LEMMA FaultKeepsTypes ==
    ASSUME SimInv, NEW w \in Workers, req' = req,
           Crash(w) \/ Redeliver(w) \/ StorageRaises(w)
    PROVE  SimInv'
  <1>1. /\ w \in Clients /\ job[w] \in JobType /\ call[w] \in CallType
        /\ job[w] # NoJob => job[w].sid \in SimIds
        /\ job[w].at # "idle" => job[w].sid \in SimIds
    BY WorkerFacts DEF Works
  <1>2. CASE Crash(w)
    <2>1. Calls(w) /\ account' = account /\ month' = month /\ job' = [job EXCEPT ![w] = NoJob]
      BY <1>2 DEF Crash, Calls
    <2>2. SimulationTypeOK'
      BY <1>1, <1>2, PublishType DEF Crash, SimInv
    <2> QED
      BY <2>1, <2>2, NoJobIsType, JobMove
  <1>3. CASE Redeliver(w)
    <2>1. SimulationTypeOK'
      BY <1>1, <1>3, PublishType DEF Redeliver, SimInv
    <2>2. UNCHANGED storeVars /\ job' = job
      BY <1>3 DEF Redeliver
    <2>3. StoreInv'
      BY <2>2, StoreStutter DEF SimInv
    <2> QED
      BY <2>1, <2>2, <2>3
      DEF SimInv, storeVars, Rejections, RequestsOK, WorkersOK
  <1>4. CASE StorageRaises(w)
    <2>1. SimulationTypeOK' /\ account' = account /\ month' = month
      BY <1>4, BlobsStay DEF StorageRaises
    <2>2. CASE /\ job[w].at \in {"config", "results"}
               /\ Turn(w, "fail_cost")
               /\ call' = call
      <3>1. Suits(job[w], "fail_cost")
        BY <1>1, <2>2 DEF Suits, JobStages
      <3> QED
        BY <2>1, <2>2, <3>1, TurnMove DEF Calls
    <2>3. ASSUME NEW status \in {"done", "failed"}, Announce(w, status), call' = call,
                 job[w].at # "idle"
          PROVE  SimInv'
      <3>1. status \in Status /\ job[w].sid \in SimIds
        BY <1>1, <2>3 DEF Status
      <3> QED
        BY <2>1, <2>3, <3>1, AnnounceMove DEF Calls
    <2>4. CASE call[w].at \in {"read", "seed", "write"} /\ Advance(w, "raised", call[w].doc)
                  /\ job' = job
      <3> DEFINE new == [at |-> "raised", op |-> call[w].op, doc |-> call[w].doc]
      <3>1. new \in CallType /\ new.at = "raised"
        BY <1>1 DEF CallType, Stages
      <3>2. call' = [call EXCEPT ![w] = new]
        BY <2>4 DEF Advance
      <3> HIDE DEF new
      <3>3. StoreInv'
        BY <1>1, <2>1, <3>1, <3>2, StoreMove DEF SimInv, StoreInv, TypeOK
      <3>4. UNCHANGED simVars
        BY <1>4 DEF StorageRaises
      <3> QED
        BY <1>1, <2>4, <3>3, <3>4, AdvanceMove
    <2> QED
      BY <1>4, <2>2, <2>3, <2>4 DEF StorageRaises
  <1> QED
    BY <1>2, <1>3, <1>4

LEMMA PushKeepsTypes ==
    ASSUME SimInv, NEW w \in Workers, PushStep(w)
    PROVE  SimInv'
  <1>1. req' = req
    BY DEF PushStep, apiVars
  <1> QED
    BY <1>1, DeliverKeepsTypes, RunStepKeepsTypes, ReconcileKeepsTypes, ChargeKeepsTypes,
       FailKeepsTypes, FaultKeepsTypes
    DEF PushStep, WorkerStep

LEMMA ClockKeepsTypes ==
    ASSUME SimInv, Tick, UNCHANGED <<simVars, req, job>>
    PROVE  SimInv'
  <1>1. StoreInv' /\ call' = call
    BY StoreTick DEF SimInv, Tick
  <1>2. SimulationTypeOK'
    BY BlobsStay
  <1> QED
    BY <1>1, <1>2 DEF SimInv, Rejections, RequestsOK, WorkersOK

LEMMA StutterKeepsTypes ==
    ASSUME SimInv, UNCHANGED vars
    PROVE  SimInv'
  <1>1. StoreInv'
    BY StoreStutter DEF SimInv, vars
  <1>2. SimulationTypeOK'
    BY BlobsStay DEF vars
  <1> QED
    BY <1>1, <1>2
    DEF SimInv, vars, storeVars, apiVars, workerVars, Rejections, RequestsOK, WorkersOK

LEMMA InitHasTypes == Init => SimInv
  <1> SUFFICES ASSUME Init
               PROVE  SimInv
    OBVIOUS
  <1>1. StoreInv /\ Rejections
    <2>1. call = [c \in Clients |-> NoCall]
      BY DEF Init, InitStore
    <2>2. NoCall.at = "idle"
      BY NoCallType
    <2> HIDE DEF NoCall
    <2> QED
      BY <2>1, <2>2, StoreInit DEF Init, Rejections
  <1>2. SimulationTypeOK
    <2>1. Absent # << >>
      BY AbsentIsNoBlob, EmptyTrail
    <2> QED
      BY <2>1 DEF Init, InitSimulations, SimulationTypeOK
  <1>3. RequestsOK
    <2>1. req = [r \in Requests |-> NoRequest]
      BY DEF Init, InitApi
    <2> HIDE DEF NoRequest
    <2> QED
      BY <2>1, NoRequestIsType DEF RequestsOK
  <1>4. WorkersOK
    <2>1. job = [w \in Workers |-> NoJob]
      BY DEF Init, InitWorkers
    <2> HIDE DEF NoJob
    <2> QED
      BY <2>1, NoJobIsType DEF WorkersOK
  <1> QED
    BY <1>1, <1>2, <1>3, <1>4 DEF SimInv

LEMMA NextKeepsTypes ==
    ASSUME SimInv, [Next]_vars
    PROVE  SimInv'
  <1>1. ASSUME NEW c \in Clients, AccountStep(c)
        PROVE  SimInv'
    BY <1>1, AccountKeepsTypes DEF AccountStep, apiVars, workerVars
  <1>2. ASSUME NEW r \in Requests, ApiStep(r)
        PROVE  SimInv'
    <2>1. job' = job
      BY <1>2 DEF ApiStep, workerVars
    <2> QED
      BY <1>2, <2>1, StartKeepsTypes, RequestKeepsTypes DEF ApiStep
  <1>3. CASE ClockStep
    BY <1>3, ClockKeepsTypes DEF ClockStep, apiVars, workerVars
  <1>4. CASE AtRest \/ UNCHANGED vars
    BY <1>4, StutterKeepsTypes DEF AtRest
  <1> QED
    BY <1>1, <1>2, <1>3, <1>4, PushKeepsTypes DEF Next

(***************************************************************************)
(* What is stored, and what requests and workers remember of it, always    *)
(* has its type: in particular no counter, charge or message count is ever *)
(* negative, and a status trail is never stored empty.                     *)
(***************************************************************************)
THEOREM LifecycleTypesHold == Spec => []LifecycleTypeOK
  <1>1. SimInv /\ [Next]_vars => SimInv'
    BY NextKeepsTypes
  <1>2. SimInv => LifecycleTypeOK
    <2> SUFFICES ASSUME SimInv
                 PROVE  LifecycleTypeOK
      OBVIOUS
    <2>1. TypeOK /\ SimulationTypeOK
      BY DEF SimInv, StoreInv
    <2>2. \A r \in Requests : req[r] \in ReqType
      BY DEF SimInv, RequestsOK
    <2>3. \A w \in Workers : job[w] \in JobType
      BY DEF SimInv, WorkersOK
    <2> QED
      BY <2>1, <2>2, <2>3 DEF LifecycleTypeOK, ReqType, JobType
  <1> QED
    BY InitHasTypes, <1>1, <1>2, PTL DEF Spec
==============================================================================
