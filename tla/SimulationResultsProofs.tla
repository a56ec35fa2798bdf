----------------------- MODULE SimulationResultsProofs -----------------------
(***************************************************************************)
(* A run that is listed as done has its results, whatever deletes, reruns, *)
(* duplicate deliveries and crashes there are, for any number of them      *)
(* (DoneHasResults of SimulationLifecycle).                                *)
(*                                                                         *)
(* Why it holds: run.py stores the results before it announces "done", so  *)
(* they can only be missing because a prefix delete took them.  The delete *)
(* takes config.json first, and config.json never comes back: only a       *)
(* submission writes it, once, for an id that nothing else knows yet.      *)
(*                                                                         *)
(* The second half is about the life of a simulation when its user waits   *)
(* for every answer: one active simulation, runs that are done are paid,   *)
(* and trails that tell what happened (OneActive, DoneRunsArePaid and      *)
(* TrailTellsLifecycle of SimulationLifecycle).                            *)
(*                                                                         *)
(* The last part keeps that user's books: the account's counter against    *)
(* what the cost records say was charged and refunded (LedgerExact,        *)
(* ThisMonthsChargesCounted and FailedRunsRefundedInTime).                 *)
(***************************************************************************)
EXTENDS SimulationLifecycleProofs, FiniteSetTheorems, WellFoundedInduction

\* request q is a submission that has stored nothing yet
Creating(q) == q.at \in {"create_account", "create_debit"}

Deleting(q) == q.at \in {"delete_list", "wipe_account", "delete_next"}

\* nothing has been stored for simulation s
Unbegun(s) ==
    s \notin issued \/ \E r \in Requests : Creating(req[r]) /\ req[r].sid = s

\* request q does nothing to simulation s, but to submit it
Spares(q, s) ==
    /\ q.at \in Submitting /\ ~Creating(q) => q.sid # s
    /\ ~Deleting(q) => s \notin q.sids
    /\ \A b \in BlobNames : <<s, b>> \notin q.doomed

NoBlobs(s) ==
    /\ config[s] = Absent /\ trail[s] = Absent /\ cost[s] = Absent /\ ~results[s]
    /\ queue[s] = 0

Untouched(s) ==
    /\ NoBlobs(s)
    /\ \A r \in Requests : Spares(req[r], s)
    /\ \A w \in Workers : job[w].sid # s

Issuing ==
    /\ \A r \in Requests : Creating(req[r]) => req[r].sid \in issued
    /\ \A r, q \in Requests :
          Creating(req[r]) /\ Creating(req[q]) /\ req[r].sid = req[q].sid => r = q

FreshInv ==
    /\ SimInv
    /\ Issuing
    /\ \A s \in SimIds : Unbegun(s) => Untouched(s)

\* the results of a simulation are not deleted before its configuration is gone
Ordered(q) ==
    \A s \in SimIds :
        <<s, "results.json">> \in q.doomed =>
            config[s] = Absent \/ <<s, "config.json">> \in q.doomed

\* job j is past the results, and has not failed
Concluding(j) ==
    \/ j.at \in {"reconcile", "overage", "partial", "cost_save"}
    \/ j.at \in {"status_read", "status_write"} /\ j.next = "done"

HasResults(s) == results[s] \/ config[s] = Absent

ResultsInv ==
    /\ FreshInv
    /\ \A r \in Requests : Ordered(req[r])
    /\ \A w \in Workers : Concluding(job[w]) => HasResults(job[w].sid)
    /\ \A s \in SimIds : trail[s] # Absent /\ StatusOf(s) = "done" => HasResults(s)
-----------------------------------------------------------------------------
(***************************************************************************)
(* A simulation that nothing has been stored for is touched by nobody but  *)
(* the request that submits it.                                            *)
(***************************************************************************)
LEMMA NoIdIsAbsent == Absent \notin SimIds
  BY AbsentIsNoBlob, SimIdsAssumption

LEMMA NoRequestSpares == ~Creating(NoRequest) /\ \A s : Spares(NoRequest, s)
  BY DEF NoRequest, Creating, Spares, Submitting, Billing

\* a step of one request
LEMMA FreshRequest ==
    ASSUME FreshInv, SimInv', NEW r \in Requests, job' = job, issued' = issued,
           NEW new \in ReqType, req' = [req EXCEPT ![r] = new],
           Creating(new) => Creating(req[r]) /\ new.sid = req[r].sid,
           \A s \in SimIds : Unbegun(s)' /\ Untouched(s) => NoBlobs(s)' /\ Spares(new, s)
    PROVE  FreshInv'
  <1>1. /\ req'[r] = new
        /\ \A q \in Requests : q # r => req'[q] = req[q]
    BY DEF FreshInv, SimInv, RequestsOK
  <1>2. Issuing'
    BY <1>1 DEF FreshInv, Issuing
  <1>3. ASSUME NEW s \in SimIds, Unbegun(s)'
        PROVE  Untouched(s)'
    <2>1. Unbegun(s)
      BY <1>1, <1>3 DEF Unbegun
    <2>2. Untouched(s)
      BY <2>1 DEF FreshInv
    <2>3. NoBlobs(s)' /\ Spares(new, s)
      BY <1>3, <2>2
    <2> QED
      BY <1>1, <2>2, <2>3 DEF Untouched
  <1> QED
    BY <1>2, <1>3 DEF FreshInv

\* a step of one request that stores nothing
LEMMA FreshQuiet ==
    ASSUME FreshInv, SimInv', NEW r \in Requests, job' = job, issued' = issued,
           UNCHANGED simVars,
           NEW new \in ReqType, req' = [req EXCEPT ![r] = new],
           Creating(new) => Creating(req[r]) /\ new.sid = req[r].sid,
           \A s \in SimIds : Untouched(s) => Spares(new, s)
    PROVE  FreshInv'
  <1>1. \A s \in SimIds : Untouched(s) => NoBlobs(s)'
    BY DEF simVars, Untouched, NoBlobs
  <1> QED
    BY <1>1, FreshRequest

LEMMA FreshEnd ==
    ASSUME FreshInv, SimInv', NEW r \in Requests, job' = job, issued' = issued,
           Finish(r), \A s \in SimIds : Untouched(s) => NoBlobs(s)'
    PROVE  FreshInv'
  <1>1. req' = [req EXCEPT ![r] = NoRequest]
    BY DEF Finish
  <1> QED
    BY <1>1, NoRequestIsType, NoRequestSpares, FreshRequest

\* only the next stage is new
LEMMA FreshGo ==
    ASSUME FreshInv, SimInv', NEW r \in Requests, job' = job, issued' = issued,
           NEW stage \in ReqStages, Go(r, stage),
           stage \in {"create_account", "create_debit"} => Creating(req[r]),
           stage \in Submitting => req[r].at \in Submitting,
           Deleting(req[r]) <=> stage \in {"delete_list", "wipe_account", "delete_next"},
           \A s \in SimIds : Unbegun(s)' /\ Untouched(s) =>
              /\ NoBlobs(s)'
              /\ stage \in Submitting /\ stage # "create_debit" => s # req[r].sid
    PROVE  FreshInv'
  <1> DEFINE new == [req[r] EXCEPT !.at = stage]
  <1>1. req[r] \in ReqType /\ req \in [Requests -> ReqType]
    BY RequestFacts DEF FreshInv
  <1>2. new \in ReqType /\ req' = [req EXCEPT ![r] = new]
    BY <1>1 DEF ReqType, Go
  <1>3. /\ new.at = stage /\ new.sid = req[r].sid /\ new.sids = req[r].sids
        /\ new.doomed = req[r].doomed
    BY <1>1 DEF ReqType
  <1> HIDE DEF new
  <1>4. ASSUME NEW s \in SimIds, Unbegun(s)', Untouched(s)
        PROVE  Spares(new, s)
    <2>1. Spares(req[r], s)
      BY <1>4 DEF Untouched
    <2> QED
      BY <1>3, <1>4, <2>1 DEF Spares, Deleting, Creating
  <1> QED
    BY <1>2, <1>3, <1>4, FreshRequest DEF Creating

LEMMA FreshStart ==
    ASSUME FreshInv, SimInv', NEW r \in Requests, RequestStart(r), job' = job
    PROVE  FreshInv'
  <1>1. req \in [Requests -> ReqType]
    BY RequestFacts DEF FreshInv
  <1>2. {} \in SUBSET (SimIds \X BlobNames) /\ {} \in SUBSET SimIds
    OBVIOUS
  <1>3. ASSUME NEW s \in SimIds, NEW e \in Estimates, CreateStart(r, s, e)
        PROVE  FreshInv'
    <2> DEFINE new == [NoRequest EXCEPT !.at = "create_account", !.kind = "create",
                                        !.sid = s, !.estimate = e, !.period = month]
    <2>1. new.at = "create_account" /\ new.sid = s /\ new.sids = {} /\ new.doomed = {}
      BY DEF NoRequest
    <2>2. /\ s \notin issued /\ issued' = issued \cup {s} /\ UNCHANGED simVars
          /\ req' = [req EXCEPT ![r] = new]
      BY <1>3 DEF CreateStart, Accept
    <2> HIDE DEF new
    <2>3. req'[r] = new /\ \A q \in Requests : q # r => req'[q] = req[q]
      BY <1>1, <2>2
    <2>4. Creating(new) /\ \A t : Spares(new, t)
      BY <2>1 DEF Creating, Spares
    <2>5. Issuing'
      BY <2>1, <2>2, <2>3, <2>4 DEF FreshInv, Issuing
    <2>6. ASSUME NEW t \in SimIds, Unbegun(t)'
          PROVE  Untouched(t)'
      <3>1. Unbegun(t)
        BY <2>1, <2>2, <2>3, <2>6 DEF Unbegun
      <3>2. Untouched(t)
        BY <3>1 DEF FreshInv
      <3> QED
        BY <2>2, <2>3, <2>4, <3>2 DEF Untouched, NoBlobs, simVars
    <2> QED
      BY <2>5, <2>6 DEF FreshInv
  <1>4. ASSUME NEW s \in SimIds, RetryStart(r, s)
        PROVE  FreshInv'
    <2> DEFINE new == [NoRequest EXCEPT !.at = "retry_checks", !.kind = "retry", !.sid = s]
    <2>1. /\ new \in ReqType /\ new.at = "retry_checks" /\ new.sid = s
          /\ new.sids = {} /\ new.doomed = {}
      BY <1>2, EmptyTrail DEF NoRequest, ReqType, ReqStages, ReqKinds
    <2>2. /\ trail[s] # Absent /\ issued' = issued /\ UNCHANGED simVars
          /\ req' = [req EXCEPT ![r] = new]
      BY <1>4 DEF RetryStart, Accept
    <2> HIDE DEF new
    <2>3. \A t \in SimIds : Untouched(t) => Spares(new, t)
      BY <2>1, <2>2 DEF Untouched, NoBlobs, Spares
    <2> QED
      BY <2>1, <2>2, <2>3, FreshQuiet DEF Creating
  <1>5. ASSUME NEW stage \in {"rerun_next", "delete_list", "view"}, NEW kind \in ReqKinds,
               NEW sids \in SUBSET SimIds,
               stage # "delete_list" => \A s \in SimIds : Untouched(s) => s \notin sids,
               Accept(r, kind, [NoRequest EXCEPT !.at = stage, !.kind = kind, !.sids = sids]),
               issued' = issued, UNCHANGED simVars
        PROVE  FreshInv'
    <2> DEFINE new == [NoRequest EXCEPT !.at = stage, !.kind = kind, !.sids = sids]
    <2>1. new \in ReqType /\ new.at = stage /\ new.sids = sids /\ new.doomed = {}
      BY <1>2, EmptyTrail DEF NoRequest, ReqType, ReqStages
    <2>2. req' = [req EXCEPT ![r] = new]
      BY <1>5 DEF Accept
    <2> HIDE DEF new
    <2>3. \A t \in SimIds : Untouched(t) => Spares(new, t)
      BY <1>5, <2>1 DEF Spares, Submitting, Billing, Deleting
    <2> QED
      BY <1>5, <2>1, <2>2, <2>3, FreshQuiet DEF Creating
  <1>6. CASE RerunStart(r)
    <2>1. SimulationPairs \in SUBSET SimIds
      BY DEF SimulationPairs
    <2>2. \A s \in SimIds : Untouched(s) => s \notin SimulationPairs
      BY DEF Untouched, NoBlobs, SimulationPairs, BlobsUnder, BlobExists, BlobNames
    <2> HIDE DEF SimulationPairs
    <2> QED
      BY <1>5, <1>6, <2>1, <2>2 DEF RerunStart, ReqKinds
  <1>7. ASSUME NEW s \in SimIds, DeleteStart(r, s)
        PROVE  FreshInv'
    <2>1. {s} \in SUBSET SimIds
      OBVIOUS
    <2> QED
      BY <1>5, <1>7, <2>1 DEF DeleteStart, ReqKinds
  <1>8. CASE ClearStart(r) \/ WipeStart(r)
    BY <1>5, <1>8 DEF ClearStart, WipeStart, ReqKinds
  <1>9. CASE ViewStart(r)
    <2> DEFINE new == [NoRequest EXCEPT !.at = "view", !.kind = "view"]
    <2>1. new \in ReqType /\ new.at = "view" /\ new.sids = {} /\ new.doomed = {}
      BY <1>2, EmptyTrail DEF NoRequest, ReqType, ReqStages, ReqKinds
    <2>2. req' = [req EXCEPT ![r] = new] /\ issued' = issued /\ UNCHANGED simVars
      BY <1>9 DEF ViewStart, Accept
    <2> HIDE DEF new
    <2>3. \A t \in SimIds : Spares(new, t)
      BY <2>1 DEF Spares, Submitting, Billing
    <2> QED
      BY <2>1, <2>2, <2>3, FreshQuiet DEF Creating
  <1> QED
    BY <1>3, <1>4, <1>6, <1>7, <1>8, <1>9 DEF RequestStart

\* a submission past its first save is of another simulation
LEMMA SubmitsAnother ==
    ASSUME FreshInv, NEW r \in Requests, NEW s \in SimIds, Untouched(s),
           req[r].at \in Submitting, ~Creating(req[r])
    PROVE  s # req[r].sid
  BY DEF Untouched, Spares

LEMMA FreshCreate ==
    ASSUME FreshInv, SimInv', NEW r \in Requests, job' = job, issued' = issued,
           CreateAdmit(r) \/ CreateSaveConfig(r) \/ CreateSaveStatus(r) \/ CreateSaveCost(r)
              \/ Reject(r)
    PROVE  FreshInv'
  <1>1. req[r] \in ReqType /\ req \in [Requests -> ReqType]
    BY RequestFacts DEF FreshInv
  <1>2. CASE CreateAdmit(r) \/ Reject(r)
    <2>1. \A s \in SimIds : Untouched(s) => NoBlobs(s)'
      BY <1>2 DEF CreateAdmit, Reject, simVars, Untouched, NoBlobs
    <2>2. CASE Finish(r)
      BY <2>1, <2>2, FreshEnd
    <2>3. CASE CreateAdmit(r) /\ Go(r, "create_debit")
      <3>1. Creating(req[r]) /\ req[r].at \in Submitting /\ ~Deleting(req[r])
        BY <2>3 DEF CreateAdmit, At, Creating, Deleting, Submitting, Billing
      <3>2. "create_debit" \in ReqStages
        BY DEF ReqStages
      <3> QED
        BY <2>1, <2>3, <3>1, <3>2, FreshGo
    <2> QED
      BY <1>2, <2>2, <2>3 DEF CreateAdmit, Reject
  <1>3. CASE CreateSaveConfig(r)
    <2>6. PICK t \in SimIds : t = req[r].sid
      BY <1>3, RequestFacts DEF FreshInv, CreateSaveConfig, At, Remembers, Submitting, Billing
    <2>1. /\ Creating(req[r]) /\ req[r].at \in Submitting /\ ~Deleting(req[r])
          /\ Go(r, "create_status") /\ config' = [config EXCEPT ![t] = req[r].estimate]
          /\ UNCHANGED <<trail, cost, results, queue>>
      BY <1>3, <2>6 DEF CreateSaveConfig, At, Creating, Deleting, Submitting, Billing
    <2>2. t \in issued
      BY <2>1, <2>6 DEF FreshInv, Issuing
    <2>3. ~Unbegun(t)'
      <3>1. req'[r].at = "create_status" /\ \A q \in Requests : q # r => req'[q] = req[q]
        BY <1>1, <2>1 DEF Go, ReqType
      <3>2. SUFFICES ASSUME NEW q \in Requests, Creating(req'[q]), req'[q].sid = t
                     PROVE  FALSE
        BY <2>2 DEF Unbegun
      <3>3. q # r
        BY <3>1, <3>2 DEF Creating
      <3> QED
        BY <2>1, <2>6, <3>1, <3>2, <3>3 DEF FreshInv, Issuing
    <2>4. \A s \in SimIds : Unbegun(s)' /\ Untouched(s) => NoBlobs(s)' /\ s # t
      BY <2>1, <2>3 DEF Untouched, NoBlobs, FreshInv, SimInv, SimulationTypeOK
    <2>5. "create_status" \in ReqStages
      BY DEF ReqStages
    <2> QED
      BY <2>1, <2>4, <2>5, <2>6, FreshGo
  <1>4. CASE CreateSaveStatus(r) \/ CreateSaveCost(r)
    <2>1. /\ ~Creating(req[r]) /\ req[r].at \in Submitting /\ ~Deleting(req[r])
      BY <1>4 DEF CreateSaveStatus, CreateSaveCost, At, Creating, Deleting, Submitting, Billing
    <2>2. \A s \in SimIds : Untouched(s) => NoBlobs(s)' /\ s # req[r].sid
      BY <1>4, <2>1, SubmitsAnother
      DEF CreateSaveStatus, CreateSaveCost, Untouched, NoBlobs, FreshInv, SimInv,
          SimulationTypeOK
    <2>3. PICK stage \in {"create_cost", "publish"} : Go(r, stage)
      BY <1>4 DEF CreateSaveStatus, CreateSaveCost
    <2>4. stage \in ReqStages
      BY DEF ReqStages
    <2> QED
      BY <2>1, <2>2, <2>3, <2>4, FreshGo
  <1> QED
    BY <1>2, <1>3, <1>4

LEMMA FreshRetry ==
    ASSUME FreshInv, SimInv', NEW r \in Requests, job' = job, issued' = issued,
           RetryAdmit(r) \/ RetryDebit(r) \/ RetrySaveCost(r) \/ ViewEnd(r) \/ Abort(r)
    PROVE  FreshInv'
  <1>1. req[r] \in ReqType /\ req \in [Requests -> ReqType] /\ month \in Nat
    BY RequestFacts DEF FreshInv
  <1>2. ASSUME UNCHANGED simVars, Finish(r)
        PROVE  FreshInv'
    BY <1>2, FreshEnd DEF simVars, Untouched, NoBlobs
  <1>3. CASE ViewEnd(r) \/ Abort(r)
    BY <1>2, <1>3 DEF ViewEnd, Abort
  <1>4. CASE RetryAdmit(r)
    <2> DEFINE t == req[r].sid
               new == [req[r] EXCEPT !.at = "retry_account", !.estimate = config[t],
                                     !.period = month]
    <2>1. UNCHANGED simVars /\ req[r].at = "retry_checks"
      BY <1>4 DEF RetryAdmit, At
    <2>2. CASE ~Finish(r)
      <3>1. req' = [req EXCEPT ![r].at = "retry_account", ![r].estimate = config[t],
                               ![r].period = month]
        BY <1>4, <2>2 DEF RetryAdmit
      <3>2. req' = [req EXCEPT ![r] = new]
        BY <1>1, <3>1
      <3>3. /\ new.at = "retry_account" /\ new.sid = t /\ new.sids = req[r].sids
            /\ new.doomed = req[r].doomed
        BY <1>1 DEF ReqType
      <3> HIDE DEF new
      <3>4. new \in ReqType
        BY <1>1, <3>2 DEF SimInv, RequestsOK
      <3>5. \A s \in SimIds : Untouched(s) => Spares(new, s)
        BY <2>1, <3>3 DEF Untouched, Spares, Deleting, Creating, Submitting, Billing
      <3> QED
        BY <2>1, <3>2, <3>3, <3>4, <3>5, FreshQuiet DEF Creating
    <2> QED
      BY <1>2, <2>1, <2>2
  <1>5. CASE RetryDebit(r) \/ RetrySaveCost(r)
    <2>1. /\ ~Creating(req[r]) /\ req[r].at \in Submitting /\ ~Deleting(req[r])
      BY <1>5 DEF RetryDebit, RetrySaveCost, At, Creating, Deleting, Submitting, Billing
    <2>2. \A s \in SimIds : Untouched(s) => NoBlobs(s)' /\ s # req[r].sid
      BY <1>5, <2>1, SubmitsAnother
      DEF RetryDebit, RetrySaveCost, simVars, Untouched, NoBlobs, FreshInv, SimInv,
          SimulationTypeOK
    <2>3. PICK stage \in {"retry_debit", "append_read"} : Go(r, stage)
      BY <1>5 DEF RetryDebit, RetrySaveCost
    <2>4. stage \in ReqStages
      BY DEF ReqStages
    <2> QED
      BY <2>1, <2>2, <2>3, <2>4, FreshGo
  <1> QED
    BY <1>3, <1>4, <1>5

LEMMA FreshTail ==
    ASSUME FreshInv, SimInv', NEW r \in Requests, job' = job, issued' = issued,
           RerunNext(r) \/ AppendRead(r) \/ AppendWrite(r) \/ Trigger(r)
    PROVE  FreshInv'
  <1>1. req[r] \in ReqType /\ req \in [Requests -> ReqType]
    BY RequestFacts DEF FreshInv
  <1>2. CASE RerunNext(r)
    <2>1. UNCHANGED simVars /\ req[r].at = "rerun_next"
      BY <1>2 DEF RerunNext, At
    <2>2. CASE Finish(r)
      BY <2>1, <2>2, FreshEnd DEF simVars, Untouched, NoBlobs
    <2>3. CASE ~Finish(r)
      <3>1. PICK t \in req[r].sids :
               req' = [req EXCEPT ![r].sids = @ \ {t},
                                  ![r].sid = t,
                                  ![r].at = IF config[t] = Absent
                                            THEN "rerun_next"
                                            ELSE "append_read"]
        BY <1>2, <2>3 DEF RerunNext
      <3> DEFINE new == req'[r]
      <3>2. /\ new.at \in {"rerun_next", "append_read"} /\ new.sid = t
            /\ new.sids = req[r].sids \ {t} /\ new.doomed = req[r].doomed
        BY <1>1, <3>1 DEF ReqType
      <3>3. req' = [req EXCEPT ![r] = new]
        BY <1>1, <3>1
      <3>4. new \in ReqType
        BY DEF SimInv, RequestsOK
      <3> HIDE DEF new
      <3>5. \A s \in SimIds : Untouched(s) => Spares(new, s)
        BY <2>1, <3>1, <3>2 DEF Untouched, Spares, Deleting, Creating, Submitting, Billing
      <3> QED
        BY <2>1, <3>2, <3>3, <3>4, <3>5, FreshQuiet DEF Creating
    <2> QED
      BY <2>2, <2>3
  <1>3. CASE AppendRead(r)
    <2> DEFINE new == req'[r]
    <2>1. /\ UNCHANGED simVars /\ req[r].at = "append_read"
          /\ new.at = "append_write" /\ new.sid = req[r].sid /\ new.sids = req[r].sids
          /\ new.doomed = req[r].doomed /\ req' = [req EXCEPT ![r] = new]
      BY <1>1, <1>3 DEF AppendRead, At, ReqType
    <2>2. new \in ReqType
      BY DEF SimInv, RequestsOK
    <2> HIDE DEF new
    <2>3. \A s \in SimIds : Untouched(s) => Spares(new, s)
      BY <2>1 DEF Untouched, Spares, Deleting, Creating, Submitting, Billing
    <2> QED
      BY <2>1, <2>2, <2>3, FreshQuiet DEF Creating
  <1>4. CASE AppendWrite(r) \/ Trigger(r)
    <2>1. /\ ~Creating(req[r]) /\ req[r].at \in Submitting /\ ~Deleting(req[r])
      BY <1>4 DEF AppendWrite, Trigger, At, Creating, Deleting, Submitting, Billing
    <2>2. \A s \in SimIds : Untouched(s) => NoBlobs(s)' /\ s # req[r].sid
      BY <1>4, <2>1, SubmitsAnother
      DEF AppendWrite, Trigger, Publish, Untouched, NoBlobs, FreshInv, SimInv,
          SimulationTypeOK
    <2>3. CASE Finish(r)
      BY <2>2, <2>3, FreshEnd
    <2>4. CASE ~Finish(r)
      <3>1. PICK stage \in {"publish", "rerun_next"} : Go(r, stage)
        BY <1>4, <2>4 DEF AppendWrite, Trigger
      <3>2. stage \in ReqStages
        BY DEF ReqStages
      <3> QED
        BY <2>1, <2>2, <3>1, <3>2, FreshGo
    <2> QED
      BY <2>3, <2>4
  <1> QED
    BY <1>2, <1>3, <1>4

LEMMA FreshDelete ==
    ASSUME FreshInv, SimInv', NEW r \in Requests, job' = job, issued' = issued,
           DeleteList(r) \/ WipeAccount(r) \/ DeleteNext(r)
    PROVE  FreshInv'
  <1>1. req[r] \in ReqType /\ req \in [Requests -> ReqType]
    BY RequestFacts DEF FreshInv
  <1>2. CASE DeleteList(r)
    <2> DEFINE new == req'[r]
    <2>1. /\ UNCHANGED simVars
          /\ new.at \in {"wipe_account", "delete_next"}
          /\ new.doomed = BlobsUnder(req[r].sids) /\ req' = [req EXCEPT ![r] = new]
      BY <1>1, <1>2 DEF DeleteList, ReqType
    <2>2. new \in ReqType
      BY DEF SimInv, RequestsOK
    <2> HIDE DEF new
    <2>3. \A s \in SimIds, b \in BlobNames :
             Untouched(s) => <<s, b>> \notin BlobsUnder(req[r].sids)
      BY DEF Untouched, NoBlobs, BlobsUnder, BlobExists, BlobNames
    <2>4. \A s \in SimIds : Untouched(s) => Spares(new, s)
      BY <2>1, <2>3 DEF Spares, Deleting, Submitting, Billing
    <2> QED
      BY <2>1, <2>2, <2>4, FreshQuiet DEF Creating
  <1>3. CASE WipeAccount(r)
    <2>1. \A s \in SimIds : Untouched(s) => NoBlobs(s)'
      BY <1>3 DEF WipeAccount, simVars, Untouched, NoBlobs
    <2>2. CASE Finish(r)
      BY <2>1, <2>2, FreshEnd
    <2>3. CASE Go(r, "delete_next")
      <3>1. Deleting(req[r]) /\ "delete_next" \in ReqStages /\ "delete_next" \notin Submitting
        BY <1>3 DEF WipeAccount, At, Deleting, ReqStages, Submitting, Billing
      <3> QED
        BY <2>1, <2>3, <3>1, FreshGo
    <2> QED
      BY <1>3, <2>2, <2>3 DEF WipeAccount
  <1>4. CASE DeleteNext(r)
    <2>1. req[r].at = "delete_next" /\ queue' = queue
      BY <1>4 DEF DeleteNext, At
    <2>2. \A s \in SimIds : Untouched(s) => NoBlobs(s)'
      <3>1. CASE UNCHANGED blobs
        BY <2>1, <3>1 DEF blobs, Untouched, NoBlobs
      <3>2. ASSUME NEW x \in req[r].doomed, DeleteBlob(x)
            PROVE  \A s \in SimIds : Untouched(s) => NoBlobs(s)'
        <4>1. x[1] \in SimIds
          BY <1>1 DEF ReqType
        <4> QED
          BY <2>1, <3>2, <4>1
          DEF DeleteBlob, Untouched, NoBlobs, FreshInv, SimInv, SimulationTypeOK
      <3> QED
        BY <1>4, <3>1, <3>2 DEF DeleteNext
    <2>3. CASE Finish(r)
      BY <2>2, <2>3, FreshEnd
    <2>4. CASE ~Finish(r)
      <3> DEFINE new == req'[r]
      <3>1. PICK x \in req[r].doomed : req' = [req EXCEPT ![r].doomed = @ \ {x}]
        BY <1>4, <2>4 DEF DeleteNext
      <3>2. /\ new.at = "delete_next" /\ new.doomed = req[r].doomed \ {x}
            /\ req' = [req EXCEPT ![r] = new]
        BY <1>1, <2>1, <3>1 DEF ReqType
      <3>3. new \in ReqType
        BY DEF SimInv, RequestsOK
      <3> HIDE DEF new
      <3>4. \A s \in SimIds : Untouched(s) => Spares(new, s)
        BY <3>2 DEF Untouched, Spares, Deleting, Submitting, Billing
      <3> QED
        BY <2>2, <3>2, <3>3, <3>4, FreshRequest DEF Creating
    <2> QED
      BY <2>3, <2>4
  <1> QED
    BY <1>2, <1>3, <1>4
-----------------------------------------------------------------------------
(***************************************************************************)
(* What the steps of a worker do to its job: it stays on its simulation,   *)
(* and only the step that saves the results makes it a concluding one.     *)
(***************************************************************************)
Moves(w) ==
    /\ \A v \in Workers : v # w => job'[v] = job[v]
    /\ job'[w].sid \in {job[w].sid, Absent}
    /\ Concluding(job'[w]) => Concluding(job[w]) /\ job'[w].sid = job[w].sid

LEMMA AnnounceIs ==
    ASSUME SimInv, NEW w \in Workers, NEW status, Announce(w, status)
    PROVE  /\ \A v \in Workers : v # w => job'[v] = job[v]
           /\ job'[w].at = "status_read" /\ job'[w].sid = job[w].sid
           /\ job'[w].next = status
  BY WorkerFacts DEF Announce, NoJob

LEMMA TurnIs ==
    ASSUME SimInv, NEW w \in Workers, NEW stage, Turn(w, stage)
    PROVE  /\ \A v \in Workers : v # w => job'[v] = job[v]
           /\ job'[w].at = stage /\ job'[w].sid = job[w].sid
  BY WorkerFacts DEF Turn, JobType

LEMMA ChargedIs ==
    ASSUME SimInv, NEW w \in Workers, NEW tokens, Charged(w, tokens)
    PROVE  /\ \A v \in Workers : v # w => job'[v] = job[v]
           /\ job'[w].at = "cost_save" /\ job'[w].sid = job[w].sid
  BY WorkerFacts DEF Charged, JobType

LEMMA RunMoves ==
    ASSUME SimInv, NEW w \in Workers,
           ReadConfig(w) \/ ReadStatus(w) \/ WriteStatus(w) \/ Simulate(w) \/ Ack(w)
    PROVE  Moves(w)
  <1>1. job \in [Workers -> JobType] /\ job[w] \in JobType
    BY WorkerFacts
  <1>2. CASE ReadConfig(w)
    <2>1. CASE Turn(w, "fail_cost")
      BY <2>1, TurnIs DEF Moves, Concluding
    <2>2. CASE Announce(w, "running")
      BY <2>2, AnnounceIs DEF Moves, Concluding
    <2> QED
      BY <1>2, <2>1, <2>2 DEF ReadConfig
  <1>3. CASE ReadStatus(w)
    <2>1. /\ \A v \in Workers : v # w => job'[v] = job[v]
          /\ job[w].at = "status_read" /\ job'[w].at = "status_write"
          /\ job'[w].sid = job[w].sid /\ job'[w].next = job[w].next
      BY <1>1, <1>3 DEF ReadStatus, On, JobType
    <2> QED
      BY <2>1 DEF Moves, Concluding
  <1>4. CASE WriteStatus(w)
    <2>1. /\ \A v \in Workers : v # w => job'[v] = job[v]
          /\ job'[w].at \in {"simulate", "ack"} /\ job'[w].sid = job[w].sid
      BY <1>1, <1>4 DEF WriteStatus, JobType
    <2> QED
      BY <2>1 DEF Moves, Concluding
  <1>5. CASE Simulate(w)
    <2>1. CASE Turn(w, "fail_cost")
      BY <2>1, TurnIs DEF Moves, Concluding
    <2>2. ASSUME NEW a \in Actuals,
                 job' = [job EXCEPT ![w].at = "results", ![w].actual = a]
          PROVE  Moves(w)
      <3>1. /\ \A v \in Workers : v # w => job'[v] = job[v]
            /\ job'[w].at = "results" /\ job'[w].sid = job[w].sid
        BY <1>1, <2>2 DEF JobType
      <3> QED
        BY <3>1 DEF Moves, Concluding
    <2> QED
      BY <1>5, <2>1, <2>2 DEF Simulate
  <1>6. CASE Ack(w)
    <2>1. /\ \A v \in Workers : v # w => job'[v] = job[v]
          /\ job'[w].at = "idle" /\ job'[w].sid = Absent
      BY <1>1, <1>6 DEF Ack, NoJob
    <2> QED
      BY <2>1 DEF Moves, Concluding
  <1> QED
    BY <1>2, <1>3, <1>4, <1>5, <1>6

LEMMA BillingMoves ==
    ASSUME SimInv, NEW w \in Workers,
           Reconcile(w) \/ Overage(w) \/ Partial(w) \/ SaveCost(w)
    PROVE  Moves(w)
  <1>1. job \in [Workers -> JobType] /\ job[w] \in JobType
    BY WorkerFacts
  <1>2. Concluding(job[w])
    BY DEF Reconcile, Overage, Partial, SaveCost, On, Concluding
  <1>3. ASSUME NEW status, Announce(w, status)
        PROVE  Moves(w)
    BY <1>2, <1>3, AnnounceIs DEF Moves
  <1>4. ASSUME NEW stage, Turn(w, stage)
        PROVE  Moves(w)
    BY <1>2, <1>4, TurnIs DEF Moves
  <1>5. ASSUME NEW tokens, Charged(w, tokens)
        PROVE  Moves(w)
    BY <1>2, <1>5, ChargedIs DEF Moves
  <1>6. ASSUME NEW stage, NEW record,
               job' = [job EXCEPT ![w].at = stage, ![w].record = record]
        PROVE  Moves(w)
    <2>1. /\ \A v \in Workers : v # w => job'[v] = job[v]
          /\ job'[w].sid = job[w].sid
      BY <1>1, <1>6 DEF JobType
    <2> QED
      BY <1>2, <2>1 DEF Moves
  <1>7. CASE Reconcile(w)
    <2>1. \/ Announce(w, "done")
          \/ \E stage, record : job' = [job EXCEPT ![w].at = stage, ![w].record = record]
      BY <1>7 DEF Reconcile
    <2> QED
      BY <1>3, <1>6, <2>1
  <1>8. CASE Overage(w)
    BY <1>3, <1>4, <1>5, <1>8 DEF Overage
  <1>9. CASE Partial(w)
    BY <1>3, <1>5, <1>9 DEF Partial
  <1>10. CASE SaveCost(w)
    BY <1>3, <1>10 DEF SaveCost
  <1> QED
    BY <1>7, <1>8, <1>9, <1>10

LEMMA FailMoves ==
    ASSUME SimInv, NEW w \in Workers, FailCost(w) \/ Refunded(w) \/ SaveRefund(w)
    PROVE  Moves(w)
  <1>1. job \in [Workers -> JobType] /\ job[w] \in JobType
    BY WorkerFacts
  <1>2. CASE Announce(w, "failed")
    BY <1>2, AnnounceIs DEF Moves, Concluding
  <1>3. CASE Turn(w, "refund_save")
    BY <1>3, TurnIs DEF Moves, Concluding
  <1>4. ASSUME NEW record,
               job' = [job EXCEPT ![w].at = "refund", ![w].record = record]
        PROVE  Moves(w)
    <2>1. /\ \A v \in Workers : v # w => job'[v] = job[v]
          /\ job'[w].at = "refund" /\ job'[w].sid = job[w].sid
      BY <1>1, <1>4 DEF JobType
    <2> QED
      BY <2>1 DEF Moves, Concluding
  <1> QED
    BY <1>2, <1>3, <1>4 DEF FailCost, Refunded, SaveRefund

LEMMA FaultMoves ==
    ASSUME SimInv, NEW w \in Workers, Crash(w) \/ Redeliver(w) \/ StorageRaises(w)
    PROVE  Moves(w)
  <1>1. job \in [Workers -> JobType] /\ job[w] \in JobType
    BY WorkerFacts
  <1>2. CASE Crash(w)
    <2>1. /\ \A v \in Workers : v # w => job'[v] = job[v]
          /\ job'[w].at = "idle" /\ job'[w].sid = Absent
      BY <1>1, <1>2 DEF Crash, NoJob
    <2> QED
      BY <2>1 DEF Moves, Concluding
  <1>3. CASE job' = job
    BY <1>3 DEF Moves
  <1>4. CASE Turn(w, "fail_cost")
    BY <1>4, TurnIs DEF Moves, Concluding
  <1>5. CASE job[w].at \in {"reconcile", "cost_save"} /\ Announce(w, "done")
    BY <1>5, AnnounceIs DEF Moves, Concluding
  <1>6. CASE Announce(w, "failed")
    BY <1>6, AnnounceIs DEF Moves, Concluding
  <1> QED
    BY <1>2, <1>3, <1>4, <1>5, <1>6 DEF Redeliver, StorageRaises

\* a step of a worker stores something for its own simulation only, and its
\* configuration never
LEMMA WorkerStores ==
    ASSUME SimInv, NEW w \in Workers,
           WorkerStep(w) \/ Crash(w) \/ Redeliver(w) \/ StorageRaises(w)
    PROVE  /\ config' = config
           /\ \A s \in SimIds : s # job[w].sid /\ NoBlobs(s) => NoBlobs(s)'
           /\ \A s \in SimIds : results[s] => results'[s]
  <1>1. SimulationTypeOK
    BY DEF SimInv
  <1>2. CASE \/ ReadConfig(w) \/ ReadStatus(w) \/ Simulate(w) \/ Reconcile(w)
             \/ Overage(w) \/ Partial(w) \/ FailCost(w) \/ Refunded(w) \/ Ack(w)
             \/ StorageRaises(w)
    <2>1. UNCHANGED simVars
      BY <1>2
      DEF ReadConfig, ReadStatus, Simulate, Reconcile, Overage, Partial, FailCost,
          Refunded, Ack, StorageRaises
    <2> QED
      BY <2>1 DEF simVars, NoBlobs
  <1>3. CASE WriteStatus(w)
    BY <1>1, <1>3 DEF WriteStatus, NoBlobs, SimulationTypeOK
  <1>4. CASE SaveResults(w)
    BY <1>1, <1>4 DEF SaveResults, NoBlobs, SimulationTypeOK
  <1>5. CASE SaveCost(w) \/ SaveRefund(w)
    BY <1>1, <1>5 DEF SaveCost, SaveRefund, NoBlobs, SimulationTypeOK
  <1>6. CASE Crash(w) \/ Redeliver(w)
    BY <1>1, <1>6 DEF Crash, Redeliver, Publish, blobs, NoBlobs, SimulationTypeOK
  <1> QED
    BY <1>2, <1>3, <1>4, <1>5, <1>6 DEF WorkerStep

\* a worker's next job is not one of a simulation that nobody has stored
KeepsOff(w) ==
    /\ \A v \in Workers : v # w => job'[v] = job[v]
    /\ \A s \in SimIds : Untouched(s) => NoBlobs(s)' /\ job'[w].sid # s

LEMMA FreshPush ==
    ASSUME FreshInv, SimInv', NEW w \in Workers, PushStep(w)
    PROVE  FreshInv'
  <1>1. req' = req /\ issued' = issued
    BY DEF PushStep, apiVars
  <1>2. Issuing'
    BY <1>1 DEF FreshInv, Issuing
  <1>3. KeepsOff(w)
    <2>1. ASSUME NEW t \in SimIds, Deliver(w, t)
          PROVE  KeepsOff(w)
      <3>1. /\ \A v \in Workers : v # w => job'[v] = job[v]
            /\ job'[w].sid = t
        BY <2>1, WorkerFacts DEF Deliver, FreshInv, NoJob
      <3>2. ASSUME NEW s \in SimIds, Untouched(s)
            PROVE  NoBlobs(s)' /\ s # t
        BY <2>1, <3>2
        DEF Deliver, Untouched, NoBlobs, blobs, FreshInv, SimInv, SimulationTypeOK
      <3> QED
        BY <3>1, <3>2 DEF KeepsOff
    <2>2. CASE WorkerStep(w) \/ Crash(w) \/ Redeliver(w) \/ StorageRaises(w)
      <3>1. \A s \in SimIds : Untouched(s) => s # job[w].sid /\ NoBlobs(s)
        BY DEF Untouched
      <3>2. CASE SaveResults(w)
        <4>1. Turn(w, "reconcile")
          BY <3>2 DEF SaveResults
        <4> QED
          BY <2>2, <3>1, <4>1, TurnIs, WorkerStores DEF FreshInv, KeepsOff
      <3>3. CASE ~SaveResults(w)
        <4>1. Moves(w)
          BY <2>2, <3>3, RunMoves, BillingMoves, FailMoves, FaultMoves DEF FreshInv, WorkerStep
        <4> QED
          BY <2>2, <3>1, <4>1, WorkerStores, NoIdIsAbsent DEF FreshInv, Moves, KeepsOff
      <3> QED
        BY <3>2, <3>3
    <2> QED
      BY <2>1, <2>2 DEF PushStep
  <1>4. ASSUME NEW s \in SimIds, Unbegun(s)'
        PROVE  Untouched(s)'
    <2>1. Untouched(s)
      BY <1>1, <1>4 DEF FreshInv, Unbegun
    <2> QED
      BY <1>1, <1>3, <2>1 DEF Untouched, KeepsOff
  <1> QED
    BY <1>2, <1>4 DEF FreshInv
-----------------------------------------------------------------------------
(***************************************************************************)
(* Results are there when a run concludes, and stay while the              *)
(* configuration does.                                                     *)
(***************************************************************************)
\* a step of a request that neither deletes blobs nor stores a configuration
LEMMA ResultsRequest ==
    ASSUME ResultsInv, FreshInv', NEW r \in Requests, job' = job,
           UNCHANGED <<config, results>>,
           \A s \in SimIds : trail'[s] = trail[s] \/ StatusOf(s)' # "done",
           \A q \in Requests : q # r => req'[q] = req[q],
           Ordered(req'[r])
    PROVE  ResultsInv'
  <1>1. \A q \in Requests : Ordered(req[q])'
    BY DEF ResultsInv, Ordered
  <1>2. \A s : HasResults(s)' <=> HasResults(s)
    BY DEF HasResults
  <1>3. ASSUME NEW w \in Workers, Concluding(job[w])'
        PROVE  HasResults(job[w].sid)'
    BY <1>3 DEF ResultsInv, HasResults
  <1>4. ASSUME NEW s \in SimIds, trail'[s] # Absent, StatusOf(s)' = "done"
        PROVE  HasResults(s)'
    BY <1>2, <1>4 DEF ResultsInv, StatusOf
  <1> QED
    BY <1>1, <1>3, <1>4 DEF ResultsInv

\* the same, when what the request is going to delete stays or is forgotten
LEMMA ResultsQuiet ==
    ASSUME ResultsInv, FreshInv', NEW r \in Requests, job' = job,
           UNCHANGED <<config, results>>,
           \A s \in SimIds : trail'[s] = trail[s] \/ StatusOf(s)' # "done",
           NEW new, req' = [req EXCEPT ![r] = new], new.doomed \in {req[r].doomed, {}}
    PROVE  ResultsInv'
  <1>1. /\ req'[r] = new
        /\ \A q \in Requests : q # r => req'[q] = req[q]
    BY RequestFacts DEF ResultsInv, FreshInv
  <1>2. Ordered(req'[r])
    BY <1>1 DEF ResultsInv, Ordered
  <1> QED
    BY <1>1, <1>2, ResultsRequest

LEMMA ResultsEnd ==
    ASSUME ResultsInv, FreshInv', NEW r \in Requests, job' = job,
           UNCHANGED <<config, results>>,
           \A s \in SimIds : trail'[s] = trail[s] \/ StatusOf(s)' # "done",
           Finish(r)
    PROVE  ResultsInv'
  <1>1. req' = [req EXCEPT ![r] = NoRequest] /\ NoRequest.doomed = {}
    BY DEF Finish, NoRequest
  <1> QED
    BY <1>1, ResultsQuiet

LEMMA ResultsGo ==
    ASSUME ResultsInv, FreshInv', NEW r \in Requests, job' = job,
           UNCHANGED <<config, results>>,
           \A s \in SimIds : trail'[s] = trail[s] \/ StatusOf(s)' # "done",
           NEW stage, Go(r, stage)
    PROVE  ResultsInv'
  <1> DEFINE new == [req[r] EXCEPT !.at = stage]
  <1>1. req' = [req EXCEPT ![r] = new] /\ new.doomed = req[r].doomed
    BY RequestFacts DEF Go, ResultsInv, FreshInv, ReqType
  <1> HIDE DEF new
  <1> QED
    BY <1>1, ResultsQuiet

LEMMA ResultsStart ==
    ASSUME ResultsInv, FreshInv', NEW r \in Requests, RequestStart(r), job' = job
    PROVE  ResultsInv'
  <1>1. UNCHANGED simVars
    BY DEF RequestStart, CreateStart, RetryStart, DeleteStart, RerunStart, ClearStart,
           WipeStart, ViewStart
  <1>2. ASSUME NEW kind, NEW new, new.doomed = {}, Accept(r, kind, new)
        PROVE  ResultsInv'
    BY <1>1, <1>2, ResultsQuiet DEF simVars, Accept
  <1>3. ASSUME NEW s \in SimIds, NEW e \in Estimates, CreateStart(r, s, e)
        PROVE  ResultsInv'
    BY <1>2, <1>3 DEF CreateStart, NoRequest
  <1>4. ASSUME NEW s \in SimIds, RetryStart(r, s) \/ DeleteStart(r, s)
        PROVE  ResultsInv'
    BY <1>2, <1>4 DEF RetryStart, DeleteStart, NoRequest
  <1>5. CASE RerunStart(r) \/ ClearStart(r) \/ WipeStart(r) \/ ViewStart(r)
    BY <1>2, <1>5 DEF RerunStart, ClearStart, WipeStart, ViewStart, NoRequest
  <1> QED
    BY <1>3, <1>4, <1>5 DEF RequestStart

LEMMA ResultsSaveConfig ==
    ASSUME ResultsInv, FreshInv', NEW r \in Requests, CreateSaveConfig(r), job' = job
    PROVE  ResultsInv'
  <1>1. PICK t \in SimIds : t = req[r].sid
    BY RequestFacts DEF ResultsInv, FreshInv, CreateSaveConfig, At, Remembers, Billing, Submitting
  <1>2. Untouched(t)
    BY <1>1 DEF ResultsInv, FreshInv, CreateSaveConfig, At, Creating, Unbegun
  <1>3. /\ \A s \in SimIds : s # t => config'[s] = config[s]
        /\ results' = results /\ trail' = trail
    BY <1>1 DEF CreateSaveConfig, ResultsInv, FreshInv, SimInv, SimulationTypeOK
  <1>4. \A q \in Requests : req'[q].doomed = req[q].doomed
    BY RequestFacts DEF ResultsInv, FreshInv, CreateSaveConfig, Go, ReqType
  <1>5. \A q \in Requests : Ordered(req[q])'
    <2> SUFFICES ASSUME NEW q \in Requests, NEW s \in SimIds,
                        <<s, "results.json">> \in req[q].doomed
                 PROVE  config'[s] = Absent \/ <<s, "config.json">> \in req[q].doomed
      BY <1>4 DEF Ordered
    <2>1. s # t
      BY <1>2 DEF Untouched, Spares, BlobNames
    <2> QED
      BY <1>3, <2>1 DEF ResultsInv, Ordered
  <1>6. \A s \in SimIds : s # t => (HasResults(s)' <=> HasResults(s))
    BY <1>3 DEF HasResults
  <1>7. ASSUME NEW w \in Workers, Concluding(job[w])'
        PROVE  HasResults(job[w].sid)'
    <2>1. Concluding(job[w]) /\ job'[w].sid = job[w].sid
      BY <1>7
    <2>2. job[w].sid \in SimIds
      BY <2>1, WorkerFacts DEF ResultsInv, FreshInv, Concluding
    <2>3. job[w].sid # t
      BY <1>2 DEF Untouched
    <2> QED
      BY <1>3, <2>1, <2>2, <2>3 DEF ResultsInv, HasResults
  <1>8. ASSUME NEW s \in SimIds, trail'[s] # Absent, StatusOf(s)' = "done"
        PROVE  HasResults(s)'
    BY <1>2, <1>3, <1>6, <1>8 DEF ResultsInv, StatusOf, Untouched, NoBlobs
  <1> QED
    BY <1>5, <1>7, <1>8 DEF ResultsInv

LEMMA ResultsSubmit ==
    ASSUME ResultsInv, FreshInv', NEW r \in Requests, job' = job,
           \/ CreateAdmit(r) \/ CreateSaveStatus(r) \/ CreateSaveCost(r) \/ Reject(r)
           \/ RetryAdmit(r) \/ RetryDebit(r) \/ RetrySaveCost(r)
           \/ RerunNext(r) \/ AppendRead(r) \/ AppendWrite(r) \/ Trigger(r)
           \/ WipeAccount(r) \/ ViewEnd(r) \/ Abort(r)
    PROVE  ResultsInv'
  <1>1. /\ req[r] \in ReqType /\ req \in [Requests -> ReqType] /\ Remembers(req[r])
        /\ trail \in [SimIds -> Seq(Status) \cup {Absent}]
    BY RequestFacts DEF ResultsInv, FreshInv, SimInv, SimulationTypeOK
  <1>2. UNCHANGED <<config, results>>
    BY DEF CreateAdmit, CreateSaveStatus, CreateSaveCost, Reject, RetryAdmit, RetryDebit,
           RetrySaveCost, RerunNext, AppendRead, AppendWrite, Trigger, WipeAccount, ViewEnd,
           Abort, simVars
  <1>3. ASSUME NEW s \in SimIds
        PROVE  trail'[s] = trail[s] \/ StatusOf(s)' # "done"
    <2>1. CASE CreateSaveStatus(r)
      <3>1. trail' = [trail EXCEPT ![req[r].sid] = <<"pending">>]
        BY <2>1 DEF CreateSaveStatus
      <3>2. Len(<<"pending">>) = 1 /\ <<"pending">>[1] = "pending"
        OBVIOUS
      <3> QED
        BY <1>1, <3>1, <3>2 DEF StatusOf, Last
    <2>2. CASE AppendWrite(r)
      <3> DEFINE longer == Append(req[r].events, "retried")
      <3>1. trail' = [trail EXCEPT ![req[r].sid] = longer]
        BY <2>2 DEF AppendWrite
      <3>2. Last(longer) = "retried"
        BY <1>1, AppendType DEF ReqType, Status
      <3> HIDE DEF longer
      <3> QED
        BY <1>1, <3>1, <3>2 DEF StatusOf
    <2>3. CASE trail' = trail
      BY <2>3
    <2> QED
      BY <2>1, <2>2, <2>3
      DEF CreateAdmit, CreateSaveCost, Reject, RetryAdmit, RetryDebit, RetrySaveCost,
          RerunNext, AppendRead, Trigger, WipeAccount, ViewEnd, Abort, simVars
  <1>4. ASSUME NEW stage, Go(r, stage)
        PROVE  ResultsInv'
    BY <1>2, <1>3, <1>4, ResultsGo
  <1>5. CASE Finish(r)
    BY <1>2, <1>3, <1>5, ResultsEnd
  <1>6. ASSUME \A q \in Requests : q # r => req'[q] = req[q],
               req'[r].doomed = req[r].doomed
        PROVE  ResultsInv'
    BY <1>2, <1>3, <1>6, ResultsRequest DEF ResultsInv, Ordered
  <1>7. CASE RetryAdmit(r) \/ RerunNext(r) \/ AppendRead(r)
    <2>1. \/ Finish(r)
          \/ /\ \A q \in Requests : q # r => req'[q] = req[q]
             /\ req'[r].doomed = req[r].doomed
      <3>1. CASE RetryAdmit(r)
        BY <1>1, <3>1 DEF RetryAdmit, ReqType
      <3>2. CASE RerunNext(r)
        <4>1. SUFFICES ASSUME ~Finish(r)
                       PROVE  /\ \A q \in Requests : q # r => req'[q] = req[q]
                              /\ req'[r].doomed = req[r].doomed
          OBVIOUS
        <4>2. PICK s \in req[r].sids :
                 req' = [req EXCEPT ![r].sids = @ \ {s},
                                    ![r].sid = s,
                                    ![r].at = IF config[s] = Absent
                                              THEN "rerun_next"
                                              ELSE "append_read"]
          BY <3>2, <4>1 DEF RerunNext
        <4> QED
          BY <1>1, <4>2 DEF ReqType
      <3>3. CASE AppendRead(r)
        BY <1>1, <3>3 DEF AppendRead, ReqType
      <3> QED
        BY <1>7, <3>1, <3>2, <3>3
    <2> QED
      BY <1>5, <1>6, <2>1
  <1>8. CASE ~(RetryAdmit(r) \/ RerunNext(r) \/ AppendRead(r))
    BY <1>4, <1>5, <1>8
    DEF CreateAdmit, CreateSaveStatus, CreateSaveCost, Reject, RetryDebit, RetrySaveCost,
        AppendWrite, Trigger, WipeAccount, ViewEnd, Abort
  <1> QED
    BY <1>7, <1>8

LEMMA ResultsDeleteList ==
    ASSUME ResultsInv, FreshInv', NEW r \in Requests, job' = job, DeleteList(r)
    PROVE  ResultsInv'
  <1>1. /\ UNCHANGED <<config, results, trail>>
        /\ \A q \in Requests : q # r => req'[q] = req[q]
        /\ req'[r].doomed = BlobsUnder(req[r].sids)
    BY RequestFacts DEF ResultsInv, FreshInv, DeleteList, simVars, ReqType
  <1>2. Ordered(req'[r])
    BY <1>1 DEF Ordered, BlobsUnder, BlobExists, BlobNames
  <1> QED
    BY <1>1, <1>2, ResultsRequest

\* the results are next only when the configuration is gone
LEMMA ConfigFirst ==
    ASSUME ResultsInv, NEW r \in Requests, NEW x \in req[r].doomed,
           \A y \in req[r].doomed \ {x} : ListedBefore(x, y),
           x[2] = "results.json"
    PROVE  config[x[1]] = Absent
  <1>1. x \in SimIds \X BlobNames
    BY RequestFacts DEF ResultsInv, FreshInv, ReqType
  <1>2. x[1] \in Nat /\ x = <<x[1], "results.json">>
    BY <1>1, SimIdsAssumption
  <1>3. <<x[1], "config.json">> \notin req[r].doomed
    <2> DEFINE y == <<x[1], "config.json">>
    <2>1. SUFFICES ASSUME y \in req[r].doomed
                   PROVE  FALSE
      OBVIOUS
    <2>2. y # x /\ y[1] = x[1] /\ y[2] = "config.json"
      BY <1>2
    <2>3. ListedBefore(x, y)
      BY <2>1, <2>2
    <2>4. Rank["results.json"] = 3 /\ Rank["config.json"] = 1
      BY DEF Rank, BlobNames
    <2> HIDE DEF y
    <2> QED
      BY <1>2, <2>2, <2>3, <2>4 DEF ListedBefore
  <1> QED
    BY <1>1, <1>2, <1>3 DEF ResultsInv, Ordered

LEMMA ResultsDeleteNext ==
    ASSUME ResultsInv, FreshInv', NEW r \in Requests, job' = job, DeleteNext(r)
    PROVE  ResultsInv'
  <1>1. req[r] \in ReqType /\ req \in [Requests -> ReqType]
    BY RequestFacts DEF ResultsInv, FreshInv
  <1>2. CASE UNCHANGED blobs /\ Finish(r)
    BY <1>2, ResultsEnd DEF blobs
  <1>3. ASSUME NEW x \in req[r].doomed, DeleteBlob(x),
               \A y \in req[r].doomed \ {x} : ListedBefore(x, y),
               req' = [req EXCEPT ![r].doomed = @ \ {x}] \/ Finish(r)
        PROVE  ResultsInv'
    <2>1. x \in SimIds \X BlobNames
      BY <1>1 DEF ReqType
    <2>2. /\ config \in [SimIds -> Estimates \cup {Absent}]
          /\ trail \in [SimIds -> Seq(Status) \cup {Absent}]
          /\ results \in [SimIds -> BOOLEAN]
      BY DEF ResultsInv, FreshInv, SimInv, SimulationTypeOK
    <2>3. ASSUME NEW s \in SimIds, HasResults(s)
          PROVE  HasResults(s)'
      <3>1. CASE x[2] = "results.json"
        <4>1. config[x[1]] = Absent
          BY <1>3, <3>1, ConfigFirst
        <4> QED
          BY <1>3, <2>1, <2>2, <2>3, <3>1, <4>1 DEF DeleteBlob, HasResults
      <3>2. CASE x[2] # "results.json"
        BY <1>3, <2>1, <2>2, <2>3, <3>2 DEF DeleteBlob, HasResults
      <3> QED
        BY <3>1, <3>2
    <2>4. ASSUME NEW q \in Requests, NEW s \in SimIds,
                 <<s, "results.json">> \in req'[q].doomed
          PROVE  config'[s] = Absent \/ <<s, "config.json">> \in req'[q].doomed
      <3>1. \/ req'[q].doomed = req[q].doomed
            \/ req'[q].doomed = req[q].doomed \ {x}
            \/ req'[q].doomed = {}
        BY <1>1, <1>3 DEF Finish, NoRequest, ReqType
      <3>2. config[s] = Absent \/ <<s, "config.json">> \in req[q].doomed
        BY <2>4, <3>1 DEF ResultsInv, Ordered
      <3>3. CASE x = <<s, "config.json">>
        BY <1>3, <2>2, <3>3 DEF DeleteBlob
      <3>4. CASE x # <<s, "config.json">>
        <4>1. config[s] = Absent => config'[s] = Absent
          BY <1>3, <2>1, <2>2 DEF DeleteBlob
        <4> QED
          BY <2>4, <3>1, <3>2, <3>4, <4>1
      <3> QED
        BY <3>3, <3>4
    <2>5. ASSUME NEW w \in Workers, Concluding(job[w])'
          PROVE  HasResults(job[w].sid)'
      <3>1. Concluding(job[w]) /\ job'[w].sid = job[w].sid
        BY <2>5
      <3>2. job[w].sid \in SimIds
        BY <3>1, WorkerFacts DEF ResultsInv, FreshInv, Concluding
      <3> QED
        BY <2>3, <3>1, <3>2 DEF ResultsInv, HasResults
    <2>6. ASSUME NEW s \in SimIds, trail'[s] # Absent, StatusOf(s)' = "done"
          PROVE  HasResults(s)'
      <3>1. trail'[s] = trail[s]
        BY <1>3, <2>1, <2>2, <2>6 DEF DeleteBlob
      <3> QED
        BY <2>3, <2>6, <3>1 DEF ResultsInv, StatusOf
    <2> QED
      BY <2>4, <2>5, <2>6 DEF ResultsInv, Ordered
  <1> QED
    BY <1>2, <1>3 DEF DeleteNext

LEMMA ResultsPush ==
    ASSUME ResultsInv, FreshInv', NEW w \in Workers, PushStep(w)
    PROVE  ResultsInv'
  <1>1. req' = req
    BY DEF PushStep, apiVars
  <1>2. /\ config' = config
        /\ \A s \in SimIds : HasResults(s) => HasResults(s)'
    <2>1. ASSUME NEW t \in SimIds, Deliver(w, t)
          PROVE  /\ config' = config
                 /\ \A s \in SimIds : HasResults(s) => HasResults(s)'
      BY <2>1 DEF Deliver, blobs, HasResults
    <2> QED
      BY <2>1, WorkerStores DEF PushStep, ResultsInv, FreshInv, HasResults
  <1>3. \A q \in Requests : Ordered(req[q])'
    BY <1>1, <1>2 DEF ResultsInv, Ordered
  <1>4. ASSUME NEW v \in Workers, Concluding(job[v])'
        PROVE  HasResults(job[v].sid)'
    <2>1. ASSUME Concluding(job[v]), job'[v].sid = job[v].sid
          PROVE  HasResults(job[v].sid)'
      <3>1. job[v].sid \in SimIds
        BY <2>1, WorkerFacts DEF ResultsInv, FreshInv, Concluding
      <3> QED
        BY <1>2, <2>1, <3>1 DEF ResultsInv, HasResults
    <2>2. ASSUME NEW t \in SimIds, Deliver(w, t)
          PROVE  HasResults(job[v].sid)'
      <3>1. job'[w].at = "config" /\ \A u \in Workers : u # w => job'[u] = job[u]
        BY <2>2, WorkerFacts DEF Deliver, NoJob, ResultsInv, FreshInv
      <3>2. v # w
        BY <1>4, <3>1 DEF Concluding
      <3> QED
        BY <1>4, <2>1, <3>1, <3>2
    <2>3. CASE SaveResults(w)
      <3>1. \A u \in Workers : u # w => job'[u] = job[u]
        BY <2>3, TurnIs DEF SaveResults, ResultsInv, FreshInv
      <3>2. CASE v = w
        <4>1. job[w].sid \in SimIds /\ job'[w].sid = job[w].sid
          BY <2>3, WorkerFacts, TurnIs DEF SaveResults, On, ResultsInv, FreshInv
        <4>2. results'[job[w].sid]
          BY <2>3, <4>1 DEF SaveResults, ResultsInv, FreshInv, SimInv, SimulationTypeOK
        <4> QED
          BY <3>2, <4>1, <4>2 DEF HasResults
      <3> QED
        BY <1>4, <2>1, <3>1, <3>2
    <2>4. CASE Moves(w)
      BY <1>4, <2>1, <2>4 DEF Moves
    <2> QED
      BY <2>2, <2>3, <2>4, RunMoves, BillingMoves, FailMoves, FaultMoves
      DEF PushStep, WorkerStep, ResultsInv, FreshInv
  <1>5. ASSUME NEW s \in SimIds, trail'[s] # Absent, StatusOf(s)' = "done"
        PROVE  HasResults(s)'
    <2>1. CASE trail'[s] = trail[s]
      BY <1>2, <1>5, <2>1 DEF ResultsInv, StatusOf
    <2>2. CASE trail'[s] # trail[s]
      <3>1. WriteStatus(w)
        BY <2>2
        DEF PushStep, WorkerStep, Deliver, ReadConfig, ReadStatus, Simulate, SaveResults,
            Reconcile, Overage, Partial, SaveCost, FailCost, Refunded, SaveRefund, Ack,
            Crash, Redeliver, StorageRaises, simVars, blobs
      <3> DEFINE longer == Append(job[w].events, job[w].next)
      <3>2. /\ job[w] \in JobType /\ job[w].sid \in SimIds /\ job[w].at = "status_write"
            /\ trail' = [trail EXCEPT ![job[w].sid] = longer]
        BY <3>1, WorkerFacts DEF WriteStatus, On, ResultsInv, FreshInv
      <3>3. Last(longer) = job[w].next
        BY <3>2, AppendType DEF JobType
      <3> HIDE DEF longer
      <3>4. s = job[w].sid /\ trail'[s] = longer
        BY <2>2, <3>2 DEF ResultsInv, FreshInv, SimInv, SimulationTypeOK
      <3>5. job[w].next = "done"
        BY <1>5, <3>3, <3>4 DEF StatusOf
      <3> QED
        BY <1>2, <3>2, <3>4, <3>5 DEF ResultsInv, Concluding
    <2> QED
      BY <2>1, <2>2
  <1> QED
    BY <1>3, <1>4, <1>5 DEF ResultsInv
-----------------------------------------------------------------------------
LEMMA NobodyActs ==
    ASSUME ResultsInv, SimInv', UNCHANGED <<simVars, req, issued, job>>
    PROVE  ResultsInv'
  BY DEF ResultsInv, FreshInv, Issuing, Unbegun, Untouched, NoBlobs, Ordered, HasResults,
         StatusOf, simVars

LEMMA InitHasResults == Init => ResultsInv
  <1> SUFFICES ASSUME Init
               PROVE  ResultsInv
    OBVIOUS
  <1>1. SimInv
    BY InitHasTypes
  <1>2. \A r \in Requests : req[r] = NoRequest
    BY DEF Init, InitApi
  <1>3. \A w \in Workers : job[w].at = "idle" /\ job[w].sid = Absent
    BY DEF Init, InitWorkers, NoJob
  <1>4. \A s \in SimIds : NoBlobs(s)
    BY DEF Init, InitSimulations, NoBlobs
  <1>5. Issuing
    BY <1>2, NoRequestSpares DEF Issuing
  <1>6. \A s \in SimIds : Untouched(s)
    BY <1>2, <1>3, <1>4, NoRequestSpares, NoIdIsAbsent DEF Untouched
  <1>7. \A r \in Requests : Ordered(req[r])
    BY <1>2 DEF Ordered, NoRequest
  <1> QED
    BY <1>1, <1>3, <1>4, <1>5, <1>6, <1>7
    DEF ResultsInv, FreshInv, Concluding, NoBlobs

LEMMA NextKeepsResults ==
    ASSUME ResultsInv, [Next]_vars
    PROVE  ResultsInv'
  <1>1. FreshInv /\ SimInv'
    BY NextKeepsTypes DEF ResultsInv, FreshInv
  <1>2. ASSUME NEW c \in Clients, AccountStep(c)
        PROVE  ResultsInv'
    BY <1>1, <1>2, NobodyActs DEF AccountStep, apiVars, workerVars
  <1>3. ASSUME NEW r \in Requests, ApiStep(r)
        PROVE  ResultsInv'
    <2>1. job' = job
      BY <1>3 DEF ApiStep, workerVars
    <2>2. CASE RequestStart(r)
      BY <1>1, <2>1, <2>2, FreshStart, ResultsStart
    <2>3. CASE RequestStep(r) \/ Abort(r)
      <3>1. issued' = issued
        BY <2>3
        DEF RequestStep, Abort, CreateAdmit, CreateSaveConfig, CreateSaveStatus,
            CreateSaveCost, RetryAdmit, RetryDebit, RetrySaveCost, Reject, RerunNext,
            AppendRead, AppendWrite, Trigger, DeleteList, WipeAccount, DeleteNext, ViewEnd,
            apiCounters
      <3>2. FreshInv'
        BY <1>1, <2>1, <2>3, <3>1, FreshCreate, FreshRetry, FreshTail, FreshDelete
        DEF RequestStep
      <3> QED
        BY <2>1, <2>3, <3>2, ResultsSaveConfig, ResultsSubmit, ResultsDeleteList,
           ResultsDeleteNext
        DEF RequestStep
    <2> QED
      BY <1>3, <2>2, <2>3 DEF ApiStep
  <1>4. ASSUME NEW w \in Workers, PushStep(w)
        PROVE  ResultsInv'
    BY <1>1, <1>4, FreshPush, ResultsPush
  <1>5. CASE ClockStep \/ AtRest \/ UNCHANGED vars
    BY <1>1, <1>5, NobodyActs DEF ClockStep, AtRest, vars, apiVars, workerVars
  <1> QED
    BY <1>2, <1>3, <1>4, <1>5 DEF Next

(***************************************************************************)
(* GET /simulations/{id}/results never answers "Results not found" for a   *)
(* simulation that can still be listed, whatever requests, deletes and     *)
(* wipes, duplicate deliveries, crashes and storage failures there are.    *)
(***************************************************************************)
THEOREM DoneRunsHaveResults == Spec => []DoneHasResults
  <1>1. ResultsInv /\ [Next]_vars => ResultsInv'
    BY NextKeepsResults
  <1>2. ResultsInv => DoneHasResults
    <2> SUFFICES ASSUME ResultsInv, NEW s \in Listed
                 PROVE  ResultsAnswer(s) # "no results"
      BY DEF DoneHasResults
    <2>1. /\ s \in SimIds /\ trail[s] \in Seq(Status) /\ trail[s] # << >>
          /\ trail[s] # Absent /\ config[s] # Absent
      BY DEF Listed, ResultsInv, FreshInv, SimInv, SimulationTypeOK
    <2>2. StatusOf(s) \in Status
      BY <2>1 DEF StatusOf, Last
    <2>3. StatusOf(s) = "done" => results[s]
      BY <2>1 DEF ResultsInv, HasResults
    <2> QED
      BY <2>1, <2>2, <2>3 DEF ResultsAnswer, Status, ACTIVE_STATUSES
  <1> QED
    BY InitHasResults, <1>1, <1>2, PTL DEF Spec
-----------------------------------------------------------------------------
(***************************************************************************)
(* A user who waits for every answer, and messages that are delivered      *)
(* once: what create_simulation and retry_simulation check before they     *)
(* submit then still holds when they have submitted.  Workers may still    *)
(* meet storage failures, and requests may be cut off anywhere.            *)
(***************************************************************************)
OneAtATime ==
    /\ \A r, q \in Requests : r = q
    /\ Kinds \subseteq {"create", "retry", "view"}
    /\ MaxCrashes = 0
    /\ MaxRedeliveries = 0

Busy(w) == job[w].at \notin {"idle", "ack"}

\* a cost record that pays for a run that is done
Pays(record) ==
    /\ record # Absent
    /\ ~record.refunded
    /\ record.tokens_charged >= record.estimated_tokens

Announcing(j) == j.at \in {"status_read", "status_write"}

Beginning(j) == j.at = "config" \/ (Announcing(j) /\ j.next = "running")

Failing(j) ==
    \/ j.at \in {"fail_cost", "refund", "refund_save"}
    \/ Announcing(j) /\ j.next = "failed"

Submitted(s) == StatusOf(s) \in {"pending", "retried"}

NoneInFlight ==
    /\ \A s \in SimIds : queue[s] = 0
    /\ \A w \in Workers : ~Busy(w)

\* at most one simulation is active, and it is delivered to one worker
Alone ==
    /\ \A s, t \in Active : s = t
    /\ \A v, w \in Workers : Busy(v) /\ Busy(w) => v = w
    /\ \A w \in Workers, s \in SimIds : Busy(w) => queue[s] = 0
    /\ \A s \in SimIds : queue[s] <= 1

\* a simulation that is published has been submitted and paid
Waits(s) == queue[s] > 0 => s \in Active /\ Submitted(s) /\ Pays(cost[s])

\* what worker w can rely on while it is busy
JobFits(w) ==
    Busy(w) =>
        /\ job[w].sid \in Active
        /\ Announcing(job[w]) => job[w].next \in {"running", "done", "failed"}
        /\ job[w].at = "status_write" => job[w].events = trail[job[w].sid]
        /\ ~Failing(job[w]) => Pays(cost[job[w].sid])
        /\ job[w].at \in {"overage", "partial", "cost_save"} => Pays(job[w].record)
        /\ MaxFaults = 0 => IF Beginning(job[w])
                            THEN Submitted(job[w].sid)
                            ELSE StatusOf(job[w].sid) = "running"

SerialStages ==
    {"idle", "create_account", "create_debit", "create_status", "create_cost", "publish",
     "retry_checks", "retry_account", "retry_debit", "append_read", "append_write", "view"}

Resubmitting == {"retry_account", "retry_debit", "append_read", "append_write"}

\* what request q can rely on: nothing is active once it has been admitted
RequestFits(q) ==
    /\ q.at \in SerialStages
    /\ q.kind # "rerun"
    /\ q.at \in {"create_debit", "create_status"} \cup Resubmitting => Active = {}
    /\ q.at = "create_status" => trail[q.sid] = Absent /\ config[q.sid] # Absent
    /\ q.at = "retry_checks" => q.sid \notin Active /\ trail[q.sid] # Absent
    /\ q.at \in Resubmitting => q.sid \in Listed
    /\ q.at = "append_write" => q.events = trail[q.sid]
    /\ q.at \in {"append_read", "append_write", "publish"} => Pays(cost[q.sid])
    /\ q.at \in {"create_cost", "publish"} =>
          q.sid \in Active /\ Submitted(q.sid) /\ NoneInFlight

\* a trail that MayFollow accepts, event by event
Orderly(events) ==
    /\ events[1] = "pending"
    /\ \A i \in 1 .. Len(events) - 1 : MayFollow(events[i], events[i + 1])

Counted == faults \in Nat /\ crashes \in Nat /\ redeliveries \in Nat

SerialInv ==
    /\ ResultsInv
    /\ Counted
    /\ Alone
    /\ \A s \in SimIds : Waits(s)
    /\ \A w \in Workers : JobFits(w)
    /\ \A r \in Requests : RequestFits(req[r])
    /\ DoneRunsArePaid
    /\ MaxFaults = 0 => TrailTellsLifecycle

\* what every step may assume of the state it starts in
LEMMA SerialFacts ==
    ASSUME SerialInv
    PROVE  /\ SimInv /\ SimulationTypeOK
           /\ Active \subseteq Listed /\ Listed \subseteq SimIds
           /\ \A s \in Listed : /\ trail[s] # Absent /\ config[s] # Absent
                                /\ trail[s] \in Seq(Status) /\ trail[s] # << >>
                                /\ StatusOf(s) \in Status
                                /\ s \in Active <=> StatusOf(s) \in ACTIVE_STATUSES
  <1>1. SimInv /\ SimulationTypeOK
    BY DEF SerialInv, ResultsInv, FreshInv, SimInv
  <1>2. ASSUME NEW s \in Listed
        PROVE  /\ trail[s] # Absent /\ config[s] # Absent
               /\ trail[s] \in Seq(Status) /\ trail[s] # << >>
               /\ StatusOf(s) \in Status
               /\ s \in Active <=> StatusOf(s) \in ACTIVE_STATUSES
    <2>1. trail[s] # Absent /\ trail[s] \in Seq(Status) /\ trail[s] # << >>
      BY <1>1 DEF Listed, SimulationTypeOK
    <2>2. StatusOf(s) \in Status
      BY <2>1 DEF StatusOf, Last
    <2> QED
      BY <2>1, <2>2 DEF Listed, Active
  <1> QED
    BY <1>1, <1>2 DEF Active, Listed

\* a step of a busy worker that leaves it busy: it bills its own simulation, and
\* changes neither what is active nor what is published
LEMMA BusyStep ==
    ASSUME SerialInv, ResultsInv', Counted', NEW w \in Workers, Busy(w), Busy(w)',
           UNCHANGED <<config, trail, queue, req>>,
           \A v \in Workers : v # w => job'[v] = job[v],
           job'[w].sid = job[w].sid,
           \A s \in SimIds : s # job[w].sid => cost'[s] = cost[s],
           JobFits(w)'
    PROVE  SerialInv'
  <1>1. /\ job[w].sid \in Active
        /\ \A v \in Workers : v # w => ~Busy(v)
        /\ \A s \in SimIds : queue[s] = 0
    BY DEF SerialInv, Alone, JobFits
  <1>2. /\ Active' = Active /\ Listed' = Listed
        /\ \A s : StatusOf(s)' = StatusOf(s)
    BY DEF Active, Listed, StatusOf
  <1>3. \A v \in Workers : v # w => ~Busy(v)'
    BY <1>1 DEF Busy
  <1>4. Alone'
    BY <1>1, <1>2, <1>3 DEF SerialInv, Alone
  <1>5. \A s \in SimIds : Waits(s)'
    BY <1>1 DEF Waits
  <1>6. \A v \in Workers : JobFits(v)'
    BY <1>3 DEF JobFits
  <1>7. ASSUME NEW r \in Requests
        PROVE  RequestFits(req[r])'
    <2>1. RequestFits(req[r]) /\ req' = req
      BY DEF SerialInv
    <2>2. Active # {} /\ ~NoneInFlight
      BY <1>1 DEF NoneInFlight
    <2> QED
      BY <1>2, <2>1, <2>2 DEF RequestFits, Resubmitting
  <1>8. DoneRunsArePaid'
    <2> SUFFICES ASSUME NEW s \in Listed, StatusOf(s) = "done"
                 PROVE  Pays(cost[s])'
      BY <1>2 DEF DoneRunsArePaid, Pays
    <2>1. Pays(cost[s]) /\ s \in SimIds
      BY SerialFacts DEF SerialInv, DoneRunsArePaid, Pays
    <2>2. s # job[w].sid
      BY <1>1 DEF Active, ACTIVE_STATUSES
    <2> QED
      BY <2>1, <2>2 DEF Pays
  <1>9. TrailTellsLifecycle' <=> TrailTellsLifecycle
    BY DEF TrailTellsLifecycle
  <1> QED
    BY <1>4, <1>5, <1>6, <1>7, <1>8, <1>9 DEF SerialInv

\* the cases that store nothing
LEMMA BusyQuiet ==
    ASSUME SerialInv, ResultsInv', Counted', NEW w \in Workers, Busy(w), Busy(w)',
           UNCHANGED simVars, req' = req,
           \A v \in Workers : v # w => job'[v] = job[v],
           job'[w].sid = job[w].sid,
           JobFits(w)'
    PROVE  SerialInv'
  BY BusyStep DEF simVars

\* a worker that announces a status
LEMMA AnnounceFits ==
    ASSUME SerialInv, NEW w \in Workers, Busy(w),
           UNCHANGED <<config, trail>>,
           NEW status \in {"running", "done", "failed"}, Announce(w, status),
           status = "running" => Beginning(job[w]),
           status # "running" /\ MaxFaults = 0 => ~Beginning(job[w]),
           status # "failed" => Pays(cost[job[w].sid])'
    PROVE  /\ JobFits(w)' /\ Busy(w)'
           /\ \A v \in Workers : v # w => job'[v] = job[v]
           /\ job'[w].sid = job[w].sid
  <1>1. /\ \A v \in Workers : v # w => job'[v] = job[v]
        /\ job'[w].at = "status_read" /\ job'[w].sid = job[w].sid
        /\ job'[w].next = status
    BY SerialFacts, AnnounceIs
  <1>2. /\ job'[w].sid \in Active' /\ JobFits(w)
        /\ StatusOf(job[w].sid)' = StatusOf(job[w].sid)
    BY <1>1 DEF SerialInv, JobFits, Active, Listed, StatusOf
  <1>3. Busy(w)'
    BY <1>1 DEF Busy
  <1>4. Announcing(job[w])' /\ (Failing(job[w])' <=> status = "failed")
        /\ (Beginning(job[w])' <=> status = "running")
    BY <1>1 DEF Announcing, Failing, Beginning
  <1>5. JobFits(w)'
    BY <1>1, <1>2, <1>3, <1>4 DEF JobFits, Submitted
  <1> QED
    BY <1>1, <1>3, <1>5

\* a worker that turns to another stage, its job otherwise unchanged
LEMMA TurnFits ==
    ASSUME SerialInv, NEW w \in Workers, Busy(w),
           UNCHANGED <<config, trail>>,
           NEW stage, Turn(w, stage),
           stage \in {"fail_cost", "reconcile", "partial", "cost_save", "refund_save"},
           Beginning(job[w]) => stage = "fail_cost" /\ MaxFaults # 0,
           stage \in {"reconcile", "partial", "cost_save"} =>
              ~Failing(job[w]) /\ cost' = cost,
           stage \in {"partial", "cost_save"} => Pays(job[w].record)
    PROVE  /\ JobFits(w)' /\ Busy(w)'
           /\ \A v \in Workers : v # w => job'[v] = job[v]
           /\ job'[w].sid = job[w].sid
  <1>1. /\ \A v \in Workers : v # w => job'[v] = job[v]
        /\ job'[w].at = stage /\ job'[w].sid = job[w].sid
    BY SerialFacts, TurnIs
  <1>2. job'[w].record = job[w].record
    BY SerialFacts, WorkerFacts DEF Turn, JobType
  <1>3. /\ job'[w].sid \in Active' /\ JobFits(w)
        /\ StatusOf(job[w].sid)' = StatusOf(job[w].sid)
    BY <1>1 DEF SerialInv, JobFits, Active, Listed, StatusOf
  <1>4. Busy(w)'
    BY <1>1 DEF Busy
  <1>5. ~Announcing(job[w])' /\ ~Beginning(job[w])'
        /\ (Failing(job[w])' <=> stage \in {"fail_cost", "refund_save"})
    BY <1>1 DEF Announcing, Failing, Beginning
  <1>6. JobFits(w)'
    BY <1>1, <1>2, <1>3, <1>4, <1>5 DEF JobFits, Pays
  <1> QED
    BY <1>1, <1>4, <1>6

LEMMA SerialRun ==
    ASSUME SerialInv, ResultsInv', Counted', NEW w \in Workers, req' = req,
           ReadConfig(w) \/ ReadStatus(w) \/ Simulate(w) \/ SaveResults(w)
    PROVE  SerialInv'
  <1>1. job \in [Workers -> JobType] /\ job[w] \in JobType /\ SimulationTypeOK
    BY SerialFacts, WorkerFacts
  <1>2. Busy(w) /\ JobFits(w)
    BY DEF ReadConfig, ReadStatus, Simulate, SaveResults, On, Busy, SerialInv
  <1>3. job[w].sid \in Active /\ config[job[w].sid] # Absent /\ trail[job[w].sid] # Absent
    BY <1>2, SerialFacts DEF JobFits
  <1>4. CASE ReadConfig(w)
    <2>1. Announce(w, "running") /\ UNCHANGED simVars
      BY <1>3, <1>4 DEF ReadConfig
    <2>2. Beginning(job[w]) /\ ~Failing(job[w])
      BY <1>4 DEF ReadConfig, On, Beginning, Failing, Announcing
    <2>3. Pays(cost[job[w].sid])'
      BY <1>2, <2>1, <2>2, SerialFacts, AnnounceIs DEF JobFits, simVars, Pays
    <2> QED
      BY <1>2, <2>1, <2>2, <2>3, AnnounceFits, BusyQuiet DEF simVars
  <1>5. CASE ReadStatus(w)
    <2>1. /\ \A v \in Workers : v # w => job'[v] = job[v]
          /\ job[w].at = "status_read" /\ job'[w].at = "status_write"
          /\ job'[w].sid = job[w].sid /\ job'[w].next = job[w].next
          /\ job'[w].events = trail[job[w].sid]
      BY <1>1, <1>3, <1>5 DEF ReadStatus, On, JobType, RecordToAppendTo
    <2>2. UNCHANGED simVars
      BY <1>5 DEF ReadStatus
    <2>3. /\ job'[w].sid \in Active'
          /\ Submitted(job[w].sid)' = Submitted(job[w].sid)
          /\ StatusOf(job[w].sid)' = StatusOf(job[w].sid)
          /\ Pays(cost[job[w].sid]) => Pays(cost[job[w].sid])'
      BY <1>3, <2>1, <2>2 DEF simVars, Active, Listed, StatusOf, Submitted, Pays
    <2>4. /\ Announcing(job[w]) /\ Announcing(job[w])' /\ Busy(w)'
          /\ Failing(job[w])' <=> Failing(job[w])
          /\ Beginning(job[w])' <=> Beginning(job[w])
      BY <2>1 DEF Announcing, Failing, Beginning, Busy
    <2>5. JobFits(w)'
      BY <1>2, <2>1, <2>2, <2>3, <2>4 DEF JobFits, simVars, Submitted
    <2> QED
      BY <1>2, <2>1, <2>2, <2>4, <2>5, BusyQuiet
  <1>6. CASE Simulate(w)
    <2>1. UNCHANGED simVars
      BY <1>6 DEF Simulate
    <2>2. ~Beginning(job[w]) /\ ~Failing(job[w])
      BY <1>6 DEF Simulate, On, Beginning, Failing, Announcing
    <2>3. CASE Turn(w, "fail_cost")
      BY <1>2, <2>1, <2>2, <2>3, TurnFits, BusyQuiet DEF simVars
    <2>4. ASSUME NEW a \in Actuals,
                 job' = [job EXCEPT ![w].at = "results", ![w].actual = a]
          PROVE  SerialInv'
      <3>1. /\ \A v \in Workers : v # w => job'[v] = job[v]
            /\ job'[w].at = "results" /\ job'[w].sid = job[w].sid
        BY <1>1, <2>4 DEF JobType
      <3>2. /\ ~Announcing(job[w])' /\ ~Failing(job[w])' /\ ~Beginning(job[w])' /\ Busy(w)'
        BY <3>1 DEF Announcing, Failing, Beginning, Busy
      <3>3. /\ job'[w].sid \in Active' /\ StatusOf(job[w].sid)' = StatusOf(job[w].sid)
        BY <1>3, <2>1, <3>1 DEF simVars, Active, Listed, StatusOf
      <3>4. JobFits(w)'
        BY <1>2, <2>1, <2>2, <3>1, <3>2, <3>3 DEF JobFits, simVars, Pays
      <3> QED
        BY <1>2, <2>1, <3>1, <3>2, <3>4, BusyQuiet
    <2> QED
      BY <1>6, <2>3, <2>4 DEF Simulate
  <1>7. CASE SaveResults(w)
    <2>1. ~Beginning(job[w]) /\ ~Failing(job[w])
      BY <1>7 DEF SaveResults, On, Beginning, Failing, Announcing
    <2> QED
      BY <1>2, <1>7, <2>1, TurnFits, BusyStep DEF SaveResults
  <1> QED
    BY <1>4, <1>5, <1>6, <1>7

\* what the bookkeeping of a run saves still pays for it
LEMMA SerialBilling ==
    ASSUME SerialInv, ResultsInv', Counted', NEW w \in Workers, req' = req,
           Reconcile(w) \/ Overage(w) \/ Partial(w) \/ SaveCost(w)
    PROVE  SerialInv'
  <1>1. /\ job \in [Workers -> JobType] /\ job[w] \in JobType
        /\ SimInv /\ SimulationTypeOK /\ job[w].sid \in SimIds
    BY SerialFacts, WorkerFacts DEF Reconcile, Overage, Partial, SaveCost, On
  <1>2. /\ Busy(w) /\ JobFits(w) /\ ~Beginning(job[w]) /\ ~Failing(job[w])
    BY DEF Reconcile, Overage, Partial, SaveCost, On, Busy, SerialInv, Beginning, Failing,
           Announcing
  <1>3. job[w].sid \in Active /\ Pays(cost[job[w].sid])
    BY <1>2 DEF JobFits
  <1>4. ASSUME UNCHANGED simVars, Announce(w, "done")
        PROVE  SerialInv'
    <2>1. Pays(cost[job[w].sid])'
      BY <1>1, <1>3, <1>4, AnnounceIs DEF simVars, Pays
    <2> QED
      BY <1>2, <1>4, <2>1, AnnounceFits, BusyQuiet DEF simVars
  <1>5. ASSUME UNCHANGED simVars, NEW tokens \in Nat, Charged(w, tokens),
               job[w].record \in CostRecord, Pays(job[w].record)
        PROVE  SerialInv'
    <2> DEFINE record == [job[w].record EXCEPT !.tokens_charged = @ + tokens]
    <2>1. /\ \A v \in Workers : v # w => job'[v] = job[v]
          /\ job'[w].at = "cost_save" /\ job'[w].sid = job[w].sid
          /\ job'[w].record = record
      BY <1>1, <1>5 DEF Charged, JobType
    <2>2. record \in CostRecord /\ Pays(record)
      <3>1. /\ record \in CostRecord
            /\ record.refunded = job[w].record.refunded
            /\ record.estimated_tokens = job[w].record.estimated_tokens
            /\ record.tokens_charged = job[w].record.tokens_charged + tokens
        BY <1>5 DEF CostRecord
      <3>2. job[w].record.tokens_charged \in Nat /\ job[w].record.estimated_tokens \in Nat
        BY <1>5 DEF CostRecord
      <3> HIDE DEF record
      <3> QED
        BY <1>5, <3>1, <3>2, AbsentIsNoBlob DEF Pays
    <2> HIDE DEF record
    <2>3. /\ ~Announcing(job[w])' /\ ~Failing(job[w])' /\ ~Beginning(job[w])' /\ Busy(w)'
      BY <2>1 DEF Announcing, Failing, Beginning, Busy
    <2>4. /\ job'[w].sid \in Active' /\ StatusOf(job[w].sid)' = StatusOf(job[w].sid)
      BY <1>3, <1>5, <2>1 DEF simVars, Active, Listed, StatusOf
    <2>5. JobFits(w)'
      BY <1>2, <1>3, <1>5, <2>1, <2>2, <2>3, <2>4 DEF JobFits, simVars, Pays
    <2> QED
      BY <1>2, <1>5, <2>1, <2>3, <2>5, BusyQuiet
  <1>6. CASE Reconcile(w)
    <2> DEFINE record == cost[job[w].sid]
    <2>1. UNCHANGED simVars
      BY <1>6 DEF Reconcile
    <2>2. ASSUME NEW stage \in {"overage", "cost_save"},
                 job' = [job EXCEPT ![w].at = stage, ![w].record = record]
          PROVE  SerialInv'
      <3>1. /\ \A v \in Workers : v # w => job'[v] = job[v]
            /\ job'[w].at = stage /\ job'[w].sid = job[w].sid
            /\ job'[w].record = record
        BY <1>1, <2>2 DEF JobType
      <3>2. /\ ~Announcing(job[w])' /\ ~Failing(job[w])' /\ ~Beginning(job[w])' /\ Busy(w)'
        BY <3>1 DEF Announcing, Failing, Beginning, Busy
      <3>3. /\ job'[w].sid \in Active' /\ StatusOf(job[w].sid)' = StatusOf(job[w].sid)
        BY <1>3, <2>1, <3>1 DEF simVars, Active, Listed, StatusOf
      <3>4. JobFits(w)'
        BY <1>2, <1>3, <2>1, <3>1, <3>2, <3>3 DEF JobFits, simVars, Pays
      <3> QED
        BY <1>2, <2>1, <3>1, <3>2, <3>4, BusyQuiet
    <2>3. \/ Announce(w, "done")
          \/ \E stage \in {"overage", "cost_save"} :
                job' = [job EXCEPT ![w].at = stage, ![w].record = record]
      BY <1>6 DEF Reconcile
    <2> QED
      BY <1>4, <2>1, <2>2, <2>3
  <1>7. CASE Overage(w)
    <2>1. UNCHANGED simVars
      BY <1>7 DEF Overage
    <2>2. /\ job[w].record \in CostRecord /\ Pays(job[w].record)
          /\ job[w].actual \in Nat /\ job[w].actual > job[w].record.estimated_tokens
      BY <1>1, <1>2, <1>7, WorkerFacts DEF Overage, On, Works, JobFits
    <2>3. job[w].actual - job[w].record.estimated_tokens \in Nat
      <3>1. job[w].record.estimated_tokens \in Nat
        BY <2>2 DEF CostRecord
      <3> QED
        BY <2>2, <3>1
    <2>4. ASSUME NEW stage \in {"partial", "cost_save"}, Turn(w, stage)
          PROVE  SerialInv'
      BY <1>2, <2>1, <2>2, <2>4, TurnFits, BusyQuiet DEF simVars
    <2> QED
      BY <1>4, <1>5, <1>7, <2>1, <2>2, <2>3, <2>4 DEF Overage
  <1>8. CASE Partial(w)
    <2>1. UNCHANGED simVars
      BY <1>8 DEF Partial
    <2>2. job[w].record \in CostRecord /\ Pays(job[w].record) /\ call[w].op.tokens \in Nat
      BY <1>1, <1>2, <1>8, WorkerFacts, DebitFacts DEF Partial, On, Works, JobFits
    <2> QED
      BY <1>4, <1>5, <1>8, <2>1, <2>2 DEF Partial
  <1>9. CASE SaveCost(w)
    <2> DEFINE record == [job[w].record EXCEPT !.actual_tokens = job[w].actual]
    <2>1. /\ job[w].record \in CostRecord /\ job[w].actual \in Nat /\ Pays(job[w].record)
      BY <1>1, <1>2, <1>9, WorkerFacts DEF SaveCost, On, Works, JobFits
    <2>2. /\ record \in CostRecord
          /\ record.refunded = job[w].record.refunded
          /\ record.estimated_tokens = job[w].record.estimated_tokens
          /\ record.tokens_charged = job[w].record.tokens_charged
      BY <2>1 DEF CostRecord
    <2>3. cost' = [cost EXCEPT ![job[w].sid] = record]
      BY <1>9 DEF SaveCost
    <2> HIDE DEF record
    <2>4. Pays(record)
      BY <2>1, <2>2, AbsentIsNoBlob DEF Pays
    <2>5. /\ cost'[job[w].sid] = record
          /\ \A s \in SimIds : s # job[w].sid => cost'[s] = cost[s]
      BY <1>1, <2>3 DEF SimulationTypeOK
    <2>6. Pays(cost[job[w].sid])'
      <3>1. job'[w].sid = job[w].sid
        BY <1>1, <1>9, AnnounceIs DEF SaveCost
      <3> QED
        BY <2>4, <2>5, <3>1 DEF Pays
    <2> QED
      BY <1>2, <1>9, <2>5, <2>6, AnnounceFits, BusyStep DEF SaveCost
  <1> QED
    BY <1>6, <1>7, <1>8, <1>9

LEMMA SerialFail ==
    ASSUME SerialInv, ResultsInv', Counted', NEW w \in Workers, req' = req,
           FailCost(w) \/ Refunded(w) \/ SaveRefund(w)
    PROVE  SerialInv'
  <1>1. /\ job \in [Workers -> JobType] /\ job[w] \in JobType
        /\ SimInv /\ SimulationTypeOK /\ job[w].sid \in SimIds
    BY SerialFacts, WorkerFacts DEF FailCost, Refunded, SaveRefund, On
  <1>2. /\ Busy(w) /\ JobFits(w) /\ ~Beginning(job[w])
    BY DEF FailCost, Refunded, SaveRefund, On, Busy, SerialInv, Beginning, Announcing
  <1>3. ASSUME UNCHANGED simVars, Announce(w, "failed")
        PROVE  SerialInv'
    BY <1>2, <1>3, AnnounceFits, BusyQuiet DEF simVars
  <1>4. ASSUME UNCHANGED simVars, NEW record,
               job' = [job EXCEPT ![w].at = "refund", ![w].record = record]
        PROVE  SerialInv'
    <2>1. /\ \A v \in Workers : v # w => job'[v] = job[v]
          /\ job'[w].at = "refund" /\ job'[w].sid = job[w].sid
      BY <1>1, <1>4 DEF JobType
    <2>2. /\ ~Announcing(job[w])' /\ Failing(job[w])' /\ ~Beginning(job[w])' /\ Busy(w)'
      BY <2>1 DEF Announcing, Failing, Beginning, Busy
    <2>3. /\ job'[w].sid \in Active' /\ StatusOf(job[w].sid)' = StatusOf(job[w].sid)
      BY <1>2, <1>4, <2>1 DEF simVars, Active, Listed, StatusOf, JobFits
    <2>4. JobFits(w)'
      BY <1>2, <2>1, <2>2, <2>3 DEF JobFits
    <2> QED
      BY <1>2, <1>4, <2>1, <2>2, <2>4, BusyQuiet
  <1>5. CASE FailCost(w)
    BY <1>3, <1>4, <1>5 DEF FailCost
  <1>6. CASE Refunded(w)
    BY <1>2, <1>3, <1>6, TurnFits, BusyQuiet DEF Refunded, simVars
  <1>7. CASE SaveRefund(w)
    <2>1. \A s \in SimIds : s # job[w].sid => cost'[s] = cost[s]
      BY <1>1, <1>7 DEF SaveRefund, SimulationTypeOK
    <2> QED
      BY <1>2, <1>7, <2>1, AnnounceFits, BusyStep DEF SaveRefund
  <1> QED
    BY <1>5, <1>6, <1>7

\* an orderly trail and the event that follows its last one
LEMMA OrderlyAppend ==
    ASSUME NEW events \in Seq(Status), events # << >>, Orderly(events),
           NEW e \in Status, MayFollow(Last(events), e)
    PROVE  Orderly(Append(events, e))
  <1> DEFINE longer == Append(events, e)
             n == Len(events)
  <1>1. /\ n \in Nat /\ n >= 1
        /\ Len(longer) = n + 1
        /\ \A i \in 1 .. n : longer[i] = events[i]
        /\ longer[n + 1] = e
    BY AppendProperties, EmptySeq
  <1>2. Last(events) = events[n]
    BY DEF Last
  <1> HIDE DEF longer, n
  <1>3. longer[1] = "pending"
    BY <1>1 DEF Orderly
  <1>4. ASSUME NEW i \in 1 .. Len(longer) - 1
        PROVE  MayFollow(longer[i], longer[i + 1])
    <2>1. i \in 1 .. n
      BY <1>1, <1>4
    <2>2. CASE i = n
      BY <1>1, <1>2, <2>1, <2>2
    <2>3. CASE i # n
      <3>1. i \in 1 .. n - 1 /\ i + 1 \in 1 .. n
        BY <1>1, <2>1, <2>3
      <3>2. MayFollow(events[i], events[i + 1])
        BY <3>1 DEF Orderly, n
      <3> QED
        BY <1>1, <2>1, <3>1, <3>2
    <2> QED
      BY <2>2, <2>3
  <1> QED
    BY <1>3, <1>4 DEF Orderly, longer

LEMMA TrailsAreOrderly ==
    TrailTellsLifecycle <=> \A s \in SimIds : trail[s] # Absent => Orderly(trail[s])
  BY DEF TrailTellsLifecycle, Orderly

\* the trail of the simulation that a worker is on gets its next event
LEMMA SerialWrite ==
    ASSUME SerialInv, ResultsInv', Counted', NEW w \in Workers, req' = req, WriteStatus(w),
           NEW s \in SimIds, job[w].sid = s, NEW next, job[w].next = next
    PROVE  SerialInv'
  <1> DEFINE longer == Append(trail[s], next)
  <1>1. /\ job \in [Workers -> JobType] /\ job[w] \in JobType
        /\ SimInv /\ SimulationTypeOK
    BY SerialFacts, WorkerFacts DEF WriteStatus, On
  <1>2. Busy(w) /\ JobFits(w) /\ Announcing(job[w])
    BY DEF WriteStatus, On, Busy, SerialInv, Announcing
  <1>3. /\ s \in Active /\ s \in Listed
        /\ next \in {"running", "done", "failed"}
        /\ job[w].events = trail[s]
        /\ trail[s] \in Seq(Status) /\ trail[s] # << >> /\ StatusOf(s) \in Status
        /\ trail[s] # Absent
    BY <1>2, SerialFacts DEF JobFits, WriteStatus, On
  <1>4. /\ longer \in Seq(Status) /\ longer # << >> /\ Last(longer) = next /\ longer # Absent
    <2>1. next \in Status
      BY <1>3 DEF Status
    <2> QED
      BY <1>3, <2>1, AppendType, AbsentIsNoBlob
  <1>5. /\ trail'[s] = longer
        /\ \A t \in SimIds : t # s => trail'[t] = trail[t]
        /\ UNCHANGED <<config, cost, queue>>
    BY <1>1, <1>3 DEF WriteStatus, SimulationTypeOK
  <1>6. /\ \A v \in Workers : v # w => job'[v] = job[v]
        /\ job'[w].at = IF next = "running" THEN "simulate" ELSE "ack"
        /\ job'[w].sid = s
    BY <1>1 DEF WriteStatus, JobType
  <1>7. /\ \A v \in Workers : v # w => ~Busy(v)
        /\ \A t \in SimIds : queue[t] = 0
    BY <1>2 DEF SerialInv, Alone
  <1>8. MaxFaults = 0 => MayFollow(StatusOf(s), next)
    BY <1>2, <1>3 DEF JobFits, Beginning, Announcing, Submitted, MayFollow
  <1>9. MaxFaults = 0 => Orderly(trail[s]) /\ Orderly(longer)
    <2> SUFFICES ASSUME MaxFaults = 0
                 PROVE  Orderly(trail[s]) /\ Orderly(longer)
      OBVIOUS
    <2>1. Orderly(trail[s])
      BY <1>1, <1>3, TrailsAreOrderly DEF SerialInv
    <2>2. next \in Status
      BY <1>3 DEF Status
    <2> QED
      BY <1>3, <1>8, <2>1, <2>2, OrderlyAppend DEF StatusOf
  <1> HIDE DEF longer
  <1>10. /\ StatusOf(s)' = next
         /\ \A t \in SimIds : t # s => StatusOf(t)' = StatusOf(t)
    BY <1>4, <1>5 DEF StatusOf
  <1>11. /\ Listed' = Listed
         /\ Active' \subseteq {s}
         /\ next = "running" => s \in Active'
    <2>1. Listed' = Listed
      BY <1>3, <1>4, <1>5 DEF Listed
    <2>2. \A t \in Active : t = s
      BY <1>3 DEF SerialInv, Alone
    <2>3. \A t \in Active' : t \in SimIds /\ (t # s => t \in Active)
      BY <2>1, <1>10 DEF Active, Listed
    <2>4. next = "running" => s \in Active'
      BY <2>1, <1>3, <1>10 DEF Active, ACTIVE_STATUSES
    <2> QED
      BY <2>1, <2>2, <2>3, <2>4
  <1>12. Pays(cost[s]) \/ next = "failed"
    BY <1>2, <1>3 DEF JobFits, Failing, Announcing
  <1>13. \A v \in Workers : v # w => ~Busy(v)'
    BY <1>6, <1>7 DEF Busy
  <1>14. Alone'
    BY <1>5, <1>7, <1>11, <1>13 DEF Alone
  <1>15. \A t \in SimIds : Waits(t)'
    BY <1>5, <1>7 DEF Waits
  <1>16. JobFits(w)'
    <2>1. CASE next = "running"
      <3>1. ~Announcing(job[w])' /\ ~Failing(job[w])' /\ ~Beginning(job[w])'
        BY <1>6, <2>1 DEF Announcing, Failing, Beginning
      <3> QED
        BY <1>5, <1>6, <1>10, <1>11, <1>12, <2>1, <3>1 DEF JobFits, Pays
    <2>2. CASE next # "running"
      BY <1>6, <2>2 DEF JobFits, Busy
    <2> QED
      BY <2>1, <2>2
  <1>17. \A v \in Workers : JobFits(v)'
    BY <1>13, <1>16 DEF JobFits
  <1>18. ASSUME NEW r \in Requests
         PROVE  RequestFits(req[r])'
    <2>1. RequestFits(req[r]) /\ req' = req
      BY DEF SerialInv
    <2>2. Active # {} /\ ~NoneInFlight
      BY <1>2, <1>3 DEF NoneInFlight
    <2>3. req[r].at = "retry_checks" => req[r].sid \in SimIds
      BY <1>1, RequestFacts DEF Remembers, Submitting
    <2>4. req[r].at = "retry_checks" =>
             trail'[req[r].sid] # Absent /\ req[r].sid \notin Active'
      BY <1>3, <1>4, <1>5, <1>11, <2>1, <2>3 DEF RequestFits
    <2> QED
      BY <2>1, <2>2, <2>4 DEF RequestFits, Resubmitting
  <1>19. DoneRunsArePaid'
    <2> SUFFICES ASSUME NEW t \in Listed, StatusOf(t)' = "done"
                 PROVE  Pays(cost[t])
      BY <1>5, <1>11 DEF DoneRunsArePaid, Pays
    <2>1. t \in SimIds
      BY DEF Listed
    <2>2. CASE t = s
      BY <1>10, <1>12, <2>2
    <2>3. CASE t # s
      BY <1>10, <2>1, <2>3 DEF SerialInv, DoneRunsArePaid, Pays
    <2> QED
      BY <2>2, <2>3
  <1>20. MaxFaults = 0 => TrailTellsLifecycle'
    <2> SUFFICES ASSUME MaxFaults = 0, NEW t \in SimIds, trail'[t] # Absent
                 PROVE  Orderly(trail'[t])
      BY DEF TrailTellsLifecycle, Orderly
    <2>1. CASE t = s
      BY <1>5, <1>9, <2>1
    <2>2. CASE t # s
      BY <1>5, <2>2, TrailsAreOrderly DEF SerialInv
    <2> QED
      BY <2>1, <2>2
  <1> QED
    BY <1>14, <1>15, <1>17, <1>18, <1>19, <1>20 DEF SerialInv

LEMMA SerialWriteStatus ==
    ASSUME SerialInv, ResultsInv', Counted', NEW w \in Workers, req' = req, WriteStatus(w)
    PROVE  SerialInv'
  <1>1. job[w].sid \in SimIds
    BY SerialFacts, WorkerFacts DEF WriteStatus, On
  <1> QED
    BY <1>1, SerialWrite

\* an idle worker takes the one message there is, or a finished run is
\* acknowledged
LEMMA SerialDeliver ==
    ASSUME SerialInv, ResultsInv', Counted', NEW w \in Workers, req' = req,
           Ack(w) \/ \E s \in SimIds : Deliver(w, s)
    PROVE  SerialInv'
  <1>1. /\ job \in [Workers -> JobType] /\ job[w] \in JobType
        /\ SimInv /\ SimulationTypeOK
    BY SerialFacts, WorkerFacts
  <1>2. CASE Ack(w)
    <2>1. /\ \A v \in Workers : v # w => job'[v] = job[v]
          /\ job'[w].at = "idle" /\ UNCHANGED simVars
      BY <1>1, <1>2 DEF Ack, NoJob
    <2>2. ~Busy(w) /\ ~Busy(w)' /\ \A v \in Workers : v # w => Busy(v)' = Busy(v)
      BY <1>2, <2>1 DEF Ack, On, Busy
    <2>3. /\ Active' = Active /\ Listed' = Listed
          /\ \A s : StatusOf(s)' = StatusOf(s) /\ Submitted(s)' = Submitted(s)
      BY <2>1 DEF simVars, Active, Listed, StatusOf, Submitted
    <2>4. Alone'
      BY <2>1, <2>2, <2>3 DEF SerialInv, Alone, simVars
    <2>5. \A s \in SimIds : Waits(s)'
      BY <2>1, <2>3 DEF SerialInv, Waits, simVars, Pays
    <2>6. ASSUME NEW v \in Workers
          PROVE  JobFits(v)'
      <3>1. CASE v = w
        BY <2>2, <3>1 DEF JobFits
      <3>2. CASE v # w
        BY <2>1, <2>2, <2>3, <3>2
        DEF SerialInv, JobFits, simVars, Announcing, Failing, Beginning, Pays
      <3> QED
        BY <3>1, <3>2
    <2>7. \A r \in Requests : RequestFits(req[r])'
      BY <2>1, <2>2, <2>3
      DEF SerialInv, RequestFits, simVars, Resubmitting, NoneInFlight, Pays
    <2>8. DoneRunsArePaid'
      BY <2>1, <2>3 DEF SerialInv, DoneRunsArePaid, simVars
    <2>9. TrailTellsLifecycle' <=> TrailTellsLifecycle
      BY <2>1 DEF TrailTellsLifecycle, simVars
    <2> QED
      BY <2>4, <2>5, <2>6, <2>7, <2>8, <2>9 DEF SerialInv
  <1>3. ASSUME NEW s \in SimIds, Deliver(w, s)
        PROVE  SerialInv'
    <2>1. /\ \A v \in Workers : v # w => job'[v] = job[v]
          /\ job[w].at = "idle"
          /\ job'[w].at = "config" /\ job'[w].sid = s
          /\ UNCHANGED <<config, trail, cost>>
      <3>1. /\ job[w].at = "idle" /\ UNCHANGED <<config, trail, cost>>
            /\ job' = [job EXCEPT ![w].at = "config", ![w].sid = s]
        BY <1>3 DEF Deliver, NoJob, blobs
      <3>2. job' = [job EXCEPT ![w] = [job[w] EXCEPT !.at = "config", !.sid = s]]
        BY <1>1, <3>1 DEF JobType
      <3> QED
        BY <1>1, <3>1, <3>2 DEF JobType
    <2>2. /\ queue[s] = 1
          /\ \A t \in SimIds : queue[t] \in Nat /\ (t # s => queue[t] = 0)
          /\ s \in Active /\ Submitted(s) /\ Pays(cost[s])
          /\ \A v \in Workers : ~Busy(v)
      <3>1. /\ queue[s] > 0 /\ \A t \in SimIds : queue[t] \in Nat
        BY <1>1, <1>3 DEF Deliver, SimulationTypeOK
      <3> QED
        BY <3>1 DEF SerialInv, Alone, Waits
    <2>3. \A t \in SimIds : queue'[t] = 0
      <3>1. queue' = [queue EXCEPT ![s] = @ - 1] /\ DOMAIN queue = SimIds
        BY <1>1, <1>3 DEF Deliver, SimulationTypeOK
      <3> QED
        BY <2>2, <3>1
    <2>4. \A v \in Workers : v # w => ~Busy(v)'
      BY <2>1, <2>2 DEF Busy
    <2>5. /\ Active' = Active /\ Listed' = Listed
          /\ \A t : StatusOf(t)' = StatusOf(t)
      BY <2>1 DEF Active, Listed, StatusOf
    <2>6. Alone'
      BY <2>3, <2>4, <2>5 DEF SerialInv, Alone
    <2>7. \A t \in SimIds : Waits(t)'
      BY <2>3 DEF Waits
    <2>8. JobFits(w)'
      <3>1. Beginning(job[w])' /\ ~Announcing(job[w])' /\ ~Failing(job[w])'
        BY <2>1 DEF Beginning, Announcing, Failing
      <3> QED
        BY <2>1, <2>2, <2>5, <3>1 DEF JobFits, Submitted, Pays
    <2>9. \A v \in Workers : JobFits(v)'
      BY <2>4, <2>8 DEF JobFits
    <2>10. ASSUME NEW r \in Requests
           PROVE  RequestFits(req[r])'
      <3>1. Active # {} /\ ~NoneInFlight
        BY <2>2 DEF NoneInFlight
      <3> QED
        BY <2>1, <2>5, <3>1 DEF SerialInv, RequestFits, Resubmitting
    <2>11. DoneRunsArePaid'
      BY <2>1, <2>5 DEF SerialInv, DoneRunsArePaid
    <2>12. TrailTellsLifecycle' <=> TrailTellsLifecycle
      BY <2>1 DEF TrailTellsLifecycle
    <2> QED
      BY <2>6, <2>7, <2>9, <2>10, <2>11, <2>12 DEF SerialInv
  <1> QED
    BY <1>2, <1>3

\* a step of the account or of the clock
LEMMA SerialStutter ==
    ASSUME SerialInv, ResultsInv', Counted', UNCHANGED simVars, req' = req, job' = job
    PROVE  SerialInv'
  <1>1. UNCHANGED <<config, trail, cost, queue>>
    BY DEF simVars
  <1>2. /\ Active' = Active /\ Listed' = Listed
        /\ \A s : StatusOf(s)' = StatusOf(s) /\ Submitted(s)' = Submitted(s)
    BY <1>1 DEF Active, Listed, StatusOf, Submitted
  <1>3. Alone' /\ (\A s \in SimIds : Waits(s)') /\ DoneRunsArePaid'
    BY <1>1, <1>2 DEF SerialInv, Alone, Busy, Waits, DoneRunsArePaid
  <1>4. \A w \in Workers : JobFits(w)'
    BY <1>1, <1>2 DEF SerialInv, JobFits, Busy
  <1>5. \A r \in Requests : RequestFits(req[r])'
    BY <1>1, <1>2 DEF SerialInv, RequestFits, Resubmitting, NoneInFlight, Busy
  <1>6. TrailTellsLifecycle' <=> TrailTellsLifecycle
    BY <1>1 DEF TrailTellsLifecycle
  <1> QED
    BY <1>3, <1>4, <1>5, <1>6 DEF SerialInv

LEMMA SerialRaises ==
    ASSUME SerialInv, ResultsInv', Counted', NEW w \in Workers, req' = req,
           StorageRaises(w)
    PROVE  SerialInv'
  <1>1. /\ job \in [Workers -> JobType] /\ job[w] \in JobType
        /\ SimInv /\ SimulationTypeOK
    BY SerialFacts, WorkerFacts
  <1>2. MaxFaults # 0 /\ UNCHANGED simVars /\ UNCHANGED <<config, trail, cost>>
    BY DEF StorageRaises, SerialInv, Counted, simVars
  <1>3. JobFits(w)
    BY DEF SerialInv
  <1>4. CASE job[w].at \in {"config", "results"} /\ Turn(w, "fail_cost")
    <2>1. Busy(w)
      BY <1>4 DEF Busy
    <2> QED
      BY <1>2, <1>4, <2>1, TurnFits, BusyQuiet
  <1>5. CASE job[w].at \in {"reconcile", "cost_save"} /\ Announce(w, "done")
    <2>1. Busy(w) /\ ~Failing(job[w]) /\ ~Beginning(job[w])
      BY <1>5 DEF Busy, Failing, Beginning, Announcing
    <2>2. Pays(cost[job[w].sid])'
      BY <1>1, <1>2, <1>3, <1>5, <2>1, AnnounceIs DEF JobFits, Pays
    <2> QED
      BY <1>2, <1>5, <2>1, <2>2, AnnounceFits, BusyQuiet
  <1>6. CASE job[w].at \in {"fail_cost", "refund_save"} /\ Announce(w, "failed")
    <2>1. Busy(w) /\ ~Beginning(job[w])
      BY <1>6 DEF Busy, Beginning, Announcing
    <2> QED
      BY <1>2, <1>6, <2>1, AnnounceFits, BusyQuiet
  <1>7. CASE job' = job
    BY <1>2, <1>7, SerialStutter
  <1> QED
    BY <1>4, <1>5, <1>6, <1>7 DEF StorageRaises

LEMMA SerialPush ==
    ASSUME OneAtATime, SerialInv, ResultsInv', Counted', NEW w \in Workers, PushStep(w)
    PROVE  SerialInv'
  <1>1. req' = req
    BY DEF PushStep, apiVars
  <1>2. ~Crash(w) /\ ~Redeliver(w)
    BY DEF OneAtATime, SerialInv, Counted, Crash, Redeliver
  <1> QED
    BY <1>1, <1>2, SerialDeliver, SerialRun, SerialWriteStatus, SerialBilling, SerialFail,
       SerialRaises
    DEF PushStep, WorkerStep

-----------------------------------------------------------------------------
(***************************************************************************)
(* The only request: what it has checked stays true, because no simulation *)
(* is active that a worker could be on.                                    *)
(***************************************************************************)
LEMMA NoneActiveNoneInFlight ==
    ASSUME SerialInv, Active = {}
    PROVE  NoneInFlight
  <1>1. \A s \in SimIds : queue[s] \in Nat
    BY SerialFacts DEF SimulationTypeOK
  <1> QED
    BY <1>1 DEF SerialInv, Waits, JobFits, NoneInFlight

LEMMA NoRequestFits == RequestFits(NoRequest)
  <1>1. NoRequest.at = "idle" /\ NoRequest.kind = "none"
    BY DEF NoRequest
  <1> HIDE DEF NoRequest
  <1> QED
    BY <1>1 DEF RequestFits, SerialStages, Resubmitting

\* a step that stores nothing
LEMMA SerialQuiet ==
    ASSUME OneAtATime, SerialInv, ResultsInv', Counted', NEW r \in Requests,
           UNCHANGED simVars, job' = job,
           NEW new, req' = [req EXCEPT ![r] = new], RequestFits(new)
    PROVE  SerialInv'
  <1>1. UNCHANGED <<config, trail, cost, queue>>
    BY DEF simVars
  <1>2. /\ Active' = Active /\ Listed' = Listed
        /\ \A s : StatusOf(s)' = StatusOf(s) /\ Submitted(s)' = Submitted(s)
    BY <1>1 DEF Active, Listed, StatusOf, Submitted
  <1>3. Alone' /\ (\A s \in SimIds : Waits(s)') /\ DoneRunsArePaid'
    BY <1>1, <1>2 DEF SerialInv, Alone, Busy, Waits, DoneRunsArePaid
  <1>4. \A w \in Workers : JobFits(w)'
    BY <1>1, <1>2 DEF SerialInv, JobFits, Busy
  <1>5. ASSUME NEW q \in Requests
        PROVE  RequestFits(req[q])'
    <2>1. q = r
      BY DEF OneAtATime
    <2>2. req'[q] = new
      BY <2>1, SerialFacts, RequestFacts
    <2> QED
      BY <1>1, <1>2, <2>2 DEF RequestFits, Resubmitting, NoneInFlight, Busy
  <1>6. TrailTellsLifecycle' <=> TrailTellsLifecycle
    BY <1>1 DEF TrailTellsLifecycle
  <1> QED
    BY <1>3, <1>4, <1>5, <1>6 DEF SerialInv

LEMMA SerialEnd ==
    ASSUME OneAtATime, SerialInv, ResultsInv', Counted', NEW r \in Requests,
           UNCHANGED simVars, job' = job, Finish(r)
    PROVE  SerialInv'
  <1>1. req' = [req EXCEPT ![r] = NoRequest]
    BY DEF Finish
  <1> HIDE DEF NoRequest
  <1> QED
    BY <1>1, SerialQuiet, NoRequestFits

\* a step that stores something while nothing is in flight
LEMMA SerialStore ==
    ASSUME OneAtATime, SerialInv, ResultsInv', Counted', NEW r \in Requests,
           job' = job, queue' = queue, NoneInFlight,
           \A s, t \in Active' : s = t,
           RequestFits(req[r])', DoneRunsArePaid',
           MaxFaults = 0 => TrailTellsLifecycle'
    PROVE  SerialInv'
  <1>1. \A w \in Workers : ~Busy(w)' /\ ~Busy(w)
    BY DEF NoneInFlight, Busy
  <1>2. \A s \in SimIds : queue'[s] = 0
    BY DEF NoneInFlight
  <1>3. \A q \in Requests : RequestFits(req[q])'
    BY DEF OneAtATime
  <1> QED
    BY <1>1, <1>2, <1>3 DEF SerialInv, Alone, Waits, JobFits

LEMMA SerialStart ==
    ASSUME OneAtATime, SerialInv, ResultsInv', Counted', NEW r \in Requests,
           job' = job, RequestStart(r)
    PROVE  SerialInv'
  <1>1. ASSUME NEW s \in SimIds, NEW e \in Estimates, CreateStart(r, s, e)
        PROVE  SerialInv'
    <2> DEFINE new == [NoRequest EXCEPT !.at = "create_account", !.kind = "create",
                            !.sid = s, !.estimate = e, !.period = month]
    <2>1. new.at = "create_account" /\ new.kind = "create"
      BY DEF NoRequest
    <2>2. req' = [req EXCEPT ![r] = new] /\ UNCHANGED simVars
      BY <1>1 DEF CreateStart, Accept
    <2> HIDE DEF new
    <2>3. RequestFits(new)
      BY <2>1 DEF RequestFits, SerialStages, Resubmitting
    <2> QED
      BY <2>2, <2>3, SerialQuiet
  <1>2. ASSUME NEW s \in SimIds, RetryStart(r, s)
        PROVE  SerialInv'
    <2> DEFINE new == [NoRequest EXCEPT !.at = "retry_checks", !.kind = "retry", !.sid = s]
    <2>1. new.at = "retry_checks" /\ new.kind = "retry" /\ new.sid = s
      BY DEF NoRequest
    <2>2. req' = [req EXCEPT ![r] = new] /\ UNCHANGED simVars
      BY <1>2 DEF RetryStart, Accept
    <2>3. s \notin Active /\ trail[s] # Absent
      BY <1>2 DEF RetryStart, Active, ACTIVE_STATUSES
    <2> HIDE DEF new
    <2>4. RequestFits(new)
      BY <2>1, <2>3 DEF RequestFits, SerialStages, Resubmitting
    <2> QED
      BY <2>2, <2>4, SerialQuiet
  <1>3. CASE ViewStart(r)
    <2> DEFINE new == [NoRequest EXCEPT !.at = "view", !.kind = "view"]
    <2>1. new.at = "view" /\ new.kind = "view"
      BY DEF NoRequest
    <2>2. req' = [req EXCEPT ![r] = new] /\ UNCHANGED simVars
      BY <1>3 DEF ViewStart, Accept
    <2> HIDE DEF new
    <2>3. RequestFits(new)
      BY <2>1 DEF RequestFits, SerialStages, Resubmitting
    <2> QED
      BY <2>2, <2>3, SerialQuiet
  <1>4. /\ ~RerunStart(r) /\ ~ClearStart(r) /\ ~WipeStart(r)
        /\ \A s \in SimIds : ~DeleteStart(r, s)
    BY DEF OneAtATime, RerunStart, ClearStart, WipeStart, DeleteStart, Accept
  <1> QED
    BY <1>1, <1>2, <1>3, <1>4 DEF RequestStart

LEMMA SerialRequestFacts ==
    ASSUME SerialInv, NEW r \in Requests
    PROVE  /\ req \in [Requests -> ReqType] /\ req[r] \in ReqType
           /\ RequestFits(req[r])
           /\ req[r].at \in Submitting => req[r].sid \in SimIds
           /\ req[r].at \in Billing => req[r].estimate \in Estimates /\ req[r].period \in Nat
  BY SerialFacts, RequestFacts DEF SerialInv, Remembers

\* the two steps of a submission that only ask for a debit
LEMMA SerialDebits ==
    ASSUME OneAtATime, SerialInv, ResultsInv', Counted', NEW r \in Requests,
           job' = job, CreateAdmit(r) \/ RetryDebit(r)
    PROVE  SerialInv'
  <1>1. req \in [Requests -> ReqType] /\ req[r] \in ReqType /\ RequestFits(req[r])
    BY SerialRequestFacts
  <1>2. UNCHANGED simVars
    BY DEF CreateAdmit, RetryDebit
  <1>3. CASE Finish(r)
    BY <1>2, <1>3, SerialEnd
  <1>4. CASE CreateAdmit(r) /\ ~Finish(r)
    <2> DEFINE new == [req[r] EXCEPT !.at = "create_debit"]
    <2>1. Active = {} /\ req' = [req EXCEPT ![r] = new]
      BY <1>1, <1>4 DEF CreateAdmit, MayCreate, Go
    <2>2. new.at = "create_debit" /\ new.kind = req[r].kind
      BY <1>1 DEF ReqType
    <2> HIDE DEF new
    <2>3. RequestFits(new)
      BY <1>1, <2>1, <2>2 DEF RequestFits, SerialStages, Resubmitting
    <2> QED
      BY <1>2, <2>1, <2>3, SerialQuiet
  <1>5. CASE RetryDebit(r)
    <2> DEFINE new == [req[r] EXCEPT !.at = "retry_debit"]
    <2>1. req' = [req EXCEPT ![r] = new]
      BY <1>1, <1>5 DEF RetryDebit, Go
    <2>2. new.at = "retry_debit" /\ new.kind = req[r].kind /\ new.sid = req[r].sid
      BY <1>1 DEF ReqType
    <2> HIDE DEF new
    <2>3. RequestFits(new)
      BY <1>1, <1>5, <2>2 DEF RequestFits, SerialStages, Resubmitting, RetryDebit, At
    <2> QED
      BY <1>2, <2>1, <2>3, SerialQuiet
  <1> QED
    BY <1>3, <1>4, <1>5

LEMMA SerialSaveConfig ==
    ASSUME OneAtATime, SerialInv, ResultsInv', Counted', NEW r \in Requests,
           job' = job, CreateSaveConfig(r), NEW s, s = req[r].sid
    PROVE  SerialInv'
  <1>1. /\ req \in [Requests -> ReqType] /\ req[r] \in ReqType /\ RequestFits(req[r])
        /\ s \in SimIds /\ req[r].estimate \in Estimates
    BY SerialRequestFacts DEF CreateSaveConfig, At, Submitting, Billing
  <1>2. Active = {} /\ NoneInFlight
    BY <1>1, NoneActiveNoneInFlight DEF RequestFits, CreateSaveConfig, At
  <1>3. trail[s] = Absent
    BY <1>1 DEF SerialInv, ResultsInv, FreshInv, Unbegun, Untouched, NoBlobs, Creating,
                CreateSaveConfig, At
  <1>4. /\ config'[s] # Absent
        /\ \A t \in SimIds : t # s => config'[t] = config[t]
        /\ UNCHANGED <<trail, cost, queue>>
    BY <1>1, SerialFacts, OperationFacts, AbsentIsNoBlob DEF CreateSaveConfig, SimulationTypeOK
  <1>5. /\ req'[r].at = "create_status" /\ req'[r].sid = s /\ req'[r].kind = req[r].kind
    BY <1>1 DEF CreateSaveConfig, Go, ReqType
  <1>6. /\ Listed' = Listed /\ \A t : StatusOf(t)' = StatusOf(t)
    BY <1>3, <1>4 DEF Listed, StatusOf
  <1>7. Active' = {}
    BY <1>2, <1>6 DEF Active
  <1>8. RequestFits(req[r])'
    BY <1>1, <1>3, <1>4, <1>5, <1>7 DEF RequestFits, SerialStages, Resubmitting
  <1>9. DoneRunsArePaid'
    BY <1>4, <1>6 DEF SerialInv, DoneRunsArePaid
  <1>10. MaxFaults = 0 => TrailTellsLifecycle'
    BY <1>4 DEF SerialInv, TrailTellsLifecycle
  <1> QED
    BY <1>2, <1>4, <1>7, <1>8, <1>9, <1>10, SerialStore

\* the trail of a simulation that becomes the only active one
LEMMA SerialActivates ==
    ASSUME OneAtATime, SerialInv, ResultsInv', Counted', NEW r \in Requests,
           job' = job, UNCHANGED <<config, cost, queue>>, Active = {},
           NEW s \in SimIds, config[s] # Absent, NEW events \in Seq(Status),
           events # << >>, Last(events) \in {"pending", "retried"},
           trail' = [trail EXCEPT ![s] = events],
           MaxFaults = 0 => Orderly(events),
           req'[r].at \in {"create_cost", "publish"}, req'[r].sid = s,
           req'[r].kind # "rerun",
           req'[r].at = "publish" => Pays(cost[s])
    PROVE  SerialInv'
  <1>1. NoneInFlight
    BY NoneActiveNoneInFlight
  <1>2. /\ trail'[s] = events /\ events # Absent
        /\ \A t \in SimIds : t # s => trail'[t] = trail[t]
    BY SerialFacts, AbsentIsNoBlob DEF SimulationTypeOK
  <1>3. /\ StatusOf(s)' \in {"pending", "retried"}
        /\ \A t \in SimIds : t # s => StatusOf(t)' = StatusOf(t)
    BY <1>2 DEF StatusOf
  <1>4. s \in Listed' /\ \A t \in SimIds : t # s => (t \in Listed' <=> t \in Listed)
    BY <1>2 DEF Listed
  <1>5. Active' = {s}
    <2>1. s \in Active'
      BY <1>3, <1>4 DEF Active, ACTIVE_STATUSES
    <2>2. \A t \in Active' : t \in SimIds /\ (t # s => t \in Active)
      BY <1>3, <1>4 DEF Active, Listed
    <2> QED
      BY <2>1, <2>2
  <1>6. RequestFits(req[r])'
    BY <1>1, <1>3, <1>5 DEF RequestFits, SerialStages, Resubmitting, Submitted, NoneInFlight,
                            Busy, Pays
  <1>7. DoneRunsArePaid'
    <2> SUFFICES ASSUME NEW t \in Listed', StatusOf(t)' = "done"
                 PROVE  Pays(cost[t])
      BY DEF DoneRunsArePaid, Pays
    <2>1. t \in SimIds /\ t # s
      BY <1>3 DEF Listed
    <2>2. t \in Listed /\ StatusOf(t) = "done"
      BY <1>3, <1>4, <2>1
    <2> QED
      BY <2>2 DEF SerialInv, DoneRunsArePaid, Pays
  <1>8. MaxFaults = 0 => TrailTellsLifecycle'
    <2> SUFFICES ASSUME MaxFaults = 0, NEW t \in SimIds, trail'[t] # Absent
                 PROVE  Orderly(trail'[t])
      BY DEF TrailTellsLifecycle, Orderly
    <2> QED
      BY <1>2, TrailsAreOrderly DEF SerialInv
  <1> QED
    BY <1>1, <1>5, <1>6, <1>7, <1>8, SerialStore

LEMMA SerialSaveStatus ==
    ASSUME OneAtATime, SerialInv, ResultsInv', Counted', NEW r \in Requests,
           job' = job, CreateSaveStatus(r)
    PROVE  SerialInv'
  <1>1. /\ req \in [Requests -> ReqType] /\ req[r] \in ReqType /\ RequestFits(req[r])
        /\ req[r].sid \in SimIds
    BY SerialRequestFacts DEF CreateSaveStatus, At, Submitting, Billing
  <1>2. Active = {} /\ config[req[r].sid] # Absent
    BY <1>1 DEF RequestFits, CreateSaveStatus, At
  <1> DEFINE first == <<"pending">>
  <1>3. /\ first \in Seq(Status) /\ first # << >> /\ Last(first) = "pending"
        /\ Orderly(first)
    BY DEF Status, Last, Orderly
  <1>4. /\ trail' = [trail EXCEPT ![req[r].sid] = first]
        /\ UNCHANGED <<config, cost, queue>>
    BY DEF CreateSaveStatus
  <1>5. /\ req'[r].at = "create_cost" /\ req'[r].sid = req[r].sid
        /\ req'[r].kind # "rerun"
    BY <1>1 DEF CreateSaveStatus, Go, ReqType, RequestFits
  <1> HIDE DEF first
  <1> QED
    BY <1>1, <1>2, <1>3, <1>4, <1>5, SerialActivates

LEMMA SerialAppend ==
    ASSUME OneAtATime, SerialInv, ResultsInv', Counted', NEW r \in Requests,
           job' = job, AppendWrite(r), NEW s, s = req[r].sid
    PROVE  SerialInv'
  <1>1. /\ req \in [Requests -> ReqType] /\ req[r] \in ReqType /\ RequestFits(req[r])
        /\ s \in SimIds /\ SimulationTypeOK
    BY SerialFacts, SerialRequestFacts DEF AppendWrite, At, Submitting, Billing
  <1>2. Active = {} /\ s \in Listed /\ req[r].events = trail[s] /\ Pays(cost[s])
    BY <1>1 DEF RequestFits, AppendWrite, At, Resubmitting
  <1>3. /\ trail[s] \in Seq(Status) /\ trail[s] # << >> /\ trail[s] # Absent
        /\ config[s] # Absent /\ StatusOf(s) \in {"done", "failed"}
    <2>1. StatusOf(s) \in Status /\ StatusOf(s) \notin ACTIVE_STATUSES
      BY <1>2, SerialFacts
    <2> QED
      BY <1>2, <2>1, SerialFacts DEF Status, ACTIVE_STATUSES
  <1> DEFINE longer == Append(trail[s], "retried")
  <1>4. "retried" \in Status
    BY DEF Status
  <1>5. /\ longer \in Seq(Status) /\ longer # << >> /\ Last(longer) = "retried"
    BY <1>3, <1>4, AppendType
  <1>6. MaxFaults = 0 => Orderly(longer)
    <2> SUFFICES ASSUME MaxFaults = 0
                 PROVE  Orderly(longer)
      OBVIOUS
    <2>1. Orderly(trail[s])
      BY <1>1, <1>3, TrailsAreOrderly DEF SerialInv
    <2>2. MayFollow(Last(trail[s]), "retried")
      BY <1>3 DEF MayFollow, StatusOf
    <2> QED
      BY <1>3, <1>4, <2>1, <2>2, OrderlyAppend
  <1>7. /\ trail' = [trail EXCEPT ![s] = longer]
        /\ UNCHANGED <<config, cost, queue>>
    BY <1>2 DEF AppendWrite
  <1>8. /\ req'[r].at = "publish" /\ req'[r].sid = s
        /\ req'[r].kind # "rerun"
    BY <1>1 DEF AppendWrite, Go, ReqType, RequestFits
  <1> HIDE DEF longer
  <1> QED
    BY <1>1, <1>2, <1>3, <1>5, <1>6, <1>7, <1>8, SerialActivates

LEMMA NewCostPays ==
    ASSUME SimInv, NEW r \in Requests, req[r].at \in Billing
    PROVE  Pays(NewCost(r))
  <1>1. /\ NewCost(r) \in CostRecord
        /\ req[r].estimate \in Nat
    BY NewCostType, RequestFacts, OperationFacts DEF Remembers
  <1>2. /\ ~NewCost(r).refunded
        /\ NewCost(r).tokens_charged = NewCost(r).estimated_tokens
        /\ NewCost(r).estimated_tokens = req[r].estimate
    BY DEF NewCost
  <1> HIDE DEF NewCost
  <1> QED
    BY <1>1, <1>2, AbsentIsNoBlob DEF Pays

\* a submission stores the cost record that pays for the run it will publish
LEMMA SerialSaveCost ==
    ASSUME OneAtATime, SerialInv, ResultsInv', Counted', NEW r \in Requests,
           job' = job, CreateSaveCost(r) \/ RetrySaveCost(r), NEW s, s = req[r].sid
    PROVE  SerialInv'
  <1>1. /\ req \in [Requests -> ReqType] /\ req[r] \in ReqType /\ RequestFits(req[r])
        /\ s \in SimIds /\ SimulationTypeOK /\ req[r].at \in Billing
    BY SerialFacts, SerialRequestFacts
    DEF CreateSaveCost, RetrySaveCost, At, Submitting, Billing
  <1> DEFINE record == NewCost(r)
  <1>2. Pays(record)
    BY <1>1, SerialFacts, NewCostPays
  <1>3. /\ cost' = [cost EXCEPT ![s] = record]
        /\ UNCHANGED <<config, trail, queue>>
    BY DEF CreateSaveCost, RetrySaveCost
  <1> HIDE DEF record
  <1>4. /\ cost'[s] = record
        /\ \A t \in SimIds : t # s => cost'[t] = cost[t]
    BY <1>1, <1>3 DEF SimulationTypeOK
  <1>5. /\ Active' = Active /\ Listed' = Listed
        /\ \A t : StatusOf(t)' = StatusOf(t)
    BY <1>3 DEF Active, Listed, StatusOf
  <1>6. NoneInFlight
    BY <1>1, NoneActiveNoneInFlight
    DEF RequestFits, Resubmitting, CreateSaveCost, RetrySaveCost, At
  <1>7. /\ req'[r].sid = s /\ req'[r].kind = req[r].kind
        /\ req'[r].at = IF req[r].at = "create_cost" THEN "publish" ELSE "append_read"
    BY <1>1 DEF CreateSaveCost, RetrySaveCost, At, Go, ReqType
  <1>8. RequestFits(req[r])'
    <2>1. CASE CreateSaveCost(r)
      <3>1. req[r].at = "create_cost" /\ req'[r].at = "publish"
        BY <1>7, <2>1 DEF CreateSaveCost, At
      <3> QED
        BY <1>1, <1>2, <1>3, <1>4, <1>5, <1>6, <1>7, <3>1
        DEF RequestFits, SerialStages, Resubmitting, Submitted, NoneInFlight, Busy, Pays
    <2>2. CASE RetrySaveCost(r)
      <3>1. req[r].at = "retry_debit" /\ req'[r].at = "append_read"
        BY <1>7, <2>2 DEF RetrySaveCost, At
      <3> QED
        BY <1>1, <1>2, <1>4, <1>5, <1>7, <3>1
        DEF RequestFits, SerialStages, Resubmitting, Pays
    <2> QED
      BY <2>1, <2>2
  <1>9. DoneRunsArePaid'
    <2> SUFFICES ASSUME NEW t \in Listed, StatusOf(t) = "done"
                 PROVE  Pays(cost[t])'
      BY <1>5 DEF DoneRunsArePaid, Pays
    <2>1. t \in SimIds /\ Pays(cost[t])
      BY DEF SerialInv, DoneRunsArePaid, Pays, Listed
    <2> QED
      BY <1>2, <1>4, <2>1 DEF Pays
  <1>10. MaxFaults = 0 => TrailTellsLifecycle'
    BY <1>3 DEF SerialInv, TrailTellsLifecycle
  <1> QED
    BY <1>3, <1>5, <1>6, <1>8, <1>9, <1>10, SerialStore DEF SerialInv, Alone

\* a retry finds nothing active but, at most, the simulation itself, which is not
LEMMA SerialRetryAdmit ==
    ASSUME OneAtATime, SerialInv, ResultsInv', Counted', NEW r \in Requests,
           job' = job, RetryAdmit(r)
    PROVE  SerialInv'
  <1>1. /\ req \in [Requests -> ReqType] /\ req[r] \in ReqType /\ RequestFits(req[r])
        /\ req[r].sid \in SimIds
    BY SerialRequestFacts DEF RetryAdmit, At, Submitting
  <1>2. UNCHANGED simVars
    BY DEF RetryAdmit
  <1>3. CASE Finish(r)
    BY <1>2, <1>3, SerialEnd
  <1>4. CASE ~Finish(r)
    <2> DEFINE new == [req[r] EXCEPT !.at = "retry_account",
                                     !.estimate = config[req[r].sid],
                                     !.period = month]
    <2>1. /\ config[req[r].sid] # Absent /\ Active \subseteq {req[r].sid}
          /\ req' = [req EXCEPT ![r] = new]
      BY <1>1, <1>4 DEF RetryAdmit, ReqType
    <2>2. new.at = "retry_account" /\ new.kind = req[r].kind /\ new.sid = req[r].sid
      BY <1>1 DEF ReqType
    <2>3. Active = {} /\ req[r].sid \in Listed
      BY <1>1, <2>1 DEF RequestFits, RetryAdmit, At, Listed
    <2> HIDE DEF new
    <2>4. RequestFits(new)
      BY <1>1, <2>2, <2>3 DEF RequestFits, SerialStages, Resubmitting
    <2> QED
      BY <1>2, <2>1, <2>4, SerialQuiet
  <1> QED
    BY <1>3, <1>4

LEMMA SerialAppendRead ==
    ASSUME OneAtATime, SerialInv, ResultsInv', Counted', NEW r \in Requests,
           job' = job, AppendRead(r)
    PROVE  SerialInv'
  <1>1. /\ req \in [Requests -> ReqType] /\ req[r] \in ReqType /\ RequestFits(req[r])
    BY SerialRequestFacts
  <1> DEFINE new == [req[r] EXCEPT !.at = "append_write", !.events = trail[req[r].sid]]
  <1>2. UNCHANGED simVars
    BY DEF AppendRead
  <1>3. req[r].sid \in Listed /\ trail[req[r].sid] # Absent
    BY <1>1 DEF RequestFits, AppendRead, At, Resubmitting, Listed
  <1>4. req' = [req EXCEPT ![r] = new]
    BY <1>1, <1>3 DEF AppendRead, RecordToAppendTo, ReqType
  <1>5. /\ new.at = "append_write" /\ new.kind = req[r].kind /\ new.sid = req[r].sid
        /\ new.events = trail[req[r].sid]
    BY <1>1 DEF ReqType
  <1> HIDE DEF new
  <1>6. RequestFits(new)
    BY <1>1, <1>5 DEF RequestFits, SerialStages, Resubmitting, AppendRead, At
  <1> QED
    BY <1>2, <1>4, <1>6, SerialQuiet

\* what is published is active, paid, and nobody else's
LEMMA SerialTrigger ==
    ASSUME OneAtATime, SerialInv, ResultsInv', Counted', NEW r \in Requests,
           job' = job, Trigger(r), NEW s, s = req[r].sid
    PROVE  SerialInv'
  <1>1. /\ req \in [Requests -> ReqType] /\ req[r] \in ReqType /\ RequestFits(req[r])
        /\ s \in SimIds /\ SimulationTypeOK
    BY SerialFacts, SerialRequestFacts DEF Trigger, At, Submitting
  <1>2. /\ NoneInFlight /\ s \in Active /\ Submitted(s) /\ Pays(cost[s])
        /\ req' = [req EXCEPT ![r] = NoRequest]
    BY <1>1 DEF RequestFits, Trigger, At, Finish
  <1>3. /\ queue'[s] = 1
        /\ \A t \in SimIds : t # s => queue'[t] = 0
        /\ UNCHANGED <<config, trail, cost>>
    BY <1>1, <1>2 DEF Trigger, Publish, NoneInFlight, SimulationTypeOK
  <1>4. \A w \in Workers : ~Busy(w)'
    BY <1>2 DEF NoneInFlight, Busy
  <1>5. /\ Active' = Active /\ Listed' = Listed
        /\ \A t : StatusOf(t)' = StatusOf(t) /\ Submitted(t)' = Submitted(t)
    BY <1>3 DEF Active, Listed, StatusOf, Submitted
  <1>6. Alone' /\ \A t \in SimIds : Waits(t)'
    BY <1>2, <1>3, <1>4, <1>5 DEF SerialInv, Alone, Waits, Pays
  <1>7. \A w \in Workers : JobFits(w)'
    BY <1>4 DEF JobFits
  <1>8. \A q \in Requests : RequestFits(req[q])'
    <2>1. \A q \in Requests : req'[q] = NoRequest
      BY <1>1, <1>2 DEF OneAtATime
    <2>2. NoRequest.at = "idle" /\ NoRequest.kind = "none"
      BY DEF NoRequest
    <2> HIDE DEF NoRequest
    <2> QED
      BY <2>1, <2>2 DEF RequestFits, SerialStages, Resubmitting
  <1>9. DoneRunsArePaid' /\ (MaxFaults = 0 => TrailTellsLifecycle')
    BY <1>3, <1>5 DEF SerialInv, DoneRunsArePaid, TrailTellsLifecycle
  <1> QED
    BY <1>6, <1>7, <1>8, <1>9 DEF SerialInv

LEMMA SerialApi ==
    ASSUME OneAtATime, SerialInv, ResultsInv', Counted', NEW r \in Requests, ApiStep(r)
    PROVE  SerialInv'
  <1>1. job' = job
    BY DEF ApiStep, workerVars
  <1>2. req[r].at \in SerialStages
    BY SerialRequestFacts DEF RequestFits
  <1>3. ~RerunNext(r) /\ ~DeleteList(r) /\ ~WipeAccount(r) /\ ~DeleteNext(r)
    BY <1>2 DEF SerialStages, RerunNext, DeleteList, WipeAccount, DeleteNext, At
  <1>4. CASE Reject(r) \/ ViewEnd(r) \/ Abort(r)
    BY <1>1, <1>4, SerialEnd DEF Reject, ViewEnd, Abort
  <1> QED
    BY <1>1, <1>3, <1>4, SerialStart, SerialDebits, SerialSaveConfig, SerialSaveStatus,
       SerialSaveCost, SerialRetryAdmit, SerialAppendRead, SerialAppend, SerialTrigger
    DEF ApiStep, RequestStep
-----------------------------------------------------------------------------
LEMMA InitIsSerial == Init => SerialInv
  <1> SUFFICES ASSUME Init
               PROVE  SerialInv
    OBVIOUS
  <1>1. ResultsInv
    BY InitHasResults
  <1>2. \A r \in Requests : RequestFits(req[r])
    <2>1. \A r \in Requests : req[r] = NoRequest
      BY DEF Init, InitApi
    <2> QED
      BY <2>1, NoRequestFits
  <1>3. \A w \in Workers : ~Busy(w)
    BY DEF Init, InitWorkers, NoJob, Busy
  <1>4. \A s \in SimIds : trail[s] = Absent /\ queue[s] = 0
    BY DEF Init, InitSimulations
  <1>5. Listed = {} /\ Active = {}
    BY <1>4 DEF Listed, Active
  <1>6. Counted
    BY DEF Init, InitWorkers, Counted
  <1> QED
    BY <1>1, <1>2, <1>3, <1>4, <1>5, <1>6
    DEF SerialInv, Alone, Waits, JobFits, DoneRunsArePaid, TrailTellsLifecycle

LEMMA NextCounts ==
    ASSUME Counted, [Next]_vars
    PROVE  Counted'
  <1>1. CASE UNCHANGED workerCounters
    BY <1>1 DEF Counted, workerCounters
  <1>2. ASSUME NEW w \in Workers, PushStep(w)
        PROVE  Counted'
    <2>1. CASE Crash(w) \/ Redeliver(w) \/ StorageRaises(w)
      BY <2>1 DEF Counted, Crash, Redeliver, StorageRaises
    <2>2. CASE WorkerStep(w) \/ \E s \in SimIds : Deliver(w, s)
      BY <1>1, <2>2
      DEF WorkerStep, Deliver, ReadConfig, ReadStatus, WriteStatus, Simulate, SaveResults,
          Reconcile, Overage, Partial, SaveCost, FailCost, Refunded, SaveRefund, Ack
    <2> QED
      BY <1>2, <2>1, <2>2 DEF PushStep
  <1>3. CASE UNCHANGED workerVars
    BY <1>1, <1>3 DEF workerVars, workerCounters
  <1> QED
    BY <1>2, <1>3 DEF Next, AccountStep, ApiStep, ClockStep, AtRest, vars

LEMMA NextIsSerial ==
    ASSUME OneAtATime, SerialInv, [Next]_vars
    PROVE  SerialInv'
  <1>1. ResultsInv' /\ Counted'
    BY NextKeepsResults, NextCounts DEF SerialInv
  <1>2. ASSUME NEW c \in Clients, AccountStep(c)
        PROVE  SerialInv'
    BY <1>1, <1>2, SerialStutter DEF AccountStep, apiVars, workerVars
  <1>3. CASE ClockStep \/ AtRest \/ UNCHANGED vars
    BY <1>1, <1>3, SerialStutter DEF ClockStep, AtRest, vars, apiVars, workerVars
  <1> QED
    BY <1>1, <1>2, <1>3, SerialApi, SerialPush DEF Next

LEMMA SerialThroughout == ASSUME OneAtATime PROVE Spec => []SerialInv
  <1>1. SerialInv /\ [Next]_vars => SerialInv'
    BY NextIsSerial
  <1> QED
    BY InitIsSerial, <1>1, PTL DEF Spec

(***************************************************************************)
(* "A simulation is already running" is true of at most one simulation: a  *)
(* user who waits for every answer never has two that are pending, running *)
(* or retried, wherever a submission is cut off and whatever the storage   *)
(* refuses a worker, for any number of workers and simulations.            *)
(***************************************************************************)
THEOREM OneActiveAtATime == ASSUME OneAtATime PROVE Spec => []OneActive
  <1>1. SerialInv => OneActive
    <2> SUFFICES ASSUME SerialInv
                 PROVE  Cardinality(Active) <= 1
      BY DEF OneActive
    <2>1. CASE Active = {}
      BY <2>1, FS_EmptySet
    <2>2. ASSUME NEW s \in Active
          PROVE  Cardinality(Active) <= 1
      <3>1. Active = {s}
        BY DEF SerialInv, Alone
      <3> QED
        BY <3>1, FS_Singleton
    <2> QED
      BY <2>1, <2>2
  <1> QED
    BY SerialThroughout, <1>1, PTL

(***************************************************************************)
(* No free results: under the same conditions a simulation that is done    *)
(* was charged its estimate for that very attempt and not refunded, though *)
(* earlier attempts may have failed and been refunded, and though the      *)
(* bookkeeping of the run may have been refused by the storage.            *)
(***************************************************************************)
THEOREM DoneRunsStayPaid == ASSUME OneAtATime PROVE Spec => []DoneRunsArePaid
  <1>1. SerialInv => DoneRunsArePaid
    BY DEF SerialInv
  <1> QED
    BY SerialThroughout, <1>1, PTL

(***************************************************************************)
(* status.json tells the life of a simulation event by event: no event is  *)
(* lost, repeated or out of order, when in addition the storage answers    *)
(* the workers.                                                            *)
(***************************************************************************)
THEOREM TrailsTellLifecycles ==
    ASSUME OneAtATime, MaxFaults = 0
    PROVE  Spec => []TrailTellsLifecycle
  <1>1. SerialInv => TrailTellsLifecycle
    BY DEF SerialInv
  <1> QED
    BY SerialThroughout, <1>1, PTL
-----------------------------------------------------------------------------
(***************************************************************************)
(* Sums.  MapThenSumSet is a recursive function on the subsets of a set;   *)
(* what it computes for a finite set follows from its defining equation by *)
(* taking, against each claim, a smallest counterexample.                  *)
(***************************************************************************)
Pick(T) == CHOOSE x \in T : TRUE

\* f adds up g over every subset of S
Adds(f, g, S) ==
    f = [T \in SUBSET S |-> IF T = {} THEN 0 ELSE g[Pick(T)] + f[T \ {Pick(T)}]]

Total(g, S) == (CHOOSE f : Adds(f, g, S))[S]

\* a set of numbers that has 0, and each number with its predecessor, has all
LEMMA Counting ==
    ASSUME NEW P, 0 \in P, \A n \in Nat : n \in P => n + 1 \in P
    PROVE  Nat \subseteq P
  <1> DEFINE Others == Nat \ P
             Less == OpToRel(<, Nat)
  <1>1. SUFFICES ASSUME Others # {}
                 PROVE  FALSE
    OBVIOUS
  <1>2. PICK n \in Others : \A m \in Others : <<m, n>> \notin Less
    <2>1. IsWellFoundedOn(Less, Nat) /\ Others \subseteq Nat
      BY NatLessThanWellFounded
    <2> HIDE DEF Less, Others
    <2> QED
      BY <1>1, <2>1, WFMin
  <1>3. \A m \in Nat : m < n => <<m, n>> \in Less
    BY DEF OpToRel
  <1> HIDE DEF Less
  <1>4. n \in Nat /\ n # 0 /\ n \notin P
    OBVIOUS
  <1>5. n - 1 \in Nat /\ n - 1 < n /\ (n - 1) + 1 = n
    BY <1>4
  <1>6. n - 1 \in P
    BY <1>2, <1>3, <1>4, <1>5
  <1> QED
    BY <1>4, <1>5, <1>6

LEMMA PickFacts ==
    ASSUME NEW S, IsFiniteSet(S), NEW T \in SUBSET S, T # {}
    PROVE  /\ Pick(T) \in T /\ Pick(T) \in S
           /\ T \ {Pick(T)} \in SUBSET S
           /\ IsFiniteSet(T) /\ Cardinality(T) \in Nat /\ Cardinality(T) # 0
           /\ Cardinality(T \ {Pick(T)}) = Cardinality(T) - 1
  <1>1. Pick(T) \in T
    BY DEF Pick
  <1>2. IsFiniteSet(T)
    BY FS_Subset
  <1>3. Cardinality(T) \in Nat /\ Cardinality(T) # 0
    BY <1>2, FS_CardinalityType, FS_EmptySet
  <1>4. Cardinality(T \ {Pick(T)}) = Cardinality(T) - 1
    BY <1>1, <1>2, FS_RemoveElement
  <1> QED
    BY <1>1, <1>2, <1>3, <1>4

LEMMA NoElement ==
    ASSUME NEW S, IsFiniteSet(S), NEW T \in SUBSET S
    PROVE  Cardinality(T) <= 0 <=> T = {}
  <1>1. T # {} => Cardinality(T) \in Nat /\ Cardinality(T) # 0
    BY PickFacts
  <1>2. T = {} => Cardinality(T) = 0
    BY FS_EmptySet
  <1> QED
    BY <1>1, <1>2

\* the equation has a solution: one that holds for the subsets of at most n
\* elements is carried on to those of n + 1
LEMMA SumExists ==
    ASSUME NEW S, IsFiniteSet(S), NEW g \in [S -> Nat]
    PROVE  \E f \in [SUBSET S -> Nat] : Adds(f, g, S)
  <1> DEFINE Solves(f, T) == f[T] = IF T = {} THEN 0 ELSE g[Pick(T)] + f[T \ {Pick(T)}]
             SolvesUpTo(f, n) == \A T \in SUBSET S : Cardinality(T) <= n => Solves(f, T)
             P == {n \in Nat : \E f \in [SUBSET S -> Nat] : SolvesUpTo(f, n)}
  <1>1. \A T \in SUBSET S : Cardinality(T) \in Nat
    BY FS_Subset, FS_CardinalityType
  <1>2. 0 \in P
    <2> DEFINE f == [T \in SUBSET S |-> 0]
    <2>1. \A T \in SUBSET S : Cardinality(T) <= 0 => T = {}
      BY NoElement
    <2>2. f \in [SUBSET S -> Nat] /\ SolvesUpTo(f, 0)
      BY <2>1
    <2> QED
      BY <2>2
  <1>3. ASSUME NEW n \in Nat, n \in P
        PROVE  n + 1 \in P
    <2>1. PICK f \in [SUBSET S -> Nat] : SolvesUpTo(f, n)
      BY <1>3
    <2> DEFINE h == [T \in SUBSET S |-> IF Cardinality(T) <= n THEN f[T]
                                        ELSE g[Pick(T)] + f[T \ {Pick(T)}]]
    <2>2. ASSUME NEW T \in SUBSET S
          PROVE  h[T] \in Nat
      <3>1. CASE Cardinality(T) <= n
        BY <3>1
      <3>2. CASE ~(Cardinality(T) <= n)
        <4>1. ~(Cardinality(T) <= 0)
          BY <1>1, <3>2
        <4>2. T # {}
          BY <4>1, NoElement
        <4> QED
          BY <3>2, <4>2, PickFacts
      <3> QED
        BY <3>1, <3>2
    <2>3. ASSUME NEW T \in SUBSET S, Cardinality(T) <= n + 1
          PROVE  Solves(h, T)
      <3>1. CASE T = {}
        <4>1. Cardinality(T) <= n
          BY <3>1, FS_EmptySet
        <4>2. f[T] = 0
          BY <2>1, <3>1, <4>1
        <4> QED
          BY <3>1, <4>1, <4>2
      <3>2. CASE T # {}
        <4> DEFINE U == T \ {Pick(T)}
        <4>1. U \in SUBSET S /\ Cardinality(U) = Cardinality(T) - 1
          BY <3>2, PickFacts
        <4>2. Cardinality(U) <= n
          BY <1>1, <2>3, <4>1
        <4>3. h[U] = f[U]
          BY <4>1, <4>2
        <4>4. h[T] = g[Pick(T)] + f[U]
          BY <2>1, <3>2
        <4> QED
          BY <3>2, <4>3, <4>4
      <3> QED
        BY <3>1, <3>2
    <2>4. h \in [SUBSET S -> Nat]
      BY <2>2
    <2> HIDE DEF h, Solves
    <2>5. SolvesUpTo(h, n + 1)
      BY <2>3
    <2> QED
      BY <2>4, <2>5
  <1>4. Cardinality(S) \in P
    <2>1. Cardinality(S) \in Nat
      BY FS_CardinalityType
    <2> HIDE DEF P
    <2> QED
      BY <1>2, <1>3, <2>1, Counting
  <1>5. PICK f \in [SUBSET S -> Nat] : SolvesUpTo(f, Cardinality(S))
    BY <1>4
  <1>6. \A T \in SUBSET S : Solves(f, T)
    BY <1>5, FS_Subset
  <1>7. f = [T \in SUBSET S |-> IF T = {} THEN 0 ELSE g[Pick(T)] + f[T \ {Pick(T)}]]
    BY <1>6
  <1> QED
    BY <1>7 DEF Adds

\* two sums of functions that agree everywhere but at one element
LEMMA SumsDiffer ==
    ASSUME NEW S, IsFiniteSet(S), NEW a, NEW g \in [S -> Nat], NEW h \in [S -> Nat],
           \A x \in S : x # a => h[x] = g[x],
           NEW f, Adds(f, g, S), NEW e, Adds(e, h, S)
    PROVE  \A T \in SUBSET S : /\ f[T] \in Nat /\ e[T] \in Nat
                               /\ a \notin T => e[T] = f[T]
                               /\ a \in T => e[T] + g[a] = f[T] + h[a]
  <1> DEFINE Differs(T) == /\ f[T] \in Nat /\ e[T] \in Nat
                           /\ a \notin T => e[T] = f[T]
                           /\ a \in T => e[T] + g[a] = f[T] + h[a]
             P == {n \in Nat : \A T \in SUBSET S : Cardinality(T) <= n => Differs(T)}
  <1>1. f[{}] = 0 /\ e[{}] = 0
    BY DEF Adds
  <1>2. ASSUME NEW T \in SUBSET S, T # {}
        PROVE  /\ f[T] = g[Pick(T)] + f[T \ {Pick(T)}]
               /\ e[T] = h[Pick(T)] + e[T \ {Pick(T)}]
    BY <1>2 DEF Adds
  <1>3. \A T \in SUBSET S : Cardinality(T) \in Nat
    BY FS_Subset, FS_CardinalityType
  <1>4. 0 \in P
    <2>1. \A T \in SUBSET S : Cardinality(T) <= 0 => T = {}
      BY NoElement
    <2> QED
      BY <1>1, <2>1
  <1>5. ASSUME NEW n \in Nat, n \in P
        PROVE  n + 1 \in P
    <2> SUFFICES ASSUME NEW T \in SUBSET S, Cardinality(T) <= n + 1
                 PROVE  Differs(T)
      OBVIOUS
    <2>1. CASE T = {}
      BY <1>1, <2>1
    <2>2. CASE T # {}
      <3> DEFINE x == Pick(T)
                 U == T \ {x}
      <3>1. x \in T /\ x \in S /\ U \in SUBSET S /\ Cardinality(U) = Cardinality(T) - 1
        BY <2>2, PickFacts
      <3>2. Cardinality(U) <= n
        BY <1>3, <3>1
      <3>3. Differs(U)
        BY <1>5, <3>1, <3>2
      <3>4. f[T] = g[x] + f[U] /\ e[T] = h[x] + e[U]
        BY <1>2, <2>2
      <3>5. g[x] \in Nat /\ h[x] \in Nat
        BY <3>1
      <3>6. (a \in T <=> a \in U \/ a = x) /\ x \notin U
        BY <3>1
      <3>7. x # a => h[x] = g[x]
        BY <3>1
      <3>8. a \in T => g[a] \in Nat /\ h[a] \in Nat
        OBVIOUS
      <3> HIDE DEF x, U
      <3> QED
        BY <3>3, <3>4, <3>5, <3>6, <3>7, <3>8
    <2> QED
      BY <2>1, <2>2
  <1>6. \A T \in SUBSET S : Cardinality(T) \in P
    <2> HIDE DEF P
    <2> QED
      BY <1>3, <1>4, <1>5, Counting
  <1> QED
    BY <1>3, <1>6

LEMMA TotalAdds ==
    ASSUME NEW S, IsFiniteSet(S), NEW g \in [S -> Nat]
    PROVE  \E f : Adds(f, g, S) /\ Total(g, S) = f[S]
  <1>1. \E f : Adds(f, g, S)
    BY SumExists
  <1>2. Adds(CHOOSE f : Adds(f, g, S), g, S)
    BY <1>1
  <1> QED
    BY <1>2 DEF Total

LEMMA TotalsDiffer ==
    ASSUME NEW S, IsFiniteSet(S), NEW a \in S, NEW g \in [S -> Nat], NEW h \in [S -> Nat],
           \A x \in S : x # a => h[x] = g[x]
    PROVE  /\ Total(g, S) \in Nat /\ Total(h, S) \in Nat
           /\ Total(h, S) + g[a] = Total(g, S) + h[a]
  <1>1. PICK f : Adds(f, g, S) /\ Total(g, S) = f[S]
    BY TotalAdds
  <1>2. PICK e : Adds(e, h, S) /\ Total(h, S) = e[S]
    BY TotalAdds
  <1>3. /\ f[S] \in Nat /\ e[S] \in Nat
        /\ e[S] + g[a] = f[S] + h[a]
    BY <1>1, <1>2, SumsDiffer
  <1> QED
    BY <1>1, <1>2, <1>3

LEMMA TotalType ==
    ASSUME NEW S, IsFiniteSet(S), NEW g \in [S -> Nat]
    PROVE  Total(g, S) \in Nat
  <1>1. PICK f : Adds(f, g, S) /\ Total(g, S) = f[S]
    BY TotalAdds
  <1>2. f[S] \in Nat
    BY <1>1, SumsDiffer
  <1> QED
    BY <1>1, <1>2

\* no element counts for more than the whole
LEMMA TotalAtLeast ==
    ASSUME NEW S, IsFiniteSet(S), NEW g \in [S -> Nat], NEW a \in S
    PROVE  Total(g, S) >= g[a]
  <1> DEFINE h == [g EXCEPT ![a] = 0]
  <1>1. h \in [S -> Nat] /\ h[a] = 0 /\ \A x \in S : x # a => h[x] = g[x]
    OBVIOUS
  <1> HIDE DEF h
  <1>2. /\ Total(g, S) \in Nat /\ Total(h, S) \in Nat
        /\ Total(h, S) + g[a] = Total(g, S) + h[a]
    BY <1>1, TotalsDiffer
  <1>3. g[a] \in Nat
    OBVIOUS
  <1> QED
    BY <1>1, <1>2, <1>3

LEMMA TotalOfNothing ==
    ASSUME NEW S, IsFiniteSet(S), NEW g \in [S -> Nat], \A x \in S : g[x] = 0
    PROVE  Total(g, S) = 0
  <1>1. PICK f : Adds(f, g, S) /\ Total(g, S) = f[S]
    BY TotalAdds
  <1> DEFINE zero == [T \in SUBSET S |-> 0]
  <1>2. Adds(zero, g, S)
    <2>1. ASSUME NEW T \in SUBSET S
          PROVE  0 = IF T = {} THEN 0 ELSE g[Pick(T)] + zero[T \ {Pick(T)}]
      <3>1. CASE T = {}
        BY <3>1
      <3>2. CASE T # {}
        <4>1. g[Pick(T)] = 0 /\ zero[T \ {Pick(T)}] = 0
          BY <3>2, PickFacts
        <4> QED
          BY <3>2, <4>1
      <3> QED
        BY <3>1, <3>2
    <2> QED
      BY <2>1 DEF Adds
  <1> HIDE DEF zero
  <1>3. \A T \in SUBSET S : f[T] = zero[T]
    <2>1. CASE S = {}
      BY <1>1, <1>2, <2>1 DEF Adds
    <2>2. ASSUME NEW a \in S
          PROVE  \A T \in SUBSET S : f[T] = zero[T]
      BY <1>1, <1>2, SumsDiffer
    <2> QED
      BY <2>1, <2>2
  <1>4. f[S] = zero[S] /\ zero[S] = 0
    BY <1>3 DEF zero
  <1> QED
    BY <1>1, <1>4
-----------------------------------------------------------------------------
(***************************************************************************)
(* The books.  A document is the account, or what a repository call is     *)
(* about to save as the account.  Its counter is compared with the cost    *)
(* records of its own month and with what its callers owe: tokens that     *)
(* were debited and are not in a cost record yet or, negative, that were   *)
(* refunded and are still in one.                                          *)
(***************************************************************************)
ChargeIn(s, p) == IF cost[s] # Absent /\ cost[s].period = p THEN NetChargeOf(s) ELSE 0

ChargesIn(p) == MapThenSumSet(LAMBDA s : ChargeIn(s, p), SimIds)

Debiting == {"create_debit", "retry_debit"}

Recording == {"create_status", "create_cost"}

Paid(r) == req[r].at \in Recording \/ (req[r].at \in Debiting /\ call[r].at = "returned")

RequestOwes(r, p) == IF Paid(r) /\ req[r].period = p THEN req[r].estimate ELSE 0

Adjusted(w) ==
    \/ job[w].at \in {"cost_save", "refund_save"}
    \/ job[w].at \in {"overage", "partial", "refund"} /\ call[w].at = "returned"

JobOwes(w, p) ==
    IF ~Adjusted(w) \/ job[w].record.period # p THEN 0
    ELSE CASE job[w].at \in {"overage", "partial"} -> call[w].op.tokens
           [] job[w].at = "cost_save" ->
                 job[w].record.tokens_charged - cost[job[w].sid].tokens_charged
           [] OTHER -> -job[w].record.tokens_charged

Owes(c, p) ==
    IF c \in Requests THEN RequestOwes(c, p)
    ELSE IF c \in Workers THEN JobOwes(c, p) ELSE 0

\* at most one caller owes anything
Owed(p) ==
    IF \E c \in Clients : Owes(c, p) # 0
    THEN Owes(CHOOSE c \in Clients : Owes(c, p) # 0, p)
    ELSE 0

\* what a document has counted beyond the records: charges whose records were
\* overwritten and, once a submission was cut off, charges without a record
Slack(doc) == doc.tokens_used - ChargesIn(doc.usage_period) - Owed(doc.usage_period)

NoLaterThan(p) == \A s \in SimIds : cost[s] # Absent => cost[s].period <= p

Saving(c) == call[c].at \in {"seed", "write"}

OnFile(doc) == doc = account \/ \E c \in Clients : Saving(c) /\ call[c].doc = doc

InOrder(doc) ==
    /\ doc.usage_period \in 1 .. month
    /\ NoLaterThan(doc.usage_period)
    /\ Slack(doc) >= 0
    /\ month = 1 /\ aborts = 0 => Slack(doc) = retired

Books == \A doc \in Account : OnFile(doc) => InOrder(doc)

\* nothing is charged before there is an account
Opening ==
    /\ account = Absent => retired = 0 /\ \A s \in SimIds : cost[s] = Absent
    /\ \A s \in SimIds : cost[s] # Absent => cost[s].period >= 1

\* the account call that each stage of a request or of a job makes
Calling(c) ==
    \/ c \in Requests /\ \/ /\ req[c].at \in {"create_account", "retry_account", "view"}
                            /\ call[c].op = GetOrCreate(UserRole)
                         \/ /\ req[c].at \in Debiting
                            /\ call[c].op = Debit(req[c].estimate)
    \/ c \in Workers /\ \/ /\ job[c].at = "overage"
                           /\ call[c].op = Debit(job[c].actual - job[c].record.estimated_tokens)
                        \/ job[c].at = "partial" /\ call[c].op.name = "debit"
                        \/ /\ job[c].at = "refund"
                           /\ call[c].op = Credit(job[c].record.tokens_charged)

\* a document is seeded for a month that nothing has been charged to
CallFits(c) ==
    /\ call[c].at \in {"idle", "read", "seed", "write", "returned", "rejected"}
    /\ call[c].at # "idle" => Calling(c)
    /\ call[c].at = "write" => call[c].op.name # "get_or_create"
    /\ call[c].at = "seed" =>
          /\ call[c].doc.tokens_used = 0
          /\ NoLaterThan(call[c].doc.usage_period - 1)
          /\ month = 1 => account = Absent

\* a charge is booked to the month it was asked for in, or to a later one
PeriodFits(r) ==
    /\ req[r].at \in Billing => req[r].period \in 1 .. month
    /\ req[r].at \in Debiting /\ Saving(r) => req[r].period <= call[r].doc.usage_period
    /\ Paid(r) => account # Absent /\ req[r].period <= account.usage_period
    /\ req[r].at \in Recording => cost[req[r].sid] = Absent

\* what a worker remembers of the cost record
RecordFits(w) ==
    LET record == job[w].record
        stored == cost[job[w].sid]
    IN /\ job[w].at \in {"overage", "partial", "refund", "refund_save"} => record = stored
       /\ job[w].at \in {"refund", "refund_save"} => ~record.refunded /\ NoLaterThan(record.period)
       /\ job[w].at = "cost_save" =>
             /\ stored # Absent
             /\ record = [stored EXCEPT !.tokens_charged = record.tokens_charged]
             /\ record.tokens_charged >= stored.tokens_charged

\* nothing is left to refund on a run that failed
Settled(s) == cost[s] = Absent \/ cost[s].actual_tokens # Absent \/ NetChargeOf(s) = 0

FailuresSettle ==
    month = 1 =>
        /\ \A w \in Workers : Announcing(job[w]) /\ job[w].next = "failed" => Settled(job[w].sid)
        /\ aborts = 0 => \A s \in SimIds :
              trail[s] # Absent /\ StatusOf(s) = "failed" =>
                  \/ Settled(s)
                  \/ \E r \in Requests : /\ req[r].sid = s
                                         /\ req[r].at \in {"append_read", "append_write"}

LedgerInv ==
    /\ SerialInv
    /\ aborts \in Nat
    /\ \A c \in Clients : CallFits(c)
    /\ \A r \in Requests : PeriodFits(r)
    /\ \A w \in Workers : RecordFits(w)
    /\ Opening
    /\ Books
    /\ FailuresSettle
-----------------------------------------------------------------------------
(***************************************************************************)
(* Each sum over the cost records is such a total.                         *)
(***************************************************************************)
LEMMA NetChargesTotal ==
    MapThenSumSet(NetChargeOf, SimIds) = Total([s \in SimIds |-> NetChargeOf(s)], SimIds)
  <1> DEFINE g == [s \in SimIds |-> NetChargeOf(s)]
  <1>1. MapThenSumSet(NetChargeOf, SimIds) =
           (CHOOSE f : f = [T \in SUBSET SimIds |->
               IF T = {} THEN 0 ELSE NetChargeOf(Pick(T)) + f[T \ {Pick(T)}]])[SimIds]
    BY DEF MapThenSumSet, MapThenFoldSet, Pick
  <1>2. \A T \in SUBSET SimIds : T # {} => g[Pick(T)] = NetChargeOf(Pick(T))
    BY DEF Pick
  <1> HIDE DEF g
  <1>3. ASSUME NEW f
        PROVE  [T \in SUBSET SimIds |->
                   IF T = {} THEN 0 ELSE NetChargeOf(Pick(T)) + f[T \ {Pick(T)}]] =
               [T \in SUBSET SimIds |-> IF T = {} THEN 0 ELSE g[Pick(T)] + f[T \ {Pick(T)}]]
    BY <1>2
  <1>4. (CHOOSE f : f = [T \in SUBSET SimIds |->
               IF T = {} THEN 0 ELSE NetChargeOf(Pick(T)) + f[T \ {Pick(T)}]]) =
        (CHOOSE f : f = [T \in SUBSET SimIds |->
               IF T = {} THEN 0 ELSE g[Pick(T)] + f[T \ {Pick(T)}]])
    BY <1>3
  <1> QED
    BY <1>1, <1>4 DEF Total, Adds, g

LEMMA ChargesThisMonthTotal ==
    MapThenSumSet(ChargeThisMonth, SimIds) = Total([s \in SimIds |-> ChargeThisMonth(s)], SimIds)
  <1> DEFINE g == [s \in SimIds |-> ChargeThisMonth(s)]
  <1>1. MapThenSumSet(ChargeThisMonth, SimIds) =
           (CHOOSE f : f = [T \in SUBSET SimIds |->
               IF T = {} THEN 0 ELSE ChargeThisMonth(Pick(T)) + f[T \ {Pick(T)}]])[SimIds]
    BY DEF MapThenSumSet, MapThenFoldSet, Pick
  <1>2. \A T \in SUBSET SimIds : T # {} => g[Pick(T)] = ChargeThisMonth(Pick(T))
    BY DEF Pick
  <1> HIDE DEF g
  <1>3. ASSUME NEW f
        PROVE  [T \in SUBSET SimIds |->
                   IF T = {} THEN 0 ELSE ChargeThisMonth(Pick(T)) + f[T \ {Pick(T)}]] =
               [T \in SUBSET SimIds |-> IF T = {} THEN 0 ELSE g[Pick(T)] + f[T \ {Pick(T)}]]
    BY <1>2
  <1>4. (CHOOSE f : f = [T \in SUBSET SimIds |->
               IF T = {} THEN 0 ELSE ChargeThisMonth(Pick(T)) + f[T \ {Pick(T)}]]) =
        (CHOOSE f : f = [T \in SUBSET SimIds |->
               IF T = {} THEN 0 ELSE g[Pick(T)] + f[T \ {Pick(T)}]])
    BY <1>3
  <1> QED
    BY <1>1, <1>4 DEF Total, Adds, g

LEMMA ChargesInTotal ==
    ASSUME NEW p
    PROVE  ChargesIn(p) = Total([s \in SimIds |-> ChargeIn(s, p)], SimIds)
  <1> DEFINE g == [s \in SimIds |-> ChargeIn(s, p)]
  <1>1. ChargesIn(p) =
           (CHOOSE f : f = [T \in SUBSET SimIds |->
               IF T = {} THEN 0 ELSE ChargeIn(Pick(T), p) + f[T \ {Pick(T)}]])[SimIds]
    BY DEF ChargesIn, MapThenSumSet, MapThenFoldSet, Pick
  <1>2. \A T \in SUBSET SimIds : T # {} => g[Pick(T)] = ChargeIn(Pick(T), p)
    BY DEF Pick
  <1> HIDE DEF g
  <1>3. ASSUME NEW f
        PROVE  [T \in SUBSET SimIds |->
                   IF T = {} THEN 0 ELSE ChargeIn(Pick(T), p) + f[T \ {Pick(T)}]] =
               [T \in SUBSET SimIds |-> IF T = {} THEN 0 ELSE g[Pick(T)] + f[T \ {Pick(T)}]]
    BY <1>2
  <1>4. (CHOOSE f : f = [T \in SUBSET SimIds |->
               IF T = {} THEN 0 ELSE ChargeIn(Pick(T), p) + f[T \ {Pick(T)}]]) =
        (CHOOSE f : f = [T \in SUBSET SimIds |->
               IF T = {} THEN 0 ELSE g[Pick(T)] + f[T \ {Pick(T)}]])
    BY <1>3
  <1> QED
    BY <1>1, <1>4 DEF Total, Adds, g

LEMMA ChargesInTotalPrime ==
    ASSUME NEW p
    PROVE  ChargesIn(p)' = Total([s \in SimIds |-> ChargeIn(s, p)'], SimIds)
  <1> DEFINE g == [s \in SimIds |-> ChargeIn(s, p)']
  <1>1. ChargesIn(p)' =
           (CHOOSE f : f = [T \in SUBSET SimIds |->
               IF T = {} THEN 0 ELSE ChargeIn(Pick(T), p)' + f[T \ {Pick(T)}]])[SimIds]
    BY DEF ChargesIn, MapThenSumSet, MapThenFoldSet, Pick
  <1>2. \A T \in SUBSET SimIds : T # {} => g[Pick(T)] = ChargeIn(Pick(T), p)'
    BY DEF Pick
  <1> HIDE DEF g
  <1>3. ASSUME NEW f
        PROVE  [T \in SUBSET SimIds |->
                   IF T = {} THEN 0 ELSE ChargeIn(Pick(T), p)' + f[T \ {Pick(T)}]] =
               [T \in SUBSET SimIds |-> IF T = {} THEN 0 ELSE g[Pick(T)] + f[T \ {Pick(T)}]]
    BY <1>2
  <1>4. (CHOOSE f : f = [T \in SUBSET SimIds |->
               IF T = {} THEN 0 ELSE ChargeIn(Pick(T), p)' + f[T \ {Pick(T)}]]) =
        (CHOOSE f : f = [T \in SUBSET SimIds |->
               IF T = {} THEN 0 ELSE g[Pick(T)] + f[T \ {Pick(T)}]])
    BY <1>3
  <1> QED
    BY <1>1, <1>4 DEF Total, Adds, g

-----------------------------------------------------------------------------
(***************************************************************************)
(* What the cost records of a month add up to.                             *)
(***************************************************************************)
LEMMA ChargeType ==
    ASSUME SimulationTypeOK, NEW s \in SimIds, NEW p
    PROVE  ChargeIn(s, p) \in Nat
  BY NetChargeType DEF ChargeIn

LEMMA ChargesType ==
    ASSUME IsFiniteSet(SimIds), SimulationTypeOK, NEW p
    PROVE  /\ ChargesIn(p) \in Nat
           /\ \A s \in SimIds : ChargesIn(p) >= ChargeIn(s, p)
  <1> DEFINE g == [s \in SimIds |-> ChargeIn(s, p)]
  <1>1. g \in [SimIds -> Nat] /\ \A s \in SimIds : g[s] = ChargeIn(s, p)
    BY ChargeType
  <1>2. ChargesIn(p) = Total(g, SimIds)
    BY ChargesInTotal
  <1> HIDE DEF g
  <1> QED
    BY <1>1, <1>2, TotalType, TotalAtLeast

LEMMA ChargesNone ==
    ASSUME IsFiniteSet(SimIds), NEW p, \A s \in SimIds : ChargeIn(s, p) = 0
    PROVE  ChargesIn(p) = 0
  <1> DEFINE g == [s \in SimIds |-> ChargeIn(s, p)]
  <1>1. g \in [SimIds -> Nat] /\ \A s \in SimIds : g[s] = 0
    OBVIOUS
  <1>2. ChargesIn(p) = Total(g, SimIds)
    BY ChargesInTotal
  <1> HIDE DEF g
  <1> QED
    BY <1>1, <1>2, TotalOfNothing

\* no record is later than q, which is before p
LEMMA ChargesBefore ==
    ASSUME IsFiniteSet(SimIds), SimulationTypeOK, NEW q \in Int, NEW p \in Int,
           NoLaterThan(q), q < p
    PROVE  ChargesIn(p) = 0
  <1>1. ASSUME NEW s \in SimIds
        PROVE  ChargeIn(s, p) = 0
    <2>1. cost[s] # Absent => cost[s].period \in Nat /\ cost[s].period <= q
      BY DEF SimulationTypeOK, CostRecord, NoLaterThan
    <2> QED
      BY <2>1 DEF ChargeIn
  <1> QED
    BY <1>1, ChargesNone

LEMMA ChargesSame ==
    ASSUME NEW p, cost' = cost
    PROVE  ChargesIn(p)' = ChargesIn(p)
  <1>1. \A s \in SimIds : ChargeIn(s, p)' = ChargeIn(s, p)
    BY DEF ChargeIn, NetChargeOf
  <1>2. [s \in SimIds |-> ChargeIn(s, p)'] = [s \in SimIds |-> ChargeIn(s, p)]
    BY <1>1
  <1> QED
    BY <1>2, ChargesInTotal, ChargesInTotalPrime

\* one record changes
LEMMA ChargesMove ==
    ASSUME IsFiniteSet(SimIds), SimulationTypeOK, SimulationTypeOK', NEW p,
           NEW a \in SimIds, \A s \in SimIds : s # a => cost'[s] = cost[s]
    PROVE  /\ ChargesIn(p) \in Nat /\ ChargesIn(p)' \in Nat
           /\ ChargeIn(a, p) \in Nat /\ ChargeIn(a, p)' \in Nat
           /\ ChargesIn(p)' + ChargeIn(a, p) = ChargesIn(p) + ChargeIn(a, p)'
  <1> DEFINE g == [s \in SimIds |-> ChargeIn(s, p)]
             h == [s \in SimIds |-> ChargeIn(s, p)']
  <1>1. g \in [SimIds -> Nat] /\ g[a] = ChargeIn(a, p)
    BY ChargeType
  <1>2. \A s \in SimIds : ChargeIn(s, p)' \in Nat
    BY DEF SimulationTypeOK, ChargeIn, NetChargeOf, NetCharge, CostRecord
  <1>3. h \in [SimIds -> Nat] /\ h[a] = ChargeIn(a, p)'
    BY <1>2
  <1>4. \A s \in SimIds : s # a => h[s] = g[s]
    BY DEF ChargeIn, NetChargeOf
  <1>5. ChargesIn(p) = Total(g, SimIds) /\ ChargesIn(p)' = Total(h, SimIds)
    BY ChargesInTotal, ChargesInTotalPrime
  <1>6. g[a] \in Nat /\ h[a] \in Nat
    BY <1>1, <1>3
  <1> HIDE DEF g, h
  <1> QED
    BY <1>1, <1>3, <1>4, <1>5, <1>6, TotalsDiffer
-----------------------------------------------------------------------------
(***************************************************************************)
(* What is owed.                                                           *)
(***************************************************************************)
LEMMA OwedBy ==
    ASSUME NEW c \in Clients, NEW p, \A d \in Clients : d # c => Owes(d, p) = 0
    PROVE  Owed(p) = Owes(c, p)
  BY DEF Owed

LEMMA OwedNext ==
    ASSUME NEW c \in Clients, NEW p, \A d \in Clients : d # c => Owes(d, p)' = 0
    PROVE  Owed(p)' = Owes(c, p)'
  BY DEF Owed

LEMMA OwedNone ==
    ASSUME NEW p, \A d \in Clients : Owes(d, p) = 0
    PROVE  Owed(p) = 0
  BY DEF Owed

LEMMA OwedSame ==
    ASSUME NEW p, \A d \in Clients : Owes(d, p)' = Owes(d, p)
    PROVE  Owed(p)' = Owed(p)
  BY DEF Owed
-----------------------------------------------------------------------------
(***************************************************************************)
(* What every step may assume of the books it finds.                       *)
(***************************************************************************)
LEMMA LedgerFacts ==
    ASSUME LedgerInv
    PROVE  /\ SerialInv /\ SimInv /\ SimulationTypeOK /\ StoreInv
           /\ account \in Account \cup {Absent} /\ Absent \notin Account
           /\ month \in Nat /\ month >= 1
           /\ call \in [Clients -> CallType]
           /\ retired \in Nat /\ aborts \in Nat
           /\ \A c \in Clients : CallFits(c)
           /\ \A r \in Requests : PeriodFits(r)
           /\ \A w \in Workers : RecordFits(w)
  <1>1. SerialInv /\ SimInv /\ SimulationTypeOK
    BY SerialFacts DEF LedgerInv
  <1>2. StoreInv /\ TypeOK
    BY <1>1 DEF SimInv, StoreInv
  <1>3. month \in Nat /\ month >= 1
    BY <1>2, LastPeriodAssumption DEF TypeOK
  <1> QED
    BY <1>1, <1>2, <1>3, AbsentAssumption DEF TypeOK, SimulationTypeOK, LedgerInv

LEMMA DocumentFacts ==
    ASSUME LedgerInv
    PROVE  /\ \A doc \in Account : doc.tokens_used \in Nat /\ doc.usage_period \in Nat
           /\ account # Absent => account \in Account /\ InOrder(account)
           /\ \A c \in Clients : Saving(c) => call[c].doc \in Account /\ InOrder(call[c].doc)
  <1>1. \A doc \in Account : doc.tokens_used \in Nat /\ doc.usage_period \in Nat
    BY DEF Account
  <1>2. account # Absent => account \in Account /\ OnFile(account)
    BY LedgerFacts DEF OnFile
  <1>3. \A c \in Clients : Saving(c) => call[c].doc \in Account /\ OnFile(call[c].doc)
    BY LedgerFacts DEF OnFile, Saving, StoreInv, TypeOK
  <1> QED
    BY <1>1, <1>2, <1>3 DEF LedgerInv, Books

\* the types of what is compared
LEMMA OwesType ==
    ASSUME LedgerInv, NEW r \in Requests, NEW p
    PROVE  /\ Owes(r, p) = RequestOwes(r, p) /\ Owes(r, p) \in Nat
           /\ Paid(r) => /\ req[r].at \in Billing /\ req[r].sid \in SimIds
                         /\ req[r].estimate \in Nat
                         /\ req[r].period \in 1 .. month
                         /\ account \in Account
                         /\ req[r].period <= account.usage_period
  <1>1. Paid(r) => req[r].at \in Billing
    BY DEF Paid, Recording, Debiting, Billing
  <1>2. Paid(r) => /\ req[r].estimate \in Nat /\ req[r].sid \in SimIds
                   /\ req[r].period \in 1 .. month
                   /\ account \in Account
                   /\ req[r].period <= account.usage_period
    BY <1>1, LedgerFacts, SerialRequestFacts, OperationFacts DEF PeriodFits, Submitting
  <1>3. RequestOwes(r, p) \in Nat
    BY <1>2 DEF RequestOwes
  <1> QED
    BY <1>1, <1>2, <1>3 DEF Owes

\* the record that a worker bills or refunds
LEMMA RecordFacts ==
    ASSUME LedgerInv, NEW w \in Workers, NEW s, s = job[w].sid,
           job[w].at \in {"overage", "partial", "cost_save", "refund", "refund_save"}
    PROVE  /\ s \in SimIds /\ cost[s] \in CostRecord /\ job[w].record \in CostRecord
           /\ cost[s] # Absent /\ job[w].record # Absent
           /\ job[w].record.period = cost[s].period
           /\ ~cost[s].refunded /\ ~job[w].record.refunded
           /\ cost[s].period \in Nat /\ cost[s].period >= 1
           /\ cost[s].tokens_charged \in Nat /\ job[w].record.tokens_charged \in Nat
           /\ account \in Account /\ cost[s].period <= account.usage_period
           /\ \A p : ChargeIn(s, p) =
                IF job[w].record.period = p THEN cost[s].tokens_charged ELSE 0
  <1>1. s \in SimIds /\ job[w].record \in CostRecord /\ SimulationTypeOK
    BY LedgerFacts, WorkerFacts DEF Works
  <1>2. Absent \notin CostRecord
    BY AbsentIsNoBlob
  <1>3. JobFits(w) /\ RecordFits(w)
    BY LedgerFacts DEF SerialInv
  <1>4. cost[s] # Absent
    BY <1>1, <1>2, <1>3 DEF RecordFits
  <1>5. cost[s] \in CostRecord
    BY <1>1, <1>4 DEF SimulationTypeOK
  <1>6. ~job[w].record.refunded
    BY <1>3 DEF JobFits, RecordFits, Busy, Pays
  <1>7. job[w].record.period = cost[s].period /\ job[w].record.refunded = cost[s].refunded
    BY <1>3, <1>5 DEF RecordFits, CostRecord
  <1>8. account \in Account /\ InOrder(account)
    BY <1>1, <1>4, LedgerFacts, DocumentFacts DEF LedgerInv, Opening
  <1>9. cost[s].period >= 1 /\ cost[s].period <= account.usage_period
    BY <1>1, <1>4, <1>8 DEF LedgerInv, Opening, InOrder, NoLaterThan
  <1>10. /\ cost[s].period \in Nat
         /\ cost[s].tokens_charged \in Nat /\ job[w].record.tokens_charged \in Nat
    BY <1>1, <1>5 DEF CostRecord
  <1>11. NetChargeOf(s) = cost[s].tokens_charged
    BY <1>4, <1>6, <1>7 DEF NetChargeOf, NetCharge
  <1> QED
    BY <1>1, <1>2, <1>4, <1>5, <1>6, <1>7, <1>8, <1>9, <1>10, <1>11 DEF ChargeIn

\* a caller that is neither waiting for the account nor between a debit and its
\* record, or a refund and its record
Idle(c) == call[c].at = "idle" /\ \A p : Owes(c, p) = 0

LEMMA IdleWorker ==
    ASSUME LedgerInv, NEW w \in Workers, ~Busy(w)
    PROVE  Idle(w)
  <1>1. CallFits(w) /\ w \in Clients /\ w \notin Requests
    BY LedgerFacts, CallerFacts
  <1>2. call[w].at = "idle"
    BY <1>1 DEF CallFits, Calling, Busy
  <1>3. \A p : JobOwes(w, p) = 0
    BY DEF JobOwes, Adjusted, Busy
  <1> QED
    BY <1>1, <1>2, <1>3 DEF Owes, Idle

LEMMA IdleBystander ==
    ASSUME LedgerInv, NEW c \in Clients, c \notin Requests, c \notin Workers
    PROVE  Idle(c)
  BY LedgerFacts DEF Owes, Idle, CallFits, Calling

\* a request that is charged or resubmits, and nobody else
LEMMA RequestAlone ==
    ASSUME OneAtATime, LedgerInv, NEW r \in Requests,
           req[r].at \in Debiting \cup Recording \cup Resubmitting
    PROVE  /\ \A w \in Workers : ~Busy(w)
           /\ \A q \in Requests : q = r
           /\ \A d \in Clients : d # r => Idle(d)
  <1>1. RequestFits(req[r])
    BY LedgerFacts, SerialRequestFacts
  <1>2. NoneInFlight
    <2>1. CASE req[r].at = "create_cost"
      BY <1>1, <2>1 DEF RequestFits
    <2>2. CASE req[r].at # "create_cost"
      <3>1. Active = {}
        BY <1>1, <2>2 DEF RequestFits, Debiting, Recording, Resubmitting
      <3> QED
        BY <3>1, LedgerFacts, NoneActiveNoneInFlight
    <2> QED
      BY <2>1, <2>2
  <1>3. \A q \in Requests : q = r
    BY DEF OneAtATime
  <1>4. \A w \in Workers : ~Busy(w)
    BY <1>2 DEF NoneInFlight
  <1> QED
    BY <1>3, <1>4, IdleWorker, IdleBystander

\* a worker with a job, and nobody else but a request that looks at the account
LEMMA WorkerAlone ==
    ASSUME LedgerInv, NEW w \in Workers, Busy(w)
    PROVE  /\ \A v \in Workers : v # w => ~Busy(v)
           /\ \A r \in Requests :
                 req[r].at \notin Debiting \cup Recording \cup Resubmitting
           /\ \A d \in Clients : d # w => \A p : Owes(d, p) = 0
           /\ \A d \in Clients : d # w /\ Saving(d) => call[d].at = "seed"
  <1>1. job[w].sid \in Active /\ \A v \in Workers : v # w => ~Busy(v)
    BY LedgerFacts DEF SerialInv, Alone, JobFits
  <1>2. ASSUME NEW r \in Requests
        PROVE  req[r].at \notin Debiting \cup Recording \cup Resubmitting
    <2>1. RequestFits(req[r]) /\ ~NoneInFlight
      BY LedgerFacts, SerialRequestFacts DEF NoneInFlight
    <2> QED
      BY <1>1, <2>1 DEF RequestFits, Debiting, Recording, Resubmitting
  <1>3. ASSUME NEW r \in Requests
        PROVE  (\A p : Owes(r, p) = 0) /\ (Saving(r) => call[r].at = "seed")
    <2>1. ~Paid(r)
      BY <1>2 DEF Paid
    <2>2. \A p : Owes(r, p) = 0
      BY <2>1 DEF Owes, RequestOwes
    <2>3. CallFits(r) /\ r \in Clients /\ r \notin Workers
      BY LedgerFacts, CallerFacts
    <2>4. Saving(r) => call[r].op.name = "get_or_create"
      BY <1>2, <2>3 DEF Saving, CallFits, Calling, GetOrCreate
    <2> QED
      BY <2>2, <2>3, <2>4 DEF Saving, CallFits
  <1>4. ASSUME NEW d \in Clients, d # w
        PROVE  (\A p : Owes(d, p) = 0) /\ (Saving(d) => call[d].at = "seed")
    BY <1>1, <1>3, <1>4, IdleWorker, IdleBystander DEF Idle, Saving
  <1> QED
    BY <1>1, <1>2, <1>4
-----------------------------------------------------------------------------
(***************************************************************************)
(* Steps that charge, record and refund nothing.                           *)
(***************************************************************************)
LEMMA BooksStay ==
    ASSUME LedgerInv, UNCHANGED <<cost, retired, aborts>>,
           month' \in Nat, month' >= month,
           \A doc \in Account : OnFile(doc)' => OnFile(doc),
           \A c \in Clients : \A p : Owes(c, p)' = Owes(c, p)
    PROVE  Books'
  <1> SUFFICES ASSUME NEW doc \in Account, OnFile(doc)'
               PROVE  InOrder(doc)'
    BY DEF Books
  <1>1. InOrder(doc)
    BY DEF LedgerInv, Books
  <1> DEFINE p == doc.usage_period
  <1>2. ChargesIn(p)' = ChargesIn(p)
    BY ChargesSame
  <1>3. Owed(p)' = Owed(p)
    BY OwedSame
  <1>4. Slack(doc)' = Slack(doc)
    BY <1>2, <1>3 DEF Slack
  <1>5. NoLaterThan(p)' <=> NoLaterThan(p)
    BY DEF NoLaterThan
  <1>6. month \in Nat /\ month >= 1
    BY LedgerFacts
  <1>7. p \in 1 .. month'
    BY <1>1, <1>6 DEF InOrder
  <1>8. month' = 1 => month = 1
    BY <1>6
  <1> QED
    BY <1>1, <1>4, <1>5, <1>7, <1>8 DEF InOrder

LEMMA LedgerRequest ==
    ASSUME OneAtATime, LedgerInv, SerialInv', NEW r \in Requests,
           UNCHANGED <<account, month, cost, retired, aborts, job>>,
           \A d \in Clients : d # r => call'[d] = call[d],
           ~Saving(r)', CallFits(r)', PeriodFits(r)',
           \A p : Owes(r, p)' = Owes(r, p),
           FailuresSettle'
    PROVE  LedgerInv'
  <1>1. \A q \in Requests : q = r
    BY DEF OneAtATime
  <1>2. ASSUME NEW d \in Clients, d # r
        PROVE  CallFits(d)' /\ \A p : Owes(d, p)' = Owes(d, p)
    <2>1. d \notin Requests /\ CallFits(d) /\ call'[d] = call[d]
      BY <1>1, <1>2, LedgerFacts
    <2>2. CallFits(d)'
      BY <2>1 DEF CallFits, Calling, NoLaterThan
    <2> QED
      BY <2>1, <2>2 DEF Owes, JobOwes, Adjusted
  <1>3. \A doc \in Account : OnFile(doc)' => OnFile(doc)
    BY DEF OnFile, Saving
  <1>4. month' \in Nat /\ month' >= month
    BY LedgerFacts
  <1>5. Books'
    BY <1>2, <1>3, <1>4, BooksStay
  <1>6. \A w \in Workers : RecordFits(w)'
    BY LedgerFacts DEF RecordFits, NoLaterThan
  <1>7. Opening' /\ aborts' \in Nat
    BY DEF LedgerInv, Opening
  <1> QED
    BY <1>1, <1>2, <1>5, <1>6, <1>7 DEF LedgerInv

LEMMA LedgerWorker ==
    ASSUME LedgerInv, SerialInv', NEW w \in Workers,
           UNCHANGED <<account, month, cost, retired, aborts, req>>,
           \A v \in Workers : v # w => job'[v] = job[v],
           \A d \in Clients : d # w => call'[d] = call[d],
           ~Saving(w)', CallFits(w)', RecordFits(w)',
           \A p : Owes(w, p)' = Owes(w, p),
           FailuresSettle'
    PROVE  LedgerInv'
  <1>1. \A r \in Requests : r \in Clients /\ r # w
    BY CallerFacts
  <1>2. ASSUME NEW d \in Clients, d # w
        PROVE  CallFits(d)' /\ \A p : Owes(d, p)' = Owes(d, p)
    <2>1. CallFits(d) /\ call'[d] = call[d] /\ (d \in Workers => job'[d] = job[d])
      BY <1>2, LedgerFacts
    <2>2. CallFits(d)'
      BY <2>1 DEF CallFits, Calling, NoLaterThan
    <2>3. ASSUME NEW p
          PROVE  Owes(d, p)' = Owes(d, p)
      BY <2>1 DEF Owes, JobOwes, Adjusted, RequestOwes, Paid
    <2> QED
      BY <2>2, <2>3
  <1>3. \A doc \in Account : OnFile(doc)' => OnFile(doc)
    BY DEF OnFile, Saving
  <1>4. month' \in Nat /\ month' >= month
    BY LedgerFacts
  <1>5. Books'
    BY <1>2, <1>3, <1>4, BooksStay
  <1>6. \A v \in Workers : RecordFits(v)'
    <2>1. \A v \in Workers : v # w => RecordFits(v)'
      BY LedgerFacts DEF RecordFits, NoLaterThan
    <2> QED
      BY <2>1
  <1>7. \A r \in Requests : PeriodFits(r)'
    BY <1>1, LedgerFacts DEF PeriodFits, Paid, Saving
  <1>8. Opening' /\ aborts' \in Nat
    BY DEF LedgerInv, Opening
  <1> QED
    BY <1>2, <1>5, <1>6, <1>7, <1>8 DEF LedgerInv

LEMMA FailuresRequest ==
    ASSUME OneAtATime, LedgerInv, NEW r \in Requests,
           UNCHANGED <<month, cost, trail, job, aborts>>,
           req[r].at \in {"append_read", "append_write"} =>
              /\ req'[r].at \in {"append_read", "append_write"}
              /\ req'[r].sid = req[r].sid
    PROVE  FailuresSettle'
  <1>1. \A q \in Requests : q = r
    BY DEF OneAtATime
  <1>2. \A s : /\ Settled(s)' <=> Settled(s)
               /\ StatusOf(s)' = StatusOf(s)
    BY DEF Settled, NetChargeOf, StatusOf
  <1> QED
    BY <1>1, <1>2 DEF LedgerInv, FailuresSettle, Announcing

LEMMA FailuresWorker ==
    ASSUME LedgerInv, NEW w \in Workers,
           UNCHANGED <<month, cost, trail, req, aborts>>,
           \A v \in Workers : v # w => job'[v] = job[v],
           month = 1 /\ Announcing(job'[w]) /\ job'[w].next = "failed" =>
              Settled(job'[w].sid)
    PROVE  FailuresSettle'
  <1>1. \A s : /\ Settled(s)' <=> Settled(s)
               /\ StatusOf(s)' = StatusOf(s)
    BY DEF Settled, NetChargeOf, StatusOf
  <1>2. ASSUME month = 1, NEW v \in Workers, Announcing(job'[v]), job'[v].next = "failed",
               NEW s, s = job'[v].sid
        PROVE  Settled(s)
    <2>1. CASE v = w
      BY <1>2, <2>1
    <2>2. CASE v # w
      <3>1. job'[v] = job[v]
        BY <2>2
      <3> QED
        BY <1>2, <3>1 DEF LedgerInv, FailuresSettle
    <2> QED
      BY <2>1, <2>2
  <1>3. month = 1 /\ aborts = 0 =>
           \A s \in SimIds :
              trail[s] # Absent /\ StatusOf(s) = "failed" =>
                  \/ Settled(s)
                  \/ \E r \in Requests : /\ req[r].sid = s
                                         /\ req[r].at \in {"append_read", "append_write"}
    BY DEF LedgerInv, FailuresSettle
  <1>4. ASSUME month = 1, NEW v \in Workers, Announcing(job[v])', job'[v].next = "failed"
        PROVE  Settled(job[v].sid)'
    <2>1. Announcing(job'[v]) /\ Settled(job'[v].sid)
      BY <1>2, <1>4 DEF Announcing
    <2> QED
      BY <2>1 DEF Settled, NetChargeOf
  <1>5. \A s : Settled(s) => Settled(s)'
    BY <1>1
  <1> QED
    BY <1>1, <1>3, <1>4, <1>5 DEF FailuresSettle
-----------------------------------------------------------------------------
(***************************************************************************)
(* Requests, but for the steps that store a cost record or are cut off.    *)
(***************************************************************************)
\* where request r and the other requests are after a step of r to a stage
LEMMA GoIs ==
    ASSUME SimInv, NEW r \in Requests, NEW stage, Go(r, stage)
    PROVE  /\ \A q \in Requests : q # r => req'[q] = req[q]
           /\ req'[r].at = stage /\ req'[r].sid = req[r].sid
           /\ req'[r].estimate = req[r].estimate /\ req'[r].period = req[r].period
           /\ req'[r].sids = req[r].sids /\ req'[r].doomed = req[r].doomed
  BY RequestFacts DEF Go, ReqType

LEMMA ForgetIs ==
    ASSUME SimInv, NEW c \in Clients, Forget(c)
    PROVE  /\ call'[c].at = "idle" /\ ~Saving(c)' /\ CallFits(c)'
           /\ \A d \in Clients : d # c => call'[d] = call[d]
  <1>1. call \in [Clients -> CallType] /\ call' = [call EXCEPT ![c] = NoCall]
    BY DEF SimInv, StoreInv, TypeOK, Forget
  <1>2. call'[c] = NoCall /\ call'[c].at = "idle"
    BY <1>1, NoCallType
  <1>3. \A d \in Clients : d # c => call'[d] = call[d]
    BY <1>1
  <1> QED
    BY <1>2, <1>3 DEF Saving, CallFits

LEMMA InvokeIs ==
    ASSUME SimInv, NEW c \in Clients, NEW op, op.name # "delete_prefix", Invoke(c, op)
    PROVE  /\ call'[c].at = "read" /\ call'[c].op = op /\ ~Saving(c)'
           /\ Calling(c)' => CallFits(c)'
           /\ \A d \in Clients : d # c => call'[d] = call[d]
  <1>1. call \in [Clients -> CallType] /\ call' = [call EXCEPT ![c] = Begun(op)]
    BY DEF SimInv, StoreInv, TypeOK, Invoke
  <1>2. call'[c].at = "read" /\ call'[c].op = op
    BY <1>1 DEF Begun
  <1>3. \A d \in Clients : d # c => call'[d] = call[d]
    BY <1>1
  <1> QED
    BY <1>2, <1>3 DEF Saving, CallFits

\* the request is over, and owes nothing
LEMMA LedgerEnd ==
    ASSUME OneAtATime, LedgerInv, SerialInv', NEW r \in Requests, Finish(r),
           UNCHANGED <<account, month, trail, cost, retired, aborts, job>>,
           ~Paid(r), req[r].at \notin {"append_read", "append_write"}
    PROVE  LedgerInv'
  <1>1. SimInv /\ r \in Clients /\ req \in [Requests -> ReqType]
    BY LedgerFacts, CallerFacts, RequestFacts
  <1>2. /\ call'[r].at = "idle" /\ ~Saving(r)' /\ CallFits(r)'
        /\ \A d \in Clients : d # r => call'[d] = call[d]
    BY <1>1, ForgetIs DEF Finish
  <1>3. req'[r].at = "idle"
    BY <1>1 DEF Finish, NoRequest
  <1>4. ~Paid(r)'
    BY <1>3 DEF Paid, Recording, Debiting
  <1>5. PeriodFits(r)'
    BY <1>3, <1>4 DEF PeriodFits, Billing, Debiting, Recording
  <1>6. \A p : Owes(r, p)' = Owes(r, p)
    BY <1>4 DEF Owes, RequestOwes
  <1>7. FailuresSettle'
    BY FailuresRequest
  <1> QED
    BY <1>2, <1>5, <1>6, <1>7, LedgerRequest

\* the request asks for an account operation
LEMMA LedgerAsk ==
    ASSUME OneAtATime, LedgerInv, SerialInv', NEW r \in Requests,
           NEW op, op.name # "delete_prefix", Invoke(r, op), Calling(r)',
           UNCHANGED <<account, month, trail, cost, retired, aborts, job>>,
           ~Paid(r), req[r].at \notin {"append_read", "append_write"},
           req'[r].at \notin Recording,
           req'[r].at \in Billing => req'[r].period \in 1 .. month
    PROVE  LedgerInv'
  <1>1. SimInv /\ r \in Clients
    BY LedgerFacts, CallerFacts
  <1>2. /\ call'[r].at = "read" /\ ~Saving(r)' /\ CallFits(r)'
        /\ \A d \in Clients : d # r => call'[d] = call[d]
    BY <1>1, InvokeIs
  <1>3. ~Paid(r)'
    BY <1>2 DEF Paid
  <1>4. PeriodFits(r)'
    BY <1>2, <1>3 DEF PeriodFits
  <1>5. \A p : Owes(r, p)' = Owes(r, p)
    BY <1>3 DEF Owes, RequestOwes
  <1>6. FailuresSettle'
    BY FailuresRequest
  <1> QED
    BY <1>2, <1>4, <1>5, <1>6, LedgerRequest

LEMMA LedgerAsks ==
    ASSUME OneAtATime, LedgerInv, SerialInv', NEW r \in Requests, job' = job,
           \/ \E s \in SimIds, e \in Estimates : CreateStart(r, s, e)
           \/ ViewStart(r)
           \/ CreateAdmit(r) \/ RetryAdmit(r) \/ RetryDebit(r)
    PROVE  LedgerInv'
  <1>1. /\ SimInv /\ req \in [Requests -> ReqType] /\ req[r] \in ReqType
        /\ month \in 1 .. month
    BY LedgerFacts, RequestFacts
  <1>2. NoRequest.at = "idle"
    BY DEF NoRequest
  <1>3. /\ GetOrCreate(UserRole).name # "delete_prefix"
        /\ \A n : Debit(n).name # "delete_prefix"
    BY DEF GetOrCreate, Debit
  <1>4. call \in [Clients -> CallType] /\ r \in Clients /\ PeriodFits(r)
    BY LedgerFacts, CallerFacts
  <1>5. ASSUME NEW s \in SimIds, NEW e \in Estimates, CreateStart(r, s, e)
        PROVE  LedgerInv'
    <2>1. req[r].at = "idle" /\ req'[r].at = "create_account" /\ req'[r].period = month
      BY <1>1, <1>2, <1>5 DEF CreateStart, Accept, NoRequest
    <2>2. /\ UNCHANGED <<account, month, trail, cost, retired, aborts, job>>
          /\ Invoke(r, GetOrCreate(UserRole))
      BY <1>5 DEF CreateStart, Accept, simVars
    <2>3. ~Paid(r)
      BY <2>1 DEF Paid, Recording, Debiting
    <2>4. Calling(r)'
      BY <1>1, <1>3, <1>4, <2>1, <2>2, InvokeIs DEF Calling
    <2> QED
      BY <1>1, <1>3, <2>1, <2>2, <2>3, <2>4, LedgerAsk DEF Recording
  <1>6. CASE ViewStart(r)
    <2>1. req[r].at = "idle" /\ req'[r].at = "view"
      BY <1>1, <1>2, <1>6 DEF ViewStart, Accept, NoRequest
    <2>2. /\ UNCHANGED <<account, month, trail, cost, retired, aborts, job>>
          /\ Invoke(r, GetOrCreate(UserRole))
      BY <1>6 DEF ViewStart, Accept, simVars
    <2>3. ~Paid(r)
      BY <2>1 DEF Paid, Recording, Debiting
    <2>4. Calling(r)'
      BY <1>1, <1>3, <1>4, <2>1, <2>2, InvokeIs DEF Calling
    <2> QED
      BY <1>1, <1>3, <2>1, <2>2, <2>3, <2>4, LedgerAsk DEF Recording, Billing
  <1>7. CASE CreateAdmit(r)
    <2>1. /\ UNCHANGED <<account, month, trail, cost, retired, aborts, job>>
          /\ req[r].at = "create_account"
      BY <1>7 DEF CreateAdmit, At, simVars, apiCounters
    <2>2. ~Paid(r)
      BY <2>1 DEF Paid, Recording, Debiting
    <2>3. CASE Finish(r)
      BY <2>1, <2>2, <2>3, LedgerEnd
    <2>4. CASE ~Finish(r)
      <3>1. Go(r, "create_debit") /\ Invoke(r, Debit(req[r].estimate))
        BY <1>7, <2>4 DEF CreateAdmit
      <3>2. /\ req'[r].at = "create_debit" /\ req'[r].period = req[r].period
            /\ req'[r].estimate = req[r].estimate
        BY <1>1, <3>1, GoIs
      <3>3. req'[r].period \in 1 .. month
        BY <1>4, <2>1, <3>2 DEF PeriodFits, Billing
      <3>4. Calling(r)'
        BY <1>1, <1>3, <1>4, <3>1, <3>2, InvokeIs DEF Calling, Debiting
      <3> QED
        BY <1>3, <2>1, <2>2, <3>1, <3>2, <3>3, <3>4, LedgerAsk DEF Recording
    <2> QED
      BY <2>3, <2>4
  <1>8. CASE RetryAdmit(r)
    <2>1. /\ UNCHANGED <<account, month, trail, cost, retired, aborts, job>>
          /\ req[r].at = "retry_checks"
      BY <1>8 DEF RetryAdmit, At, simVars, apiCounters
    <2>2. ~Paid(r)
      BY <2>1 DEF Paid, Recording, Debiting
    <2>3. CASE Finish(r)
      BY <2>1, <2>2, <2>3, LedgerEnd
    <2>4. CASE ~Finish(r)
      <3>1. /\ req' = [req EXCEPT ![r].at = "retry_account",
                                  ![r].estimate = config[req[r].sid],
                                  ![r].period = month]
            /\ Invoke(r, GetOrCreate(UserRole))
        BY <1>8, <2>4 DEF RetryAdmit
      <3>2. req'[r].at = "retry_account" /\ req'[r].period = month
        BY <1>1, <3>1 DEF ReqType
      <3>3. Calling(r)'
        BY <1>1, <1>3, <1>4, <3>1, <3>2, InvokeIs DEF Calling
      <3> QED
        BY <1>1, <1>3, <2>1, <2>2, <3>1, <3>2, <3>3, LedgerAsk DEF Recording
    <2> QED
      BY <2>3, <2>4
  <1>9. CASE RetryDebit(r)
    <2>1. /\ UNCHANGED <<account, month, trail, cost, retired, aborts, job>>
          /\ req[r].at = "retry_account"
      BY <1>9 DEF RetryDebit, At, simVars, apiCounters
    <2>2. ~Paid(r)
      BY <2>1 DEF Paid, Recording, Debiting
    <2>3. Go(r, "retry_debit") /\ Invoke(r, Debit(req[r].estimate))
      BY <1>9 DEF RetryDebit
    <2>4. /\ req'[r].at = "retry_debit" /\ req'[r].period = req[r].period
          /\ req'[r].estimate = req[r].estimate
      BY <1>1, <2>3, GoIs
    <2>5. req'[r].period \in 1 .. month
      BY <1>4, <2>1, <2>4 DEF PeriodFits, Billing
    <2>6. Calling(r)'
      BY <1>1, <1>3, <1>4, <2>3, <2>4, InvokeIs DEF Calling, Debiting
    <2> QED
      BY <1>3, <2>1, <2>2, <2>3, <2>4, <2>5, <2>6, LedgerAsk DEF Recording
  <1> QED
    BY <1>5, <1>6, <1>7, <1>8, <1>9

LEMMA LedgerEnds ==
    ASSUME OneAtATime, LedgerInv, SerialInv', NEW r \in Requests, job' = job,
           Reject(r) \/ Trigger(r) \/ ViewEnd(r)
    PROVE  LedgerInv'
  <1>1. UNCHANGED <<account, month, trail, cost, retired, aborts, job>>
    BY DEF Reject, Trigger, ViewEnd, simVars, apiCounters
  <1>2. req[r].kind # "rerun"
    BY LedgerFacts, SerialRequestFacts DEF RequestFits
  <1>3. Finish(r)
    BY <1>2 DEF Reject, Trigger, ViewEnd
  <1>4. ~Paid(r) /\ req[r].at \notin {"append_read", "append_write"}
    BY DEF Reject, Trigger, ViewEnd, At, Paid, Recording, Debiting
  <1> QED
    BY <1>1, <1>3, <1>4, LedgerEnd
LEMMA FailuresTrail ==
    ASSUME OneAtATime, LedgerInv, NEW r \in Requests, NEW s \in SimIds,
           UNCHANGED <<month, cost, job, aborts>>,
           \A t \in SimIds : t # s => trail'[t] = trail[t],
           StatusOf(s)' # "failed",
           req[r].at \in {"append_read", "append_write"} => req[r].sid = s
    PROVE  FailuresSettle'
  <1>1. \A q \in Requests : q = r
    BY DEF OneAtATime
  <1>2. \A t : Settled(t)' <=> Settled(t)
    BY DEF Settled, NetChargeOf
  <1>3. \A t \in SimIds : t # s => StatusOf(t)' = StatusOf(t)
    BY DEF StatusOf
  <1>4. month = 1 /\ aborts = 0 =>
           \A t \in SimIds : trail[t] # Absent /\ StatusOf(t) = "failed" => t = s \/ Settled(t)
    BY <1>1 DEF LedgerInv, FailuresSettle
  <1>5. month = 1 => \A w \in Workers :
            Announcing(job[w]) /\ job[w].next = "failed" => Settled(job[w].sid)
    BY DEF LedgerInv, FailuresSettle
  <1> QED
    BY <1>2, <1>3, <1>4, <1>5 DEF FailuresSettle, Announcing

\* a step of a request that makes no call
LEMMA LedgerQuiet ==
    ASSUME OneAtATime, LedgerInv, SerialInv', NEW r \in Requests,
           UNCHANGED <<storeVars, cost, retired, aborts, job>>,
           ~Calling(r), FailuresSettle',
           req[r].at \notin Debiting, req'[r].at \notin Debiting,
           req'[r].at \in Recording => req[r].at \in Recording,
           req[r].at \in Recording =>
              /\ req'[r].at \in Recording /\ req'[r].sid = req[r].sid
              /\ req'[r].period = req[r].period /\ req'[r].estimate = req[r].estimate,
           req'[r].at \in Billing => req[r].at \in Recording
    PROVE  LedgerInv'
  <1>1. call[r].at = "idle" /\ PeriodFits(r) /\ r \in Clients
    BY LedgerFacts, CallerFacts DEF CallFits
  <1>2. UNCHANGED <<account, month, call>>
    BY DEF storeVars
  <1>3. ~Saving(r)' /\ CallFits(r)'
    BY <1>1, <1>2 DEF Saving, CallFits
  <1>4. Paid(r)' <=> Paid(r)
    BY DEF Paid
  <1>5. \A p : Owes(r, p)' = Owes(r, p)
    BY <1>4 DEF Owes, RequestOwes, Paid
  <1>6. Recording \subseteq Billing
    BY DEF Recording, Billing
  <1>7. PeriodFits(r)'
    BY <1>1, <1>2, <1>4, <1>6 DEF PeriodFits, Paid
  <1> QED
    BY <1>2, <1>3, <1>5, <1>7, LedgerRequest

LEMMA LedgerQuietly ==
    ASSUME OneAtATime, LedgerInv, SerialInv', NEW r \in Requests, job' = job,
           \/ \E s \in SimIds : RetryStart(r, s)
           \/ CreateSaveStatus(r) \/ AppendRead(r) \/ AppendWrite(r)
    PROVE  LedgerInv'
  <1>1. /\ SimInv /\ SimulationTypeOK /\ req \in [Requests -> ReqType] /\ req[r] \in ReqType
        /\ r \notin Workers
    BY LedgerFacts, RequestFacts, CallerFacts
  <1>2. ASSUME NEW s \in SimIds, RetryStart(r, s)
        PROVE  LedgerInv'
    <2>1. req[r].at = "idle" /\ req'[r].at = "retry_checks"
      <3> DEFINE new == [NoRequest EXCEPT !.at = "retry_checks", !.kind = "retry", !.sid = s]
      <3>1. NoRequest.at = "idle" /\ new.at = "retry_checks"
        BY DEF NoRequest
      <3>2. req[r] = NoRequest /\ req' = [req EXCEPT ![r] = new]
        BY <1>2 DEF RetryStart, Accept
      <3> HIDE DEF new
      <3> QED
        BY <1>1, <3>1, <3>2
    <2>2. UNCHANGED <<storeVars, month, cost, trail, retired, aborts, job>>
      BY <1>2 DEF RetryStart, Accept, simVars, storeVars
    <2>3. FailuresSettle'
      BY <2>1, <2>2, FailuresRequest
    <2> QED
      BY <1>1, <2>1, <2>2, <2>3, LedgerQuiet DEF Calling, Debiting, Recording, Billing
  <1>3. CASE CreateSaveStatus(r)
    <2>1. /\ req[r].at = "create_status" /\ req'[r].at = "create_cost"
          /\ req'[r].sid = req[r].sid
          /\ req'[r].period = req[r].period /\ req'[r].estimate = req[r].estimate
      BY <1>1, <1>3, GoIs DEF CreateSaveStatus, At
    <2>2. UNCHANGED <<storeVars, month, cost, retired, aborts, job>>
      BY <1>3 DEF CreateSaveStatus, apiCounters, storeVars
    <2>3. req[r].sid \in SimIds
      BY <2>1, LedgerFacts, SerialRequestFacts DEF Submitting, Billing
    <2> DEFINE first == <<"pending">>
    <2>4. Last(first) = "pending"
      BY DEF Last
    <2>5. trail' = [trail EXCEPT ![req[r].sid] = first]
      BY <1>3 DEF CreateSaveStatus
    <2> HIDE DEF first
    <2>6. ASSUME NEW s, s = req[r].sid
          PROVE  StatusOf(s)' = "pending" /\ \A t \in SimIds : t # s => trail'[t] = trail[t]
      BY <1>1, <2>3, <2>4, <2>5, <2>6 DEF StatusOf, SimulationTypeOK
    <2>7. FailuresSettle'
      BY <2>1, <2>2, <2>3, <2>6, FailuresTrail
    <2> QED
      BY <1>1, <2>1, <2>2, <2>7, LedgerQuiet DEF Calling, Debiting, Recording
  <1>4. CASE AppendRead(r)
    <2>1. /\ req[r].at = "append_read" /\ req'[r].at = "append_write"
          /\ req'[r].sid = req[r].sid
      BY <1>1, <1>4 DEF AppendRead, At, ReqType
    <2>2. UNCHANGED <<storeVars, month, cost, trail, retired, aborts, job>>
      BY <1>4 DEF AppendRead, apiCounters, simVars, storeVars
    <2>3. FailuresSettle'
      BY <2>1, <2>2, FailuresRequest
    <2> QED
      BY <1>1, <2>1, <2>2, <2>3, LedgerQuiet DEF Calling, Debiting, Recording, Billing
  <1>5. CASE AppendWrite(r)
    <2>1. req[r].at = "append_write" /\ req'[r].at = "publish"
      BY <1>1, <1>5, GoIs DEF AppendWrite, At
    <2>2. UNCHANGED <<storeVars, month, cost, retired, aborts, job>>
      BY <1>5 DEF AppendWrite, apiCounters, storeVars
    <2>3. req[r].sid \in SimIds /\ req[r].events \in Seq(Status)
      BY <1>1, <2>1, LedgerFacts, SerialRequestFacts DEF Submitting, ReqType
    <2>4. Last(Append(req[r].events, "retried")) = "retried"
      BY <2>3, AppendType DEF Status
    <2>5. ASSUME NEW s, s = req[r].sid
          PROVE  StatusOf(s)' = "retried" /\ \A t \in SimIds : t # s => trail'[t] = trail[t]
      BY <1>1, <1>5, <2>3, <2>4, <2>5 DEF AppendWrite, StatusOf, SimulationTypeOK
    <2>6. FailuresSettle'
      BY <2>1, <2>2, <2>3, <2>5, FailuresTrail
    <2> QED
      BY <1>1, <2>1, <2>2, <2>6, LedgerQuiet DEF Calling, Debiting, Recording, Billing
  <1> QED
    BY <1>2, <1>3, <1>4, <1>5

\* a submission was charged, and nothing is stored for its id yet
LEMMA LedgerSaveConfig ==
    ASSUME OneAtATime, LedgerInv, SerialInv', NEW r \in Requests, job' = job,
           CreateSaveConfig(r)
    PROVE  LedgerInv'
  <1>1. SimInv /\ r \in Clients /\ SerialInv /\ PeriodFits(r)
    BY LedgerFacts, CallerFacts
  <1>2. /\ req[r].at = "create_debit" /\ req'[r].at = "create_status"
        /\ req'[r].sid = req[r].sid /\ Paid(r)
        /\ req'[r].period = req[r].period /\ req'[r].estimate = req[r].estimate
    BY <1>1, GoIs DEF CreateSaveConfig, At, Paid, Debiting
  <1>3. /\ ~Saving(r)' /\ CallFits(r)'
        /\ \A d \in Clients : d # r => call'[d] = call[d]
    BY <1>1, ForgetIs DEF CreateSaveConfig
  <1>4. UNCHANGED <<account, month, trail, cost, retired, aborts, job>>
    BY DEF CreateSaveConfig, apiCounters
  <1>5. Paid(r)' /\ Paid(r)
    BY <1>2 DEF Paid, Recording
  <1>6. \A p : Owes(r, p)' = Owes(r, p)
    BY <1>2, <1>5 DEF Owes, RequestOwes
  <1>7. cost[req[r].sid] = Absent
    <2>1. req[r].sid \in SimIds
      BY <1>1, <1>2, SerialRequestFacts DEF Submitting, Billing
    <2>2. Unbegun(req[r].sid)
      BY <1>2 DEF Unbegun, Creating
    <2> QED
      BY <1>1, <2>1, <2>2 DEF SerialInv, ResultsInv, FreshInv, Untouched, NoBlobs
  <1>8. PeriodFits(r)'
    BY <1>1, <1>2, <1>3, <1>4, <1>5, <1>7 DEF PeriodFits, Billing
  <1>9. FailuresSettle'
    BY <1>2, <1>4, FailuresRequest
  <1> QED
    BY <1>3, <1>4, <1>6, <1>8, <1>9, LedgerRequest
-----------------------------------------------------------------------------
(***************************************************************************)
(* The cost record of a submission: what was debited for it is now in a    *)
(* record, and what the record of the previous attempt still claimed is    *)
(* retired.                                                                *)
(***************************************************************************)
LEMMA SavingCost ==
    ASSUME OneAtATime, LedgerInv, NEW r \in Requests, job' = job,
           CreateSaveCost(r) \/ RetrySaveCost(r), NEW s, s = req[r].sid
    PROVE  /\ Paid(r) /\ s \in SimIds
           /\ UNCHANGED <<account, month, trail, aborts>>
           /\ req'[r].at \in {"publish", "append_read"} /\ req'[r].sid = s
           /\ cost' = [cost EXCEPT ![s] = NewCost(r)]
           /\ retired' = retired + NetChargeOf(s)
           /\ \A d \in Clients : call'[d].at = "idle"
           /\ req'[r].at = "publish" => s \in Active
  <1>1. SimInv /\ r \in Clients /\ r \notin Workers /\ PeriodFits(r) /\ retired \in Nat
    BY LedgerFacts, CallerFacts
  <1>2. Paid(r) /\ req[r].at \in Debiting \cup Recording
    BY DEF CreateSaveCost, RetrySaveCost, At, Paid, Recording, Debiting
  <1>3. \A d \in Clients : d # r => call[d].at = "idle"
    BY <1>2, RequestAlone DEF Idle
  <1>4. s \in SimIds
    BY <1>2, OwesType
  <1>5. CASE CreateSaveCost(r)
    <2>1. call[r].at = "idle" /\ cost[s] = Absent
      BY <1>1, <1>5, LedgerFacts
      DEF CreateSaveCost, At, CallFits, Calling, Debiting, PeriodFits, Recording
    <2>2. /\ UNCHANGED <<account, month, call, trail, aborts, retired>>
          /\ Go(r, "publish") /\ cost' = [cost EXCEPT ![s] = NewCost(r)]
      BY <1>5 DEF CreateSaveCost, storeVars, apiCounters
    <2>3. s \in Active
      BY <1>5, LedgerFacts, SerialRequestFacts DEF CreateSaveCost, At, RequestFits
    <2>4. NetChargeOf(s) = 0
      BY <2>1 DEF NetChargeOf
    <2>5. retired' = retired + NetChargeOf(s)
      BY <1>1, <2>2, <2>4
    <2> QED
      BY <1>1, <1>2, <1>3, <1>4, <2>1, <2>2, <2>3, <2>5, GoIs
  <1>6. CASE RetrySaveCost(r)
    <2>1. /\ UNCHANGED <<account, month, trail, aborts>>
          /\ Go(r, "append_read") /\ cost' = [cost EXCEPT ![s] = NewCost(r)]
          /\ retired' = retired + NetChargeOf(s) /\ Forget(r)
      BY <1>6 DEF RetrySaveCost, apiCounters
    <2>2. \A d \in Clients : call'[d].at = "idle"
      BY <1>1, <1>3, <2>1, ForgetIs
    <2> QED
      BY <1>1, <1>2, <1>4, <2>1, <2>2, GoIs
  <1> QED
    BY <1>5, <1>6

LEMMA LedgerSaveCost ==
    ASSUME OneAtATime, IsFiniteSet(SimIds), LedgerInv, SerialInv', NEW r \in Requests,
           job' = job, CreateSaveCost(r) \/ RetrySaveCost(r),
           NEW s, s = req[r].sid, NEW record, record = NewCost(r)
    PROVE  LedgerInv'
  <1>1. /\ Paid(r) /\ s \in SimIds
        /\ UNCHANGED <<account, month, trail, aborts>>
        /\ req'[r].at \in {"publish", "append_read"} /\ req'[r].sid = s
        /\ cost' = [cost EXCEPT ![s] = record]
        /\ retired' = retired + NetChargeOf(s)
        /\ \A d \in Clients : call'[d].at = "idle"
        /\ req'[r].at = "publish" => s \in Active
    BY SavingCost
  <1>2. /\ SimInv /\ SimulationTypeOK /\ SimulationTypeOK'
        /\ r \in Clients /\ r \notin Workers /\ \A w \in Workers : w \notin Requests
        /\ month \in Nat /\ retired \in Nat
    BY LedgerFacts, CallerFacts DEF SerialInv, ResultsInv, FreshInv, SimInv
  <1>3. /\ req[r].at \in Billing /\ req[r].estimate \in Nat /\ req[r].period \in 1 .. month
        /\ account \in Account /\ req[r].period <= account.usage_period
    BY <1>1, OwesType
  <1>4. req[r].at \in Debiting \cup Recording
    BY <1>1 DEF Paid
  <1>5. /\ \A w \in Workers : ~Busy(w)
        /\ \A q \in Requests : q = r
        /\ \A d \in Clients : d # r => Idle(d)
    BY <1>4, RequestAlone
  <1>6. /\ record \in CostRecord /\ record # Absent
        /\ record.period = req[r].period
        /\ NetCharge(record) = req[r].estimate
    <2>1. record \in CostRecord
      BY <1>2, <1>3, NewCostType
    <2>2. /\ record.period = req[r].period /\ ~record.refunded
          /\ record.tokens_charged = req[r].estimate
      BY DEF NewCost
    <2> QED
      BY <2>1, <2>2, AbsentIsNoBlob DEF NetCharge
  <1>7. cost'[s] = record /\ \A t \in SimIds : t # s => cost'[t] = cost[t]
    BY <1>1, <1>2 DEF SimulationTypeOK
  <1>8. \A d \in Clients : \A p : Owes(d, p)' = 0
    <2>1. ~Paid(r)'
      BY <1>1 DEF Paid, Recording, Debiting
    <2>2. \A w \in Workers : ~Adjusted(w)'
      BY <1>5 DEF Adjusted, Busy
    <2> QED
      BY <1>5, <2>1, <2>2 DEF Owes, RequestOwes, JobOwes
  <1>9. ASSUME NEW p
        PROVE  /\ Owed(p) = ChargeIn(s, p)' /\ Owed(p)' = 0
               /\ ChargesIn(p) \in Nat /\ ChargesIn(p)' \in Nat
               /\ ChargeIn(s, p) \in Nat /\ Owed(p) \in Nat
               /\ ChargesIn(p)' + ChargeIn(s, p) = ChargesIn(p) + Owed(p)
    <2>1. Owed(p)' = 0
      BY <1>2, <1>8, OwedNext
    <2>2. Owed(p) = Owes(r, p)
      BY <1>2, <1>5, OwedBy DEF Idle
    <2>3. Owes(r, p) = RequestOwes(r, p)
      BY OwesType
    <2>4. Owes(r, p) = IF record.period = p THEN req[r].estimate ELSE 0
      BY <1>1, <1>6, <2>3 DEF RequestOwes
    <2>5. ChargeIn(s, p)' = IF record.period = p THEN req[r].estimate ELSE 0
      BY <1>6, <1>7 DEF ChargeIn, NetChargeOf
    <2> QED
      BY <1>1, <1>2, <1>3, <1>7, <2>1, <2>2, <2>4, <2>5, ChargesMove
  <1>10. \A w \in Workers : CallFits(w)' /\ RecordFits(w)'
    BY <1>1, <1>2, <1>5, CallerFacts DEF CallFits, RecordFits, Busy
  <1>11. \A d \in Clients : CallFits(d)' /\ ~Saving(d)'
    BY <1>1 DEF CallFits, Saving
  <1>12. \A q \in Requests : PeriodFits(q)'
    BY <1>1, <1>5 DEF PeriodFits, Billing, Debiting, Recording, Paid
  <1>13. NoLaterThan(account.usage_period)' /\ Opening'
    <2>1. NoLaterThan(account.usage_period) /\ Opening
      BY <1>2, <1>3, LedgerFacts, DocumentFacts DEF LedgerInv, InOrder
    <2>2. record.period >= 1
      BY <1>2, <1>3, <1>6
    <2> QED
      BY <1>1, <1>2, <1>3, <1>6, <1>7, <2>1, <2>2, LedgerFacts DEF NoLaterThan, Opening
  <1>14. Books'
    <2> SUFFICES ASSUME NEW doc \in Account, OnFile(doc)'
                 PROVE  InOrder(doc)'
      BY DEF Books
    <2>1. doc = account /\ InOrder(doc)
      BY <1>1, <1>3, <1>11, LedgerFacts, DocumentFacts DEF OnFile
    <2> DEFINE p == doc.usage_period
    <2>2. NoLaterThan(p)' /\ p \in 1 .. month /\ doc.tokens_used \in Nat
      BY <1>1, <1>13, <2>1, DocumentFacts DEF InOrder
    <2>3. Slack(doc)' = Slack(doc) + ChargeIn(s, p) /\ Slack(doc) \in Int /\ Slack(doc) >= 0
      BY <1>9, <2>1, <2>2 DEF Slack, InOrder
    <2>4. ASSUME month = 1
          PROVE  ChargeIn(s, p) = NetChargeOf(s)
      <3>1. CASE cost[s] = Absent
        BY <3>1 DEF ChargeIn, NetChargeOf
      <3>2. CASE cost[s] # Absent
        <4>1. cost[s].period \in Nat /\ cost[s].period >= 1 /\ cost[s].period <= p
          BY <1>1, <1>2, <2>1, <3>2
          DEF InOrder, NoLaterThan, LedgerInv, Opening, SimulationTypeOK, CostRecord
        <4>2. cost[s].period = p
          BY <2>2, <2>4, <4>1
        <4> QED
          BY <3>2, <4>2 DEF ChargeIn
      <3> QED
        BY <3>1, <3>2
    <2>5. Slack(doc)' >= 0
      BY <1>9, <2>3
    <2>6. month = 1 /\ aborts = 0 => Slack(doc)' = retired'
      BY <1>1, <2>1, <2>3, <2>4 DEF InOrder
    <2> QED
      BY <1>1, <2>2, <2>5, <2>6 DEF InOrder
  <1>15. FailuresSettle'
    <2>1. \A w \in Workers : ~Announcing(job[w])'
      BY <1>5 DEF Announcing, Busy
    <2>2. ASSUME month = 1, aborts = 0, NEW t \in SimIds, t # s,
                 trail[t] # Absent, StatusOf(t) = "failed"
          PROVE  Settled(t)'
      <3>1. Settled(t)
        BY <1>3, <1>5, <2>2 DEF LedgerInv, FailuresSettle, Billing
      <3> QED
        BY <1>7, <2>2, <3>1 DEF Settled, NetChargeOf
    <2>3. s \in Active => StatusOf(s) # "failed"
      BY DEF Active, ACTIVE_STATUSES
    <2>4. \A t \in SimIds : StatusOf(t)' = StatusOf(t)
      BY <1>1 DEF StatusOf
    <2>5. req'[r].at \in {"append_read", "append_write"} \/ StatusOf(s) # "failed"
      BY <1>1, <2>3
    <2> QED
      BY <1>1, <2>1, <2>2, <2>4, <2>5 DEF FailuresSettle
  <1> QED
    BY <1>1, <1>11, <1>10, <1>12, <1>13, <1>14, <1>15 DEF LedgerInv

(***************************************************************************)
(* A request that is cut off takes what it was debited along.              *)
(***************************************************************************)
LEMMA LedgerAbort ==
    ASSUME OneAtATime, IsFiniteSet(SimIds), LedgerInv, SerialInv', NEW r \in Requests,
           job' = job, Abort(r)
    PROVE  LedgerInv'
  <1>1. /\ SimInv /\ r \in Clients /\ req \in [Requests -> ReqType]
        /\ \A w \in Workers : w \in Clients /\ w \notin Requests
        /\ aborts \in Nat /\ month \in Nat /\ retired \in Nat
    BY LedgerFacts, CallerFacts, RequestFacts
  <1>2. /\ UNCHANGED <<account, month, trail, cost, retired>> /\ Finish(r)
        /\ aborts' = aborts + 1
    BY DEF Abort, simVars
  <1>3. /\ call'[r].at = "idle" /\ ~Saving(r)' /\ CallFits(r)'
        /\ \A d \in Clients : d # r => call'[d] = call[d]
    BY <1>1, <1>2, ForgetIs DEF Finish
  <1>4. req'[r].at = "idle" /\ \A q \in Requests : q = r
    BY <1>1, <1>2 DEF Finish, NoRequest, OneAtATime
  <1>5. ~Paid(r)' /\ PeriodFits(r)'
    BY <1>4 DEF Paid, PeriodFits, Recording, Debiting, Billing
  <1>6. ASSUME NEW d \in Clients, d # r
        PROVE  CallFits(d)' /\ \A p : Owes(d, p)' = Owes(d, p)
    <2>1. d \notin Requests /\ CallFits(d) /\ call'[d] = call[d]
      BY <1>3, <1>4, <1>6, LedgerFacts
    <2>2. CallFits(d)'
      BY <1>2, <2>1 DEF CallFits, Calling, NoLaterThan
    <2> QED
      BY <1>2, <2>1, <2>2 DEF Owes, JobOwes, Adjusted
  <1>7. ASSUME NEW p
        PROVE  Owed(p)' = Owed(p) \/ (Owed(p)' = 0 /\ Owed(p) \in Nat)
    <2>1. Owes(r, p)' = 0 /\ Owes(r, p) = RequestOwes(r, p) /\ Owes(r, p) \in Nat
      BY <1>5, OwesType DEF Owes, RequestOwes
    <2>2. CASE Paid(r)
      <3>1. req[r].at \in Debiting \cup Recording \cup Resubmitting
        BY <2>2 DEF Paid
      <3>2. \A d \in Clients : d # r => Owes(d, p) = 0
        BY <3>1, RequestAlone DEF Idle
      <3>3. \A d \in Clients : d # r => Owes(d, p)' = 0
        BY <1>6, <3>2
      <3> QED
        BY <1>1, <2>1, <3>2, <3>3, OwedBy, OwedNext
    <2>3. CASE ~Paid(r)
      <3>1. Owes(r, p)' = Owes(r, p)
        BY <2>1, <2>3 DEF RequestOwes
      <3> QED
        BY <1>6, <3>1, OwedSame
    <2> QED
      BY <2>2, <2>3
  <1>8. Books'
    <2> SUFFICES ASSUME NEW doc \in Account, OnFile(doc)'
                 PROVE  InOrder(doc)'
      BY DEF Books
    <2> DEFINE p == doc.usage_period
    <2>1. OnFile(doc)
      BY <1>2, <1>3 DEF OnFile, Saving
    <2>2. InOrder(doc)
      BY <2>1 DEF LedgerInv, Books
    <2>3. ChargesIn(p)' = ChargesIn(p)
      BY <1>2, ChargesSame
    <2>4. ChargesIn(p) \in Nat /\ doc.tokens_used \in Nat
      BY LedgerFacts, DocumentFacts, ChargesType
    <2>5. Slack(doc)' >= 0
      BY <1>7, <2>2, <2>3, <2>4 DEF InOrder, Slack
    <2>6. NoLaterThan(p)' /\ aborts' # 0
      BY <1>1, <1>2, <2>2 DEF InOrder, NoLaterThan
    <2> QED
      BY <1>2, <2>2, <2>5, <2>6 DEF InOrder
  <1>9. \A w \in Workers : RecordFits(w)'
    BY <1>2, LedgerFacts DEF RecordFits, NoLaterThan
  <1>10. Opening' /\ aborts' \in Nat /\ aborts' # 0
    BY <1>1, <1>2 DEF LedgerInv, Opening
  <1>11. FailuresSettle'
    <2>1. \A s : Settled(s)' <=> Settled(s)
      BY <1>2 DEF Settled, NetChargeOf
    <2> QED
      BY <1>2, <1>10, <2>1 DEF LedgerInv, FailuresSettle, Announcing
  <1> QED
    BY <1>3, <1>4, <1>5, <1>6, <1>8, <1>9, <1>10, <1>11 DEF LedgerInv
LEMMA LedgerApi ==
    ASSUME OneAtATime, IsFiniteSet(SimIds), LedgerInv, SerialInv', NEW r \in Requests,
           ApiStep(r)
    PROVE  LedgerInv'
  <1>1. job' = job
    BY DEF ApiStep, workerVars
  <1>2. req[r].at \in SerialStages
    BY LedgerFacts, SerialRequestFacts DEF RequestFits
  <1>3. ~RerunNext(r) /\ ~DeleteList(r) /\ ~WipeAccount(r) /\ ~DeleteNext(r)
    BY <1>2 DEF SerialStages, RerunNext, DeleteList, WipeAccount, DeleteNext, At
  <1>4. /\ ~RerunStart(r) /\ ~ClearStart(r) /\ ~WipeStart(r)
        /\ \A s \in SimIds : ~DeleteStart(r, s)
    BY DEF OneAtATime, RerunStart, ClearStart, WipeStart, DeleteStart, Accept
  <1>5. CASE RequestStart(r)
    BY <1>1, <1>4, <1>5, LedgerAsks, LedgerQuietly DEF RequestStart
  <1>6. CASE RequestStep(r)
    BY <1>1, <1>3, <1>6, LedgerAsks, LedgerEnds, LedgerQuietly, LedgerSaveConfig,
       LedgerSaveCost
    DEF RequestStep
  <1> QED
    BY <1>1, <1>5, <1>6, LedgerAbort DEF ApiStep
-----------------------------------------------------------------------------
(***************************************************************************)
(* Workers that run a simulation.                                          *)
(***************************************************************************)
Accounting(j) == j.at \in {"overage", "partial", "cost_save", "refund", "refund_save"}

\* a step of a worker that makes no call
LEMMA WorkerQuiet ==
    ASSUME LedgerInv, SerialInv', NEW w \in Workers,
           UNCHANGED <<storeVars, cost, retired, aborts, req>>,
           \A v \in Workers : v # w => job'[v] = job[v],
           ~Accounting(job[w]), ~Accounting(job'[w]),
           FailuresSettle'
    PROVE  LedgerInv'
  <1>1. w \in Clients /\ w \notin Requests /\ CallFits(w)
    BY LedgerFacts, CallerFacts
  <1>2. call[w].at = "idle" /\ UNCHANGED <<account, month, call>>
    BY <1>1 DEF CallFits, Calling, Accounting, storeVars
  <1>3. ~Saving(w)' /\ CallFits(w)' /\ RecordFits(w)'
    BY <1>2 DEF Saving, CallFits, RecordFits, Accounting
  <1>4. ~Adjusted(w) /\ ~Adjusted(w)'
    BY DEF Adjusted, Accounting
  <1>5. \A p : Owes(w, p)' = Owes(w, p)
    BY <1>1, <1>4 DEF Owes, JobOwes
  <1> QED
    BY <1>2, <1>3, <1>5, LedgerWorker

LEMMA LedgerRun ==
    ASSUME LedgerInv, SerialInv', NEW w \in Workers, UNCHANGED <<req, aborts>>,
           \/ \E s \in SimIds : Deliver(w, s)
           \/ ReadConfig(w) \/ ReadStatus(w) \/ Simulate(w) \/ SaveResults(w) \/ Ack(w)
    PROVE  LedgerInv'
  <1>1. /\ SimInv /\ job \in [Workers -> JobType] /\ job[w] \in JobType
        /\ UNCHANGED <<storeVars, month, cost, retired, trail>>
    BY LedgerFacts, WorkerFacts
    DEF Deliver, ReadConfig, ReadStatus, Simulate, SaveResults, Ack, simVars, storeVars, blobs
  <1>2. /\ ~Accounting(job[w]) /\ ~Accounting(job'[w])
        /\ \A v \in Workers : v # w => job'[v] = job[v]
        /\ Announcing(job'[w]) /\ job'[w].next = "failed" =>
              Announcing(job[w]) /\ job[w].next = "failed" /\ job[w].sid = job'[w].sid
    <2>1. ASSUME NEW s \in SimIds, Deliver(w, s)
          PROVE  /\ job[w].at = "idle" /\ job'[w].at = "config"
                 /\ \A v \in Workers : v # w => job'[v] = job[v]
      <3>1. job[w].at = "idle"
        BY <2>1 DEF Deliver, NoJob
      <3> QED
        BY <1>1, <2>1, <3>1 DEF Deliver, JobType
    <2>2. ASSUME ReadConfig(w)
          PROVE  /\ job[w].at = "config"
                 /\ job'[w].at = "fail_cost" \/ job'[w].next = "running"
                 /\ job'[w].at \in {"fail_cost", "status_read"}
                 /\ \A v \in Workers : v # w => job'[v] = job[v]
      BY <1>1, <2>2, TurnIs, AnnounceIs DEF ReadConfig, On
    <2>3. ASSUME ReadStatus(w)
          PROVE  /\ job[w].at = "status_read" /\ job'[w].at = "status_write"
                 /\ job'[w].next = job[w].next /\ job'[w].sid = job[w].sid
                 /\ \A v \in Workers : v # w => job'[v] = job[v]
      BY <1>1, <2>3 DEF ReadStatus, On, JobType
    <2>4. ASSUME Simulate(w)
          PROVE  /\ job[w].at = "simulate" /\ job'[w].at \in {"results", "fail_cost"}
                 /\ \A v \in Workers : v # w => job'[v] = job[v]
      BY <1>1, <2>4, TurnIs DEF Simulate, On, JobType
    <2>5. ASSUME SaveResults(w)
          PROVE  /\ job[w].at = "results" /\ job'[w].at = "reconcile"
                 /\ \A v \in Workers : v # w => job'[v] = job[v]
      BY <1>1, <2>5, TurnIs DEF SaveResults, On
    <2>6. ASSUME Ack(w)
          PROVE  /\ job[w].at = "ack" /\ job'[w].at = "idle"
                 /\ \A v \in Workers : v # w => job'[v] = job[v]
      BY <1>1, <2>6 DEF Ack, On, NoJob
    <2> QED
      BY <2>1, <2>2, <2>3, <2>4, <2>5, <2>6 DEF Accounting, Announcing
  <1>3. month = 1 /\ Announcing(job[w]) /\ job[w].next = "failed" => Settled(job[w].sid)
    BY DEF LedgerInv, FailuresSettle
  <1>4. month = 1 /\ Announcing(job'[w]) /\ job'[w].next = "failed" => Settled(job'[w].sid)
    BY <1>2, <1>3
  <1>5. FailuresSettle'
    BY <1>1, <1>2, <1>4, FailuresWorker
  <1> QED
    BY <1>1, <1>2, <1>5, WorkerQuiet

\* a run is announced to have failed when its charge is settled
LEMMA LedgerWriteStatus ==
    ASSUME LedgerInv, SerialInv', NEW w \in Workers, UNCHANGED <<req, aborts>>,
           WriteStatus(w), NEW s, s = job[w].sid
    PROVE  LedgerInv'
  <1>1. /\ SimInv /\ SimulationTypeOK /\ SerialInv
        /\ job \in [Workers -> JobType] /\ job[w] \in JobType
        /\ job[w].at = "status_write" /\ s \in SimIds
    BY LedgerFacts, WorkerFacts DEF WriteStatus, On
  <1>2. /\ UNCHANGED <<storeVars, month, cost, retired>>
        /\ trail' = [trail EXCEPT ![s] = Append(job[w].events, job[w].next)]
        /\ job'[w].at \in {"simulate", "ack"}
        /\ \A v \in Workers : v # w => job'[v] = job[v]
    BY <1>1 DEF WriteStatus, storeVars, JobType
  <1>3. /\ StatusOf(s)' = job[w].next
        /\ \A t \in SimIds : t # s => trail'[t] = trail[t]
    <2>1. job[w].events \in Seq(Status) /\ job[w].next \in Status
      BY <1>1 DEF JobType
    <2>2. Last(Append(job[w].events, job[w].next)) = job[w].next
      BY <2>1, AppendType
    <2> QED
      BY <1>1, <1>2, <2>2 DEF StatusOf, SimulationTypeOK
  <1>4. /\ \A v \in Workers : v # w => ~Busy(v)
        /\ \A r \in Requests : req[r].at \notin {"append_read", "append_write"}
    BY <1>1, WorkerAlone DEF Busy, Resubmitting
  <1>5. FailuresSettle'
    <2>1. \A v \in Workers : ~Announcing(job'[v])
      BY <1>2, <1>4 DEF Announcing, Busy
    <2>2. ASSUME month = 1, aborts = 0, NEW t \in SimIds, trail'[t] # Absent,
                 StatusOf(t)' = "failed"
          PROVE  Settled(t)
      <3>1. CASE t = s
        BY <1>1, <1>3, <2>2, <3>1 DEF LedgerInv, FailuresSettle, Announcing
      <3>2. CASE t # s
        <4>1. trail[t] # Absent /\ StatusOf(t) = "failed"
          BY <1>3, <2>2, <3>2 DEF StatusOf
        <4> QED
          BY <1>4, <2>2, <4>1 DEF LedgerInv, FailuresSettle
      <3> QED
        BY <3>1, <3>2
    <2>3. \A t : Settled(t)' <=> Settled(t)
      BY <1>2 DEF Settled, NetChargeOf
    <2> QED
      BY <1>2, <2>1, <2>2, <2>3 DEF FailuresSettle, Announcing
  <1>6. ~Accounting(job[w]) /\ ~Accounting(job'[w])
    BY <1>1, <1>2 DEF Accounting
  <1> QED
    BY <1>2, <1>5, <1>6, WorkerQuiet
-----------------------------------------------------------------------------
(***************************************************************************)
(* Workers that bill and refund, but for the steps that store the record.  *)
(***************************************************************************)
\* what LedgerWorker asks of a worker's step
LEMMA LedgerBills ==
    ASSUME LedgerInv, SerialInv', NEW w \in Workers,
           UNCHANGED <<account, month, simVars, aborts, req>>,
           \A v \in Workers : v # w => job'[v] = job[v],
           \A d \in Clients : d # w => call'[d] = call[d],
           ~Saving(w)', CallFits(w)', RecordFits(w)',
           \A p : JobOwes(w, p)' = JobOwes(w, p),
           month = 1 /\ Announcing(job'[w]) /\ job'[w].next = "failed" =>
              Settled(job'[w].sid)
    PROVE  LedgerInv'
  <1>1. \A p : Owes(w, p)' = Owes(w, p)
    BY CallerFacts DEF Owes
  <1>2. UNCHANGED <<cost, trail, retired>>
    BY DEF simVars
  <1>3. FailuresSettle'
    BY <1>2, FailuresWorker
  <1> QED
    BY <1>1, <1>2, <1>3, LedgerWorker

LEMMA LedgerAnnounce ==
    ASSUME LedgerInv, SerialInv', NEW w \in Workers,
           UNCHANGED <<account, month, simVars, aborts, req>>,
           Forget(w) \/ (call' = call /\ call[w].at = "idle"),
           ~Adjusted(w), NEW status, Announce(w, status),
           month = 1 /\ status = "failed" => Settled(job[w].sid)
    PROVE  LedgerInv'
  <1>1. SimInv /\ w \in Clients
    BY LedgerFacts, CallerFacts
  <1>2. /\ \A v \in Workers : v # w => job'[v] = job[v]
        /\ job'[w].at = "status_read" /\ job'[w].sid = job[w].sid
        /\ job'[w].next = status
    BY <1>1, AnnounceIs
  <1>3. /\ call'[w].at = "idle" /\ ~Saving(w)' /\ CallFits(w)'
        /\ \A d \in Clients : d # w => call'[d] = call[d]
    BY <1>1, ForgetIs DEF Saving, CallFits
  <1>4. RecordFits(w)' /\ ~Adjusted(w)'
    BY <1>2 DEF RecordFits, Adjusted
  <1>5. \A p : JobOwes(w, p)' = JobOwes(w, p)
    BY <1>4 DEF JobOwes
  <1> QED
    BY <1>2, <1>3, <1>4, <1>5, LedgerBills

LEMMA LedgerReconcile ==
    ASSUME LedgerInv, SerialInv', NEW w \in Workers, UNCHANGED <<req, aborts>>,
           Reconcile(w), NEW s, s = job[w].sid, NEW record, record = cost[s],
           NEW delta, delta = job[w].actual - record.estimated_tokens
    PROVE  LedgerInv'
  <1>1. /\ SimInv /\ SimulationTypeOK /\ w \in Clients /\ w \notin Requests
        /\ job \in [Workers -> JobType] /\ job[w] \in JobType
        /\ job[w].at = "reconcile" /\ s \in SimIds /\ CallFits(w)
    BY LedgerFacts, WorkerFacts, CallerFacts DEF Reconcile, On
  <1>2. UNCHANGED <<account, month, simVars, aborts, req>> /\ cost' = cost
    BY DEF Reconcile, simVars
  <1>3. ~Adjusted(w) /\ call[w].at = "idle"
    BY <1>1 DEF Adjusted, CallFits, Calling
  <1>4. CASE Announce(w, "done") /\ UNCHANGED call
    BY <1>2, <1>3, <1>4, LedgerAnnounce
  <1>5. ASSUME NEW stage \in {"overage", "cost_save"}, record # Absent,
               job' = [job EXCEPT ![w].at = stage, ![w].record = record],
               IF stage = "overage" THEN Invoke(w, Debit(delta)) ELSE UNCHANGED call
        PROVE  LedgerInv'
    <2>1. record \in CostRecord
      BY <1>1, <1>5 DEF SimulationTypeOK
    <2>2. /\ \A v \in Workers : v # w => job'[v] = job[v]
          /\ job'[w].at = stage /\ job'[w].sid = s /\ job'[w].record = record
          /\ job'[w].actual = job[w].actual
      BY <1>1, <1>5 DEF JobType
    <2>3. /\ ~Saving(w)' /\ CallFits(w)' /\ call'[w].at # "returned"
          /\ \A d \in Clients : d # w => call'[d] = call[d]
      <3>1. CASE stage = "overage"
        <4>1. Invoke(w, Debit(delta)) /\ Debit(delta).name # "delete_prefix"
          BY <1>5, <3>1 DEF Debit
        <4>2. /\ call'[w].at = "read" /\ call'[w].op = Debit(delta) /\ ~Saving(w)'
              /\ Calling(w)' => CallFits(w)'
              /\ \A d \in Clients : d # w => call'[d] = call[d]
          BY <1>1, <4>1, InvokeIs
        <4>3. Calling(w)'
          BY <2>2, <3>1, <4>2 DEF Calling
        <4> QED
          BY <4>2, <4>3
      <3>2. CASE stage # "overage"
        BY <1>3, <1>5, <3>2 DEF Saving, CallFits
      <3> QED
        BY <3>1, <3>2
    <2>4. RecordFits(w)'
      <3>1. record.tokens_charged \in Nat
        BY <2>1 DEF CostRecord
      <3>2. record = [record EXCEPT !.tokens_charged = record.tokens_charged]
        BY <2>1 DEF CostRecord
      <3>3. cost'[job'[w].sid] = record /\ record.tokens_charged >= record.tokens_charged
        BY <1>2, <2>2, <3>1
      <3>4. CASE stage = "overage"
        BY <2>2, <3>3, <3>4 DEF RecordFits
      <3>5. CASE stage = "cost_save"
        BY <1>5, <2>2, <3>2, <3>3, <3>5 DEF RecordFits
      <3> QED
        BY <3>4, <3>5
    <2>5. ASSUME NEW p
          PROVE  JobOwes(w, p)' = JobOwes(w, p)
      <3>1. JobOwes(w, p) = 0
        BY <1>3 DEF JobOwes
      <3>2. record.tokens_charged - record.tokens_charged = 0
        BY <2>1 DEF CostRecord
      <3>3. JobOwes(w, p)' = 0
        BY <1>2, <1>5, <2>2, <2>3, <3>2 DEF JobOwes, Adjusted
      <3> QED
        BY <3>1, <3>3
    <2> QED
      BY <1>2, <2>2, <2>3, <2>4, <2>5, LedgerBills DEF Announcing
  <1> QED
    BY <1>4, <1>5 DEF Reconcile
\* what a debit took is added to the record the worker remembers
LEMMA LedgerCharged ==
    ASSUME LedgerInv, SerialInv', NEW w \in Workers,
           UNCHANGED <<account, month, simVars, aborts, req>>,
           job[w].at \in {"overage", "partial"}, call[w].at = "returned",
           Forget(w), NEW tokens \in Nat, tokens = call[w].op.tokens, Charged(w, tokens)
    PROVE  LedgerInv'
  <1> DEFINE s == job[w].sid
             record == job[w].record
             more == [record EXCEPT !.tokens_charged = @ + tokens]
  <1>1. /\ SimInv /\ w \in Clients /\ cost' = cost
        /\ job \in [Workers -> JobType] /\ job[w] \in JobType
    BY LedgerFacts, WorkerFacts, CallerFacts DEF simVars
  <1>2. /\ s \in SimIds /\ cost[s] \in CostRecord /\ cost[s] # Absent
        /\ record = cost[s]
        /\ cost[s].tokens_charged \in Nat
    BY RecordFacts, LedgerFacts DEF RecordFits
  <1>3. /\ \A v \in Workers : v # w => job'[v] = job[v]
        /\ job'[w].at = "cost_save" /\ job'[w].sid = s /\ job'[w].record = more
    BY <1>1 DEF Charged, JobType
  <1>4. /\ more = [cost[s] EXCEPT !.tokens_charged = more.tokens_charged]
        /\ more.tokens_charged = cost[s].tokens_charged + tokens
        /\ more.period = record.period
    BY <1>2 DEF CostRecord
  <1>5. /\ ~Saving(w)' /\ CallFits(w)'
        /\ \A d \in Clients : d # w => call'[d] = call[d]
    BY <1>1, ForgetIs
  <1> HIDE DEF more
  <1>6. RecordFits(w)'
    <2>1. /\ job'[w].at = "cost_save" /\ cost'[job'[w].sid] = cost[s]
          /\ job'[w].record = more /\ more.tokens_charged >= cost[s].tokens_charged
      BY <1>1, <1>2, <1>3, <1>4
    <2> QED
      BY <1>2, <1>4, <2>1 DEF RecordFits
  <1>7. ASSUME NEW p
        PROVE  JobOwes(w, p)' = JobOwes(w, p)
    <2>1. JobOwes(w, p) = IF record.period = p THEN tokens ELSE 0
      BY DEF JobOwes, Adjusted
    <2>2. more.tokens_charged - cost[s].tokens_charged = tokens
      BY <1>2, <1>4
    <2>3. JobOwes(w, p)' = IF record.period = p THEN tokens ELSE 0
      BY <1>1, <1>3, <1>4, <2>2 DEF JobOwes, Adjusted
    <2> QED
      BY <2>1, <2>3
  <1> QED
    BY <1>3, <1>5, <1>6, <1>7, LedgerBills DEF Announcing

\* the debit did not fit, so nothing was taken yet
LEMMA LedgerRejected ==
    ASSUME LedgerInv, SerialInv', NEW w \in Workers,
           UNCHANGED <<account, month, simVars, aborts, req>>,
           job[w].at = "overage", call[w].at = "rejected",
           NEW tokens, tokens = Remaining(w),
           \/ Turn(w, "partial") /\ Invoke(w, Debit(tokens))
           \/ Turn(w, "cost_save") /\ Forget(w)
    PROVE  LedgerInv'
  <1> DEFINE s == job[w].sid
             record == job[w].record
  <1>1. /\ SimInv /\ w \in Clients /\ w \notin Requests /\ cost' = cost
        /\ job \in [Workers -> JobType] /\ job[w] \in JobType
    BY LedgerFacts, WorkerFacts, CallerFacts DEF simVars
  <1>2. /\ s \in SimIds /\ cost[s] \in CostRecord /\ cost[s] # Absent
        /\ record = cost[s]
        /\ cost[s].tokens_charged \in Nat
    BY RecordFacts, LedgerFacts DEF RecordFits
  <1>3. /\ \A v \in Workers : v # w => job'[v] = job[v]
        /\ job'[w].at \in {"partial", "cost_save"}
        /\ job'[w].sid = s /\ job'[w].record = record
    BY <1>1 DEF Turn, JobType
  <1>4. Debit(tokens).name = "debit"
    BY DEF Debit
  <1>5. /\ ~Saving(w)' /\ CallFits(w)' /\ call'[w].at # "returned"
        /\ \A d \in Clients : d # w => call'[d] = call[d]
    <2>1. CASE Turn(w, "partial") /\ Invoke(w, Debit(tokens))
      <3>1. /\ call'[w].at = "read" /\ call'[w].op = Debit(tokens) /\ ~Saving(w)'
            /\ Calling(w)' => CallFits(w)'
            /\ \A d \in Clients : d # w => call'[d] = call[d]
        BY <1>1, <1>4, <2>1, InvokeIs
      <3>2. job'[w].at = "partial"
        BY <1>1, <2>1, TurnIs
      <3>3. Calling(w)'
        BY <1>4, <3>1, <3>2 DEF Calling
      <3> QED
        BY <3>1, <3>3
    <2>2. CASE Turn(w, "cost_save") /\ Forget(w)
      BY <1>1, <2>2, ForgetIs
    <2> QED
      BY <2>1, <2>2
  <1>6. RecordFits(w)'
    <2>1. record = [cost[s] EXCEPT !.tokens_charged = record.tokens_charged]
      BY <1>2 DEF CostRecord
    <2>2. cost'[job'[w].sid] = cost[s] /\ record.tokens_charged >= cost[s].tokens_charged
      BY <1>1, <1>2, <1>3
    <2>3. CASE job'[w].at = "partial"
      BY <1>2, <1>3, <2>2, <2>3 DEF RecordFits
    <2>4. CASE job'[w].at = "cost_save"
      BY <1>2, <1>3, <2>1, <2>2, <2>4 DEF RecordFits
    <2> QED
      BY <1>3, <2>3, <2>4
  <1>7. ASSUME NEW p
        PROVE  JobOwes(w, p)' = JobOwes(w, p)
    <2>1. JobOwes(w, p) = 0
      BY DEF JobOwes, Adjusted
    <2>2. record.tokens_charged - cost[s].tokens_charged = 0
      BY <1>2
    <2>3. JobOwes(w, p)' = 0
      BY <1>1, <1>3, <1>5, <2>2 DEF JobOwes, Adjusted
    <2> QED
      BY <2>1, <2>3
  <1> QED
    BY <1>3, <1>5, <1>6, <1>7, LedgerBills DEF Announcing

LEMMA LedgerBilling ==
    ASSUME LedgerInv, SerialInv', NEW w \in Workers, UNCHANGED <<req, aborts>>,
           Overage(w) \/ Partial(w)
    PROVE  LedgerInv'
  <1>1. /\ SimInv /\ CallFits(w) /\ w \notin Requests
    BY LedgerFacts, WorkerFacts, CallerFacts
  <1>2. /\ UNCHANGED <<account, month, simVars, aborts, req>>
        /\ job[w].at \in {"overage", "partial"} /\ call[w].at # "raised"
    BY <1>1 DEF Overage, Partial, On, CallFits
  <1>3. call[w].at # "idle" => call[w].op.name = "debit"
    BY <1>1, <1>2 DEF CallFits, Calling, Debit
  <1>4. CASE Overage(w)
    <2> DEFINE delta == job[w].actual - job[w].record.estimated_tokens
    <2>1. CASE call[w].at = "returned" /\ Charged(w, delta) /\ Forget(w)
      <3>1. call[w].op = Debit(delta)
        BY <1>1, <1>4, <2>1 DEF Overage, On, CallFits, Calling
      <3>2. delta = call[w].op.tokens
        BY <3>1 DEF Debit
      <3>3. delta \in Nat
        BY <1>1, <1>3, <2>1, <3>2, DebitFacts
      <3> QED
        BY <1>2, <2>1, <3>2, <3>3, LedgerCharged
    <2>2. CASE call[w].at = "rejected"
      BY <1>2, <1>4, <2>2, LedgerRejected DEF Overage, On
    <2> QED
      BY <1>2, <1>4, <2>1, <2>2 DEF Overage
  <1>5. CASE Partial(w)
    <2>1. CASE call[w].at = "returned"
      <3>1. call[w].op.tokens \in Nat
        BY <1>1, <1>3, <2>1, DebitFacts
      <3> QED
        BY <1>2, <1>5, <2>1, <3>1, LedgerCharged DEF Partial
    <2>2. CASE call[w].at = "rejected"
      <3>1. Announce(w, "done") /\ Forget(w) /\ ~Adjusted(w)
        BY <1>5, <2>2 DEF Partial, On, Adjusted
      <3> QED
        BY <1>2, <3>1, LedgerAnnounce
    <2> QED
      BY <1>2, <1>5, <2>1, <2>2 DEF Partial
  <1> QED
    BY <1>4, <1>5

(***************************************************************************)
(* fail(): no refund is due only when nothing is left to refund.           *)
(***************************************************************************)
LEMMA LedgerFailCost ==
    ASSUME LedgerInv, SerialInv', NEW w \in Workers, UNCHANGED <<req, aborts>>,
           FailCost(w), NEW s, s = job[w].sid, NEW record, record = cost[s]
    PROVE  LedgerInv'
  <1>1. /\ SimInv /\ SimulationTypeOK /\ w \in Clients /\ w \notin Requests
        /\ job \in [Workers -> JobType] /\ job[w] \in JobType
        /\ job[w].at = "fail_cost" /\ s \in SimIds /\ CallFits(w)
        /\ month \in Nat
    BY LedgerFacts, WorkerFacts, CallerFacts DEF FailCost, On
  <1>2. UNCHANGED <<account, month, simVars, aborts, req>> /\ cost' = cost
    BY DEF FailCost, simVars
  <1>3. ~Adjusted(w) /\ call[w].at = "idle"
    BY <1>1 DEF Adjusted, CallFits, Calling
  <1>4. record # Absent =>
           /\ record \in CostRecord
           /\ record.period \in Nat /\ record.period >= 1 /\ record.period <= month
           /\ NoLaterThan(month)
    <2> SUFFICES ASSUME record # Absent
                 PROVE  /\ record \in CostRecord
                        /\ record.period \in Nat /\ record.period >= 1
                        /\ record.period <= month /\ NoLaterThan(month)
      OBVIOUS
    <2>1. record \in CostRecord /\ record.period \in Nat
      BY <1>1 DEF SimulationTypeOK, CostRecord
    <2>2. account \in Account /\ InOrder(account)
      BY <1>1, DocumentFacts DEF LedgerInv, Opening
    <2>3. /\ account.usage_period \in Nat /\ account.usage_period <= month
          /\ NoLaterThan(account.usage_period)
      BY <1>1, <2>2 DEF InOrder
    <2>4. NoLaterThan(month)
      BY <1>1, <2>3 DEF NoLaterThan, SimulationTypeOK, CostRecord
    <2>5. record.period >= 1 /\ record.period <= month
      BY <1>1, <2>4 DEF LedgerInv, Opening, NoLaterThan
    <2> QED
      BY <2>1, <2>4, <2>5
  <1>5. CASE RefundDue(record)
    <2>1. /\ job' = [job EXCEPT ![w].at = "refund", ![w].record = record]
          /\ Invoke(w, Credit(record.tokens_charged))
      BY <1>5 DEF FailCost
    <2>2. record # Absent /\ ~record.refunded /\ record.period = month
      BY <1>5 DEF RefundDue
    <2>3. /\ \A v \in Workers : v # w => job'[v] = job[v]
          /\ job'[w].at = "refund" /\ job'[w].sid = s /\ job'[w].record = record
      BY <1>1, <2>1 DEF JobType
    <2>4. /\ call'[w].at = "read" /\ call'[w].op = Credit(record.tokens_charged)
          /\ ~Saving(w)'
          /\ Calling(w)' => CallFits(w)'
          /\ \A d \in Clients : d # w => call'[d] = call[d]
      <3>1. Credit(record.tokens_charged).name # "delete_prefix"
        BY DEF Credit
      <3> QED
        BY <1>1, <2>1, <3>1, InvokeIs
    <2>5. Calling(w)'
      BY <2>3, <2>4 DEF Calling
    <2>6. RecordFits(w)'
      BY <1>2, <1>4, <2>2, <2>3 DEF RecordFits, NoLaterThan
    <2>7. ~Adjusted(w)'
      BY <2>3, <2>4 DEF Adjusted
    <2>8. \A p : JobOwes(w, p)' = JobOwes(w, p)
      BY <1>3, <2>7 DEF JobOwes
    <2> QED
      BY <1>2, <2>3, <2>4, <2>5, <2>6, <2>8, LedgerBills DEF Announcing
  <1>6. CASE ~RefundDue(record)
    <2>1. Announce(w, "failed") /\ UNCHANGED call
      BY <1>6 DEF FailCost
    <2>2. ASSUME month = 1, record # Absent, record.actual_tokens = Absent
          PROVE  NetChargeOf(s) = 0
      <3>1. record.period = month /\ record.tokens_charged \in Nat
        BY <1>1, <1>4, <2>2 DEF CostRecord
      <3>2. record.refunded \/ ~(record.tokens_charged > 0)
        BY <1>6, <2>2, <3>1 DEF RefundDue
      <3>3. record.refunded \/ record.tokens_charged = 0
        BY <3>1, <3>2
      <3> QED
        BY <2>2, <3>3 DEF NetChargeOf, NetCharge
    <2>3. month = 1 => Settled(s)
      BY <2>2 DEF Settled
    <2> QED
      BY <1>2, <1>3, <2>1, <2>3, LedgerAnnounce
  <1> QED
    BY <1>5, <1>6

LEMMA LedgerRefunded ==
    ASSUME LedgerInv, SerialInv', NEW w \in Workers, UNCHANGED <<req, aborts>>,
           Refunded(w)
    PROVE  LedgerInv'
  <1>1. /\ SimInv /\ w \in Clients /\ w \notin Requests /\ CallFits(w) /\ RecordFits(w)
        /\ job \in [Workers -> JobType] /\ job[w] \in JobType /\ job[w].at = "refund"
    BY LedgerFacts, WorkerFacts, CallerFacts DEF Refunded, On
  <1>2. /\ UNCHANGED <<account, month, simVars, aborts, req>> /\ cost' = cost
        /\ call[w].at = "returned" /\ Turn(w, "refund_save") /\ Forget(w)
    BY <1>1 DEF Refunded, simVars, CallFits
  <1>3. /\ \A v \in Workers : v # w => job'[v] = job[v]
        /\ job'[w].at = "refund_save" /\ job'[w].sid = job[w].sid
        /\ job'[w].record = job[w].record
    BY <1>1, <1>2 DEF Turn, JobType
  <1>4. /\ ~Saving(w)' /\ CallFits(w)'
        /\ \A d \in Clients : d # w => call'[d] = call[d]
    BY <1>1, <1>2, ForgetIs
  <1>5. RecordFits(w)'
    BY <1>1, <1>2, <1>3 DEF RecordFits, NoLaterThan
  <1>6. \A p : JobOwes(w, p)' = JobOwes(w, p)
    BY <1>1, <1>2, <1>3 DEF JobOwes, Adjusted
  <1> QED
    BY <1>2, <1>3, <1>4, <1>5, <1>6, LedgerBills DEF Announcing
-----------------------------------------------------------------------------
(***************************************************************************)
(* The record of a bill or of a refund: what the account has counted       *)
(* already is now in the record too.                                       *)
(***************************************************************************)
LEMMA SavingRecord ==
    ASSUME LedgerInv, NEW w \in Workers, SaveCost(w) \/ SaveRefund(w),
           NEW s, s = job[w].sid, NEW new, new = cost'[s]
    PROVE  /\ s \in SimIds /\ Busy(w) /\ new # Absent /\ call[w].at = "idle"
           /\ UNCHANGED <<account, month, call, trail, retired>>
           /\ \A t \in SimIds : t # s => cost'[t] = cost[t]
           /\ \A v \in Workers : v # w => job'[v] = job[v]
           /\ job'[w].at = "status_read" /\ job'[w].sid = s
           /\ cost[s] # Absent /\ new.period = cost[s].period
           /\ \A p : ChargeIn(s, p)' = ChargeIn(s, p) + Owes(w, p)
           /\ job'[w].next = "done" \/ NetChargeOf(s)' = 0
  <1> DEFINE record == job[w].record
  <1>1. /\ SimInv /\ SimulationTypeOK /\ w \in Clients /\ w \notin Requests
        /\ CallFits(w) /\ RecordFits(w)
    BY LedgerFacts, WorkerFacts, CallerFacts
  <1>2. job[w].at \in {"cost_save", "refund_save"}
    BY DEF SaveCost, SaveRefund, On
  <1>3. /\ s \in SimIds /\ cost[s] \in CostRecord /\ record \in CostRecord
        /\ cost[s] # Absent /\ record # Absent
        /\ record.period = cost[s].period
        /\ ~cost[s].refunded /\ ~record.refunded
        /\ cost[s].tokens_charged \in Nat /\ record.tokens_charged \in Nat
        /\ \A p : ChargeIn(s, p) =
             IF record.period = p THEN cost[s].tokens_charged ELSE 0
    BY <1>2, RecordFacts
  <1>4. UNCHANGED <<account, month, call, trail, retired>>
    BY DEF SaveCost, SaveRefund, storeVars
  <1>5. Busy(w) /\ call[w].at = "idle"
    BY <1>1, <1>2 DEF Busy, CallFits, Calling
  <1>6. CASE SaveCost(w)
    <2>1. job[w].at = "cost_save" /\ Announce(w, "done")
      BY <1>6 DEF SaveCost, On
    <2>2. /\ \A t \in SimIds : t # s => cost'[t] = cost[t]
          /\ new = [record EXCEPT !.actual_tokens = job[w].actual]
      BY <1>1, <1>3, <1>6 DEF SaveCost, SimulationTypeOK
    <2>3. /\ new.period = record.period /\ ~new.refunded
          /\ new.tokens_charged = record.tokens_charged
      BY <1>3, <2>2 DEF CostRecord
    <2>4. job[w].actual \in Nat
      BY <1>1, <2>1, WorkerFacts DEF Works
    <2>5. new \in CostRecord /\ new # Absent
      BY <1>3, <2>2, <2>4, AbsentIsNoBlob DEF CostRecord
    <2>6. ASSUME NEW p
          PROVE  ChargeIn(s, p)' = ChargeIn(s, p) + Owes(w, p)
      <3>1. ChargeIn(s, p)' = IF record.period = p THEN record.tokens_charged ELSE 0
        BY <2>3, <2>5 DEF ChargeIn, NetChargeOf, NetCharge
      <3>2. Owes(w, p) = IF record.period = p
                         THEN record.tokens_charged - cost[s].tokens_charged ELSE 0
        BY <1>1, <2>1 DEF Owes, JobOwes, Adjusted
      <3> QED
        BY <1>3, <3>1, <3>2
    <2> QED
      BY <1>1, <1>3, <1>4, <1>5, <2>1, <2>2, <2>3, <2>5, <2>6, AnnounceIs
  <1>7. CASE SaveRefund(w)
    <2>1. job[w].at = "refund_save" /\ Announce(w, "failed")
      BY <1>7 DEF SaveRefund, On
    <2>2. /\ \A t \in SimIds : t # s => cost'[t] = cost[t]
          /\ new = [record EXCEPT !.refunded = TRUE]
      BY <1>1, <1>3, <1>7 DEF SaveRefund, SimulationTypeOK
    <2>3. new.period = record.period /\ new.refunded
      BY <1>3, <2>2 DEF CostRecord
    <2>4. new # Absent
      BY <1>3, <2>2, AbsentIsNoBlob DEF CostRecord
    <2>5. NetChargeOf(s)' = 0
      BY <2>3, <2>4 DEF NetChargeOf, NetCharge
    <2>6. ASSUME NEW p
          PROVE  ChargeIn(s, p)' = ChargeIn(s, p) + Owes(w, p)
      <3>1. ChargeIn(s, p)' = 0
        BY <2>5 DEF ChargeIn
      <3>2. Owes(w, p) = IF record.period = p THEN -record.tokens_charged ELSE 0
        BY <1>1, <2>1 DEF Owes, JobOwes, Adjusted
      <3>3. record = cost[s]
        BY <1>1, <2>1 DEF RecordFits
      <3> QED
        BY <1>3, <3>1, <3>2, <3>3
    <2> QED
      BY <1>1, <1>3, <1>4, <1>5, <2>1, <2>2, <2>3, <2>4, <2>5, <2>6, AnnounceIs
  <1> QED
    BY <1>6, <1>7

LEMMA LedgerSaveRecord ==
    ASSUME IsFiniteSet(SimIds), LedgerInv, SerialInv', NEW w \in Workers,
           UNCHANGED <<req, aborts>>, SaveCost(w) \/ SaveRefund(w),
           NEW s, s = job[w].sid, NEW new, new = cost'[s]
    PROVE  LedgerInv'
  <1>1. /\ SimInv /\ SimulationTypeOK /\ SimulationTypeOK' /\ w \in Clients
        /\ \A r \in Requests : r \in Clients /\ r \notin Workers /\ r # w
        /\ \A c \in Clients : CallFits(c)
    BY LedgerFacts, CallerFacts DEF SerialInv, ResultsInv, FreshInv, SimInv
  <1>2. /\ s \in SimIds /\ Busy(w) /\ new # Absent /\ call[w].at = "idle"
        /\ UNCHANGED <<account, month, call, trail, retired>>
        /\ \A t \in SimIds : t # s => cost'[t] = cost[t]
        /\ \A v \in Workers : v # w => job'[v] = job[v]
        /\ job'[w].at = "status_read" /\ job'[w].sid = s
        /\ cost[s] # Absent /\ new.period = cost[s].period
        /\ \A p : ChargeIn(s, p)' = ChargeIn(s, p) + Owes(w, p)
        /\ job'[w].next = "done" \/ NetChargeOf(s)' = 0
    BY SavingRecord
  <1>3. /\ \A v \in Workers : v # w => ~Busy(v)
        /\ \A r \in Requests :
              req[r].at \notin Debiting \cup Recording \cup Resubmitting
        /\ \A d \in Clients : d # w => \A p : Owes(d, p) = 0
    BY <1>2, WorkerAlone
  <1>4. \A t \in SimIds : /\ cost'[t] = Absent <=> cost[t] = Absent
                          /\ cost[t] # Absent => cost'[t].period = cost[t].period
    BY <1>2
  <1>5. \A p : NoLaterThan(p)' <=> NoLaterThan(p)
    BY <1>4 DEF NoLaterThan
  <1>6. ~Adjusted(w)' /\ \A v \in Workers : v # w => ~Adjusted(v)'
    BY <1>2, <1>3 DEF Adjusted, Busy
  <1>7. ASSUME NEW p
        PROVE  /\ ChargesIn(p) \in Nat /\ ChargesIn(p)' \in Nat
               /\ Owed(p) \in Int /\ Owed(p)' = 0
               /\ ChargesIn(p)' = ChargesIn(p) + Owed(p)
    <2>1. \A v \in Workers : Owes(v, p)' = 0
      BY <1>1, <1>6 DEF Owes, JobOwes
    <2>2. \A r \in Requests : ~Paid(r)'
      BY <1>3 DEF Paid
    <2>3. \A d \in Clients : Owes(d, p)' = 0
      BY <2>1, <2>2 DEF Owes, RequestOwes
    <2>4. Owed(p)' = 0
      BY <1>1, <2>3, OwedNext
    <2>5. Owed(p) = Owes(w, p)
      BY <1>1, <1>3, OwedBy
    <2>6. /\ ChargesIn(p) \in Nat /\ ChargesIn(p)' \in Nat
          /\ ChargeIn(s, p) \in Nat /\ ChargeIn(s, p)' \in Nat
          /\ ChargesIn(p)' + ChargeIn(s, p) = ChargesIn(p) + ChargeIn(s, p)'
      BY <1>1, <1>2, ChargesMove
    <2>7. Owes(w, p) \in Int
      <3>1. job[w].at \in {"cost_save", "refund_save"}
        BY DEF SaveCost, SaveRefund, On
      <3>2. cost[s].tokens_charged \in Nat /\ job[w].record.tokens_charged \in Nat
        BY <3>1, RecordFacts
      <3> QED
        BY <1>1, <3>1, <3>2 DEF Owes, JobOwes
    <2> QED
      <3>1. ChargeIn(s, p)' = ChargeIn(s, p) + Owes(w, p)
        BY <1>2
      <3> QED
        BY <2>4, <2>5, <2>6, <2>7, <3>1
  <1>8. Books'
    <2> SUFFICES ASSUME NEW doc \in Account, OnFile(doc)'
                 PROVE  InOrder(doc)'
      BY DEF Books
    <2>1. InOrder(doc)
      BY <1>2 DEF LedgerInv, Books, OnFile, Saving
    <2>2. doc.tokens_used \in Nat
      BY DocumentFacts
    <2>3. Slack(doc)' = Slack(doc)
      BY <1>7, <2>2 DEF Slack
    <2> QED
      BY <1>2, <1>5, <2>1, <2>3 DEF InOrder
  <1>9. ASSUME NEW d \in Clients
        PROVE  CallFits(d)'
    <2>1. CASE d = w
      BY <1>2, <2>1 DEF CallFits
    <2>2. CASE d # w
      <3>1. CallFits(d) /\ (d \in Workers => job'[d] = job[d])
        BY <1>1, <1>2, <2>2
      <3>2. ASSUME NEW p
            PROVE  NoLaterThan(p) => NoLaterThan(p)'
        BY <1>5
      <3>3. Calling(d)' <=> Calling(d)
        BY <1>2, <3>1 DEF Calling
      <3>4. ASSUME call[d].at = "seed"
            PROVE  NoLaterThan(call[d].doc.usage_period - 1)'
        <4>1. NoLaterThan(call[d].doc.usage_period - 1)
          BY <3>1, <3>4 DEF CallFits
        <4> QED
          BY <1>2, <1>4, <4>1 DEF NoLaterThan
      <3> QED
        BY <1>2, <3>1, <3>3, <3>4 DEF CallFits
    <2> QED
      BY <2>1, <2>2
  <1>10. \A r \in Requests : PeriodFits(r)'
    BY <1>2, <1>3, LedgerFacts DEF PeriodFits, Paid, Saving
  <1>11. \A v \in Workers : RecordFits(v)'
    BY <1>2, <1>3 DEF RecordFits, Busy
  <1>12. Opening'
    BY <1>2, <1>4 DEF LedgerInv, Opening
  <1>13. FailuresSettle'
    <2>1. ASSUME NEW v \in Workers, Announcing(job[v])', job'[v].next = "failed"
          PROVE  Settled(job[v].sid)'
      <3>1. v = w
        BY <1>2, <1>3, <2>1 DEF Announcing, Busy
      <3> QED
        BY <1>2, <2>1, <3>1 DEF Settled, NetChargeOf
    <2>2. ASSUME month = 1, aborts = 0, NEW t \in SimIds, t # s,
                 trail[t] # Absent, StatusOf(t) = "failed"
          PROVE  Settled(t)'
      <3>1. Settled(t)
        BY <1>3, <2>2 DEF LedgerInv, FailuresSettle, Resubmitting
      <3> QED
        BY <1>2, <2>2, <3>1 DEF Settled, NetChargeOf
    <2>3. StatusOf(s) # "failed"
      BY <1>2, LedgerFacts DEF SerialInv, JobFits, Active, ACTIVE_STATUSES
    <2>4. \A t \in SimIds : StatusOf(t)' = StatusOf(t)
      BY <1>2 DEF StatusOf
    <2> QED
      BY <1>2, <2>1, <2>2, <2>3, <2>4 DEF FailuresSettle
  <1> QED
    BY <1>8, <1>9, <1>10, <1>11, <1>12, <1>13 DEF LedgerInv

LEMMA LedgerPush ==
    ASSUME OneAtATime, MaxFaults = 0, IsFiniteSet(SimIds), LedgerInv, SerialInv',
           NEW w \in Workers, PushStep(w), aborts' = aborts
    PROVE  LedgerInv'
  <1>1. req' = req
    BY DEF PushStep, apiVars
  <1>2. ~Crash(w) /\ ~Redeliver(w) /\ ~StorageRaises(w)
    BY LedgerFacts DEF OneAtATime, SerialInv, Counted, Crash, Redeliver, StorageRaises
  <1>3. (\E s \in SimIds : Deliver(w, s)) \/ WorkerStep(w)
    BY <1>2 DEF PushStep
  <1> QED
    BY <1>1, <1>3, LedgerRun, LedgerWriteStatus, LedgerReconcile, LedgerBilling,
       LedgerFailCost, LedgerRefunded, LedgerSaveRecord
    DEF WorkerStep
-----------------------------------------------------------------------------
(***************************************************************************)
(* The account calls.                                                      *)
(***************************************************************************)
LEMMA AdvanceIs ==
    ASSUME SimInv, NEW c \in Clients, NEW stage, NEW doc, Advance(c, stage, doc)
    PROVE  /\ call'[c].at = stage /\ call'[c].op = call[c].op /\ call'[c].doc = doc
           /\ \A d \in Clients : d # c => call'[d] = call[d]
  <1>1. call \in [Clients -> CallType]
    BY DEF SimInv, StoreInv, TypeOK
  <1> QED
    BY <1>1 DEF Advance

LEMMA InOrderStays ==
    ASSUME NEW doc, InOrder(doc), UNCHANGED <<cost, retired, aborts, month>>,
           \A c \in Clients : \A p : Owes(c, p)' = Owes(c, p)
    PROVE  InOrder(doc)'
  <1> DEFINE p == doc.usage_period
  <1>1. ChargesIn(p)' = ChargesIn(p) /\ Owed(p)' = Owed(p)
    BY ChargesSame, OwedSame
  <1>2. Slack(doc)' = Slack(doc)
    BY <1>1 DEF Slack
  <1>3. NoLaterThan(p)' <=> NoLaterThan(p)
    BY DEF NoLaterThan
  <1> QED
    BY <1>2, <1>3 DEF InOrder

\* a call under way: nothing was debited or refunded for its caller yet, and
\* nothing is until a write returns
LEMMA CallUnderWay ==
    ASSUME LedgerInv, NEW c \in Clients, call[c].at \in {"read", "seed", "write"},
           UNCHANGED <<req, job>>, call'[c].op = call[c].op
    PROVE  /\ Calling(c) /\ Calling(c)'
           /\ \A p : Owes(c, p) = 0
           /\ c \in Requests => ~Paid(c) /\ req[c].at \notin Recording
           /\ (call'[c].at # "returned" \/ call[c].op.name = "get_or_create")
                 => (c \in Requests => ~Paid(c)') /\ \A p : Owes(c, p)' = 0
  <1>1. Calling(c) /\ (c \in Requests => c \notin Workers)
    BY LedgerFacts, CallerFacts DEF CallFits
  <1>2. Calling(c)'
    BY <1>1 DEF Calling
  <1>3. c \in Requests => req[c].at \notin Recording /\ ~Paid(c)
    BY <1>1 DEF Calling, Recording, Debiting, Paid
  <1>4. c \in Workers => ~Adjusted(c)
    BY <1>1 DEF Calling, Adjusted
  <1>5. \A p : Owes(c, p) = 0
    BY <1>3, <1>4 DEF Owes, RequestOwes, JobOwes
  <1>6. ASSUME call'[c].at # "returned" \/ call[c].op.name = "get_or_create"
        PROVE  (c \in Requests => ~Paid(c)') /\ \A p : Owes(c, p)' = 0
    <2>1. c \in Requests => ~Paid(c)'
      BY <1>1, <1>3, <1>6 DEF Calling, Paid, Recording, Debiting, Debit, GetOrCreate
    <2>2. c \in Workers => ~Adjusted(c)'
      BY <1>1, <1>6 DEF Calling, Adjusted, Debit, Credit
    <2> QED
      BY <2>1, <2>2 DEF Owes, RequestOwes, JobOwes
  <1> QED
    BY <1>1, <1>2, <1>3, <1>5, <1>6

\* a month that nobody's account has reached
LEMMA FreshMonth ==
    ASSUME IsFiniteSet(SimIds), LedgerInv,
           account = Absent \/ (account # Absent /\ account.usage_period < month)
    PROVE  /\ NoLaterThan(month - 1)
           /\ ChargesIn(month) = 0 /\ Owed(month) = 0
           /\ month = 1 => account = Absent /\ retired = 0
  <1>1. /\ SimulationTypeOK /\ month \in Nat /\ month >= 1 /\ Absent \notin Account
        /\ \A doc \in Account : doc.usage_period \in Nat
    BY LedgerFacts, DocumentFacts
  <1>2. account # Absent => account \in Account /\ InOrder(account)
    BY DocumentFacts
  <1>3. ASSUME NEW r \in Requests
        PROVE  Owes(r, month) = 0
    <2>1. ~Paid(r) \/ req[r].period # month
      BY <1>1, OwesType
    <2> QED
      BY <2>1 DEF Owes, RequestOwes
  <1>4. ASSUME NEW w \in Workers
        PROVE  Owes(w, month) = 0
    <2>1. ~Adjusted(w) \/ job[w].record.period # month
      <3>1. Adjusted(w) =>
               job[w].at \in {"overage", "partial", "cost_save", "refund", "refund_save"}
        BY DEF Adjusted
      <3> QED
        BY <1>1, <3>1, RecordFacts
    <2> QED
      BY <2>1, CallerFacts DEF Owes, JobOwes
  <1>5. Owed(month) = 0
    BY <1>3, <1>4, OwedNone DEF Owes
  <1>6. CASE account = Absent
    <2>1. retired = 0 /\ \A s \in SimIds : cost[s] = Absent
      BY <1>6 DEF LedgerInv, Opening
    <2>2. NoLaterThan(month - 1)
      BY <2>1 DEF NoLaterThan
    <2>3. ChargesIn(month) = 0
      BY <2>1, ChargesNone DEF ChargeIn
    <2> QED
      BY <1>5, <1>6, <2>1, <2>2, <2>3
  <1>7. CASE account # Absent
    <2> DEFINE q == account.usage_period
    <2>1. q \in Nat /\ q >= 1 /\ q < month /\ NoLaterThan(q)
      BY <1>1, <1>2, <1>7 DEF InOrder
    <2>2. NoLaterThan(month - 1)
      BY <1>1, <2>1 DEF NoLaterThan, SimulationTypeOK, CostRecord
    <2>3. month - 1 \in Int /\ month - 1 < month
      BY <1>1
    <2>4. ChargesIn(month) = 0
      BY <1>1, <2>2, <2>3, ChargesBefore
    <2> QED
      BY <1>1, <1>5, <2>1, <2>2, <2>4
  <1> QED
    BY <1>6, <1>7

LEMMA AccountFrame ==
    ASSUME LedgerInv, UNCHANGED <<simVars, apiVars, workerVars>>, month' = month
    PROVE  /\ UNCHANGED <<cost, retired, trail, req, aborts, job>>
           /\ aborts' \in Nat
           /\ \A w \in Workers : RecordFits(w)'
           /\ FailuresSettle'
  <1>1. UNCHANGED <<cost, retired, trail, req, aborts, job>>
    BY DEF simVars, apiVars, workerVars
  <1>2. \A w \in Workers : RecordFits(w)'
    BY <1>1, LedgerFacts DEF RecordFits, NoLaterThan
  <1>3. \A s : (Settled(s)' <=> Settled(s)) /\ StatusOf(s)' = StatusOf(s)
    BY <1>1 DEF Settled, NetChargeOf, StatusOf
  <1>4. FailuresSettle'
    BY <1>1, <1>3 DEF LedgerInv, FailuresSettle, Announcing
  <1> QED
    BY <1>1, <1>2, <1>4 DEF LedgerInv

\* a step of one call leaves the other callers' stages alone
LEMMA AccountMoves ==
    ASSUME LedgerInv, SerialInv', NEW c \in Clients, month' = month,
           UNCHANGED <<simVars, apiVars, workerVars>>,
           \A d \in Clients : d # c => call'[d] = call[d],
           account' = Absent => account = Absent,
           \A d \in Clients : d # c /\ call[d].at = "seed" /\ month = 1 => account' = Absent,
           CallFits(c)', \A r \in Requests : PeriodFits(r)', Books'
    PROVE  LedgerInv'
  <1>1. /\ UNCHANGED <<cost, retired, req, job>>
        /\ aborts' \in Nat /\ FailuresSettle' /\ \A w \in Workers : RecordFits(w)'
    BY AccountFrame
  <1>2. ASSUME NEW d \in Clients, d # c
        PROVE  CallFits(d)'
    BY <1>1, <1>2, LedgerFacts DEF CallFits, Calling, NoLaterThan
  <1>3. \A d \in Clients : CallFits(d)'
    BY <1>2
  <1>4. Opening'
    BY <1>1 DEF LedgerInv, Opening
  <1> QED
    BY <1>1, <1>3, <1>4 DEF LedgerInv

LEMMA BooksFollow ==
    ASSUME UNCHANGED <<cost, retired, aborts, month>>,
           \A c \in Clients : \A p : Owes(c, p)' = Owes(c, p),
           \A doc \in Account : OnFile(doc)' => InOrder(doc)
    PROVE  Books'
  <1> SUFFICES ASSUME NEW doc \in Account, OnFile(doc)'
               PROVE  InOrder(doc)'
    BY DEF Books
  <1> QED
    BY InOrderStays

\* what get_or_create reads is in order, and so is what it makes of it
LEMMA ReadIs ==
    ASSUME IsFiniteSet(SimIds), LedgerInv, NEW c \in Clients, Read(c)
    PROVE  /\ UNCHANGED <<account, month>>
           /\ call[c].at = "read" /\ call'[c].op = call[c].op
           /\ \A d \in Clients : d # c => call'[d] = call[d]
           /\ call'[c].at \in {"seed", "returned", "rejected", "write"}
           /\ call'[c].at = "returned" => call[c].op.name = "get_or_create"
           /\ call'[c].at = "write" => call[c].op.name # "get_or_create"
           /\ call'[c].doc \in Account /\ InOrder(call'[c].doc)
           /\ call'[c].doc.usage_period = month
           /\ call'[c].at = "seed" => /\ call'[c].doc.tokens_used = 0
                                      /\ NoLaterThan(month - 1)
                                      /\ month = 1 => account = Absent
  <1> DEFINE op == call[c].op
  <1>1. /\ UNCHANGED <<account, month>> /\ call[c].at = "read"
        /\ month \in Nat /\ month >= 1 /\ SimInv /\ SimulationTypeOK
        /\ account \in Account \cup {Absent}
    BY LedgerFacts DEF Read
  <1>2. ASSUME NEW D \in Account, D.tokens_used = 0, D.usage_period = month,
               account = Absent \/ (account # Absent /\ account.usage_period < month),
               Advance(c, "seed", D)
        PROVE  /\ call'[c].at = "seed" /\ call'[c].doc = D /\ call'[c].op = op
               /\ \A d \in Clients : d # c => call'[d] = call[d]
               /\ InOrder(D) /\ NoLaterThan(month - 1)
               /\ month = 1 => account = Absent
    <2>1. /\ NoLaterThan(month - 1)
          /\ ChargesIn(month) = 0 /\ Owed(month) = 0
          /\ month = 1 => account = Absent /\ retired = 0
      BY <1>2, FreshMonth
    <2>2. NoLaterThan(month)
      BY <1>1, <2>1 DEF NoLaterThan, SimulationTypeOK, CostRecord
    <2>3. Slack(D) = 0
      BY <1>2, <2>1 DEF Slack
    <2>4. InOrder(D)
      BY <1>1, <1>2, <2>1, <2>2, <2>3 DEF InOrder
    <2> QED
      BY <1>1, <1>2, <2>1, <2>4, AdvanceIs
  <1>3. CASE account = Absent /\ Advance(c, "seed", Defaults(SeedRole(op), month))
    BY <1>1, <1>2, <1>3, DefaultsType
  <1>4. CASE /\ account # Absent /\ IsPeriodStale(account, month)
             /\ Advance(c, "seed", Rolled(account, month))
    BY <1>1, <1>2, <1>4, RolledType DEF IsPeriodStale
  <1>5. CASE /\ account # Absent /\ ~IsPeriodStale(account, month)
             /\ Advance(c, AfterGet(op, account), account)
    <2>1. /\ call'[c].at = AfterGet(op, account) /\ call'[c].doc = account /\ call'[c].op = op
          /\ \A d \in Clients : d # c => call'[d] = call[d]
      BY <1>1, <1>5, AdvanceIs
    <2>2. account \in Account /\ InOrder(account) /\ account.usage_period \in Nat
      BY <1>1, <1>5, DocumentFacts
    <2>3. account.usage_period = month
      BY <1>1, <1>5, <2>2 DEF InOrder, IsPeriodStale
    <2>4. /\ call'[c].at \in {"returned", "rejected", "write"}
          /\ call'[c].at = "returned" => op.name = "get_or_create"
          /\ call'[c].at = "write" => op.name # "get_or_create"
      BY <2>1 DEF AfterGet
    <2> QED
      BY <1>1, <2>1, <2>2, <2>3, <2>4
  <1> QED
    BY <1>3, <1>4, <1>5 DEF Read

LEMMA LedgerRead ==
    ASSUME IsFiniteSet(SimIds), LedgerInv, SerialInv', NEW c \in Clients, Read(c),
           UNCHANGED <<simVars, apiVars, workerVars>>
    PROVE  LedgerInv'
  <1>1. /\ UNCHANGED <<account, month>>
        /\ call[c].at = "read" /\ call'[c].op = call[c].op
        /\ \A d \in Clients : d # c => call'[d] = call[d]
        /\ call'[c].at \in {"seed", "returned", "rejected", "write"}
        /\ call'[c].at = "returned" => call[c].op.name = "get_or_create"
        /\ call'[c].at = "write" => call[c].op.name # "get_or_create"
        /\ call'[c].doc \in Account /\ InOrder(call'[c].doc)
        /\ call'[c].doc.usage_period = month
        /\ call'[c].at = "seed" => /\ call'[c].doc.tokens_used = 0
                                   /\ NoLaterThan(month - 1)
                                   /\ month = 1 => account = Absent
    BY ReadIs
  <1>2. UNCHANGED <<cost, retired, req, aborts, job>>
    BY <1>1, AccountFrame
  <1>3. /\ Calling(c)' /\ \A p : Owes(c, p) = 0
        /\ c \in Requests => ~Paid(c)' /\ req[c].at \notin Recording
        /\ \A p : Owes(c, p)' = 0
    BY <1>1, <1>2, CallUnderWay
  <1>4. \A d \in Clients : \A p : Owes(d, p)' = Owes(d, p)
    <2>1. ASSUME NEW d \in Clients, d # c, NEW p
          PROVE  Owes(d, p)' = Owes(d, p)
      BY <1>1, <1>2, <2>1 DEF Owes, RequestOwes, JobOwes, Paid, Adjusted
    <2> QED
      BY <1>3, <2>1
  <1>5. \A doc \in Account : OnFile(doc)' => InOrder(doc)
    <2>1. ASSUME NEW doc \in Account, OnFile(doc)'
          PROVE  doc = call'[c].doc \/ OnFile(doc)
      BY <1>1, <2>1 DEF OnFile, Saving
    <2> QED
      BY <1>1, <2>1 DEF LedgerInv, Books
  <1>6. Books'
    BY <1>1, <1>2, <1>4, <1>5, BooksFollow
  <1>7. CallFits(c)'
    BY <1>1, <1>2, <1>3 DEF CallFits, NoLaterThan
  <1>8. ASSUME NEW r \in Requests
        PROVE  PeriodFits(r)'
    <2>1. PeriodFits(r) /\ r \in Clients
      BY LedgerFacts, CallerFacts
    <2>2. CASE r # c
      BY <1>1, <1>2, <2>1, <2>2 DEF PeriodFits, Paid, Saving
    <2>3. CASE r = c
      <3>1. Debiting \subseteq Billing
        BY DEF Debiting, Billing
      <3>2. month \in Nat
        BY LedgerFacts
      <3> QED
        BY <1>1, <1>2, <1>3, <2>1, <2>3, <3>1, <3>2 DEF PeriodFits
    <2> QED
      BY <2>2, <2>3
  <1>9. \A d \in Clients : d # c /\ call[d].at = "seed" /\ month = 1 => account' = Absent
    BY <1>1, LedgerFacts DEF CallFits
  <1> QED
    BY <1>1, <1>6, <1>7, <1>8, <1>9, AccountMoves

\* the save of a seeded document
LEMMA LedgerSeed ==
    ASSUME OneAtATime, LedgerInv, SerialInv', NEW c \in Clients, Seed(c),
           UNCHANGED <<simVars, apiVars, workerVars>>
    PROVE  LedgerInv'
  <1> DEFINE D == call[c].doc
             op == call[c].op
  <1>1. /\ month' = month /\ call[c].at = "seed" /\ Saving(c) /\ account' = D
        /\ Advance(c, AfterGet(op, D), D)
    BY DEF Seed, Saving
  <1>2. /\ SimInv /\ call'[c].at = AfterGet(op, D) /\ call'[c].op = op /\ call'[c].doc = D
        /\ \A d \in Clients : d # c => call'[d] = call[d]
    BY <1>1, LedgerFacts, AdvanceIs
  <1>3. D \in Account /\ InOrder(D)
    BY <1>1, DocumentFacts
  <1>4. /\ call'[c].at \in {"returned", "rejected", "write"}
        /\ call'[c].at = "returned" => op.name = "get_or_create"
        /\ call'[c].at = "write" => op.name # "get_or_create"
    BY <1>2 DEF AfterGet
  <1>5. UNCHANGED <<cost, retired, req, aborts, job>>
    BY <1>1, AccountFrame
  <1>6. /\ Calling(c) /\ Calling(c)' /\ \A p : Owes(c, p) = 0
        /\ c \in Requests => ~Paid(c)' /\ req[c].at \notin Recording
        /\ \A p : Owes(c, p)' = 0
    BY <1>1, <1>2, <1>4, <1>5, CallUnderWay
  <1>7. CallFits(c) /\ D # Absent
    BY <1>3, LedgerFacts
  <1>8. \A d \in Clients : \A p : Owes(d, p)' = Owes(d, p)
    <2>1. ASSUME NEW d \in Clients, d # c, NEW p
          PROVE  Owes(d, p)' = Owes(d, p)
      BY <1>2, <1>5, <2>1 DEF Owes, RequestOwes, JobOwes, Paid, Adjusted
    <2> QED
      BY <1>6, <2>1
  <1>9. Books'
    <2>1. ASSUME NEW doc \in Account, OnFile(doc)'
          PROVE  OnFile(doc)
      BY <1>1, <1>2, <2>1 DEF OnFile, Saving
    <2>2. \A doc \in Account : OnFile(doc)' => InOrder(doc)
      BY <2>1 DEF LedgerInv, Books
    <2> QED
      BY <1>1, <1>5, <1>8, <2>2, BooksFollow
  <1>10. CallFits(c)'
    BY <1>2, <1>4, <1>6 DEF CallFits
  <1>11. ASSUME NEW r \in Requests
         PROVE  PeriodFits(r)'
    <2>1. PeriodFits(r) /\ r \in Clients
      BY LedgerFacts, CallerFacts
    <2>2. CASE r # c
      <3>1. req[r].at \notin Debiting \cup Recording
        <4>1. req[r].at \in Debiting \cup Recording => Idle(c)
          BY <2>2, RequestAlone
        <4> QED
          BY <1>1, <4>1 DEF Idle
      <3> QED
        BY <1>1, <1>5, <2>1, <3>1 DEF PeriodFits, Paid
    <2>3. CASE r = c
      BY <1>1, <1>2, <1>5, <1>6, <2>1, <2>3 DEF PeriodFits, Saving
    <2> QED
      BY <2>2, <2>3
  <1>12. ASSUME NEW d \in Clients, d # c, call[d].at = "seed", month = 1
         PROVE  FALSE
    <2>1. account = Absent
      BY <1>1, <1>7, <1>12 DEF CallFits
    <2>2. ASSUME NEW w \in Workers, Calling(w)
          PROVE  FALSE
      <3>1. job[w].at \in {"overage", "partial", "cost_save", "refund", "refund_save"}
        BY <2>2, CallerFacts DEF Calling
      <3>2. account \in Account
        BY <3>1, RecordFacts
      <3> QED
        BY <2>1, <3>2, LedgerFacts
    <2>3. Calling(d)
      BY <1>12, LedgerFacts DEF CallFits
    <2>4. c \in Requests /\ d \in Requests
      BY <1>6, <2>2, <2>3 DEF Calling
    <2> QED
      BY <1>12, <2>4 DEF OneAtATime
  <1>13. account' # Absent
    BY <1>1, <1>7
  <1> QED
    BY <1>1, <1>2, <1>9, <1>10, <1>11, <1>12, <1>13, AccountMoves

\* the save of a debited or credited document: it counts what its caller then
\* owes, unless that belongs to an earlier month
LEMMA WriteIs ==
    ASSUME OneAtATime, IsFiniteSet(SimIds), LedgerInv, NEW c \in Clients, Write(c),
           UNCHANGED <<req, job>>, NEW D, D = call[c].doc, NEW p, p = D.usage_period
    PROVE  /\ Saving(c) /\ D \in Account /\ InOrder(D) /\ p \in Nat
           /\ call'[c].at = "returned" /\ call'[c].op = call[c].op /\ Calling(c)'
           /\ \A d \in Clients : d # c => call'[d] = call[d]
           /\ account' \in Account /\ account'.usage_period = p
           /\ (\A q : Owes(c, q) = 0) /\ Owes(c, p)' \in Int
           /\ \/ account'.tokens_used = D.tokens_used + Owes(c, p)'
              \/ /\ Owes(c, p)' = 0 /\ month # 1
                 /\ account'.tokens_used >= D.tokens_used \/ ChargesIn(p) = 0
  <1> DEFINE op == call[c].op
  <1>1. call[c].at = "write" /\ Saving(c) /\ account' = Applied(op, D)
    BY DEF Write, Saving
  <1>2. Advance(c, "returned", D) /\ SimInv /\ SimulationTypeOK
    BY LedgerFacts DEF Write
  <1>3. /\ call'[c].at = "returned" /\ call'[c].op = op
        /\ \A d \in Clients : d # c => call'[d] = call[d]
    BY <1>2, AdvanceIs
  <1>4. /\ D \in Account /\ InOrder(D) /\ D.tokens_used \in Nat /\ p \in Nat
        /\ op \in Operation /\ month \in Nat
    BY <1>1, DocumentFacts, LedgerFacts DEF CallType
  <1>5. /\ account' \in Account /\ account'.usage_period = p
        /\ account'.tokens_used \in Nat
        /\ op.name = "debit" => /\ op.tokens \in Nat
                                /\ account'.tokens_used = D.tokens_used + op.tokens
    BY <1>1, <1>4, AppliedType DEF Account
  <1>6. /\ Calling(c) /\ Calling(c)' /\ op.name # "get_or_create"
        /\ \A q : Owes(c, q) = 0
    BY <1>1, <1>3, CallUnderWay, LedgerFacts DEF CallFits
  <1>7. CASE c \in Requests
    <2>1. req[c].at \in Debiting /\ op = Debit(req[c].estimate) /\ PeriodFits(c)
      BY <1>6, <1>7, CallerFacts, LedgerFacts DEF Calling, GetOrCreate
    <2>2. /\ op.name = "debit" /\ op.tokens = req[c].estimate
          /\ req[c].period \in 1 .. month /\ req[c].period <= p
      BY <1>1, <2>1 DEF Debit, PeriodFits, Debiting, Billing
    <2>3. Owes(c, p)' = IF req[c].period = p THEN op.tokens ELSE 0
      BY <1>3, <1>7, <2>1, <2>2 DEF Owes, RequestOwes, Paid
    <2>4. CASE req[c].period = p
      BY <1>1, <1>3, <1>4, <1>5, <1>6, <2>2, <2>3, <2>4
    <2>5. CASE req[c].period # p
      <3>1. month # 1
        BY <1>4, <2>2, <2>5 DEF InOrder
      <3>2. account'.tokens_used >= D.tokens_used
        BY <1>4, <1>5, <2>2
      <3> QED
        BY <1>1, <1>3, <1>4, <1>5, <1>6, <2>3, <2>5, <3>1, <3>2
    <2> QED
      BY <2>4, <2>5
  <1>8. CASE c \in Workers
    <2> DEFINE s == job[c].sid
               record == job[c].record
    <2>1. job[c].at \in {"overage", "partial", "refund"} /\ c \notin Requests
      BY <1>6, <1>8, CallerFacts DEF Calling
    <2>2. /\ s \in SimIds /\ record.period = cost[s].period /\ cost[s] # Absent
          /\ cost[s].period \in Nat /\ cost[s].period >= 1
          /\ cost[s].tokens_charged \in Nat /\ record.tokens_charged \in Nat
          /\ ChargeIn(s, p) = IF record.period = p THEN cost[s].tokens_charged ELSE 0
      BY <1>8, <2>1, RecordFacts
    <2>3. record.period <= p /\ (record.period # p => month # 1)
      BY <1>4, <2>2 DEF InOrder, NoLaterThan
    <2>4. Adjusted(c)'
      BY <1>3, <2>1 DEF Adjusted
    <2>5. CASE job[c].at \in {"overage", "partial"}
      <3>1. op.name = "debit"
        BY <1>6, <2>1, <2>5 DEF Calling, Debit
      <3>2. Owes(c, p)' = IF record.period = p THEN op.tokens ELSE 0
        BY <1>3, <1>8, <2>1, <2>4, <2>5 DEF Owes, JobOwes
      <3>3. account'.tokens_used >= D.tokens_used
        BY <1>4, <1>5, <3>1
      <3> QED
        BY <1>1, <1>3, <1>4, <1>5, <1>6, <2>3, <3>1, <3>2, <3>3
    <2>6. CASE job[c].at = "refund"
      <3>1. op = Credit(record.tokens_charged)
        BY <1>6, <2>1, <2>6 DEF Calling
      <3>2. account' = Credited(D, record.tokens_charged)
        BY <1>1, <3>1 DEF Applied, Credit
      <3>3. account'.tokens_used = FlooredAtZero(D.tokens_used - record.tokens_charged)
        BY <1>4, <3>2 DEF Credited, Account
      <3>4. Owes(c, p)' = IF record.period = p THEN -record.tokens_charged ELSE 0
        BY <1>8, <2>1, <2>4, <2>6 DEF Owes, JobOwes
      <3>5. RecordFits(c)
        BY <1>8, LedgerFacts
      <3>6. NoLaterThan(record.period) /\ record = cost[s]
        BY <2>6, <3>5 DEF RecordFits
      <3>7. CASE record.period = p
        <4>1. Owed(p) = 0
          <5>1. \A d \in Clients : d # c => \A q : Owes(d, q) = 0
            BY <1>8, <2>1, WorkerAlone DEF Busy
          <5> QED
            BY <1>6, <5>1, OwedNone
        <4>2. ChargesIn(p) \in Nat /\ ChargesIn(p) >= ChargeIn(s, p)
          BY <1>2, <2>2, ChargesType
        <4>3. D.tokens_used - ChargesIn(p) >= 0
          BY <1>4, <4>1, <4>2 DEF InOrder, Slack
        <4>4. ChargeIn(s, p) = record.tokens_charged
          BY <2>2, <3>6, <3>7
        <4>5. D.tokens_used >= record.tokens_charged
          BY <1>4, <2>2, <4>2, <4>3, <4>4
        <4>6. account'.tokens_used = D.tokens_used + Owes(c, p)'
          BY <1>4, <2>2, <3>3, <3>4, <3>7, <4>5 DEF FlooredAtZero
        <4>7. Owes(c, p)' \in Int
          BY <2>2, <3>4
        <4> QED
          BY <1>1, <1>3, <1>4, <1>5, <1>6, <4>6, <4>7
      <3>8. CASE record.period # p
        <4>1. ChargesIn(p) = 0
          BY <1>2, <1>4, <2>2, <2>3, <3>6, <3>8, ChargesBefore
        <4> QED
          BY <1>1, <1>3, <1>4, <1>5, <1>6, <2>3, <3>4, <3>8, <4>1
      <3> QED
        BY <3>7, <3>8
    <2> QED
      BY <2>1, <2>5, <2>6
  <1> QED
    BY <1>6, <1>7, <1>8 DEF Calling

LEMMA LedgerWrite ==
    ASSUME OneAtATime, IsFiniteSet(SimIds), LedgerInv, SerialInv', NEW c \in Clients,
           Write(c), UNCHANGED <<simVars, apiVars, workerVars>>,
           NEW D, D = call[c].doc, NEW p, p = D.usage_period
    PROVE  LedgerInv'
  <1>1. month' = month /\ call[c].at = "write"
    BY DEF Write
  <1>2. UNCHANGED <<cost, retired, req, aborts, job>>
    BY <1>1, AccountFrame
  <1>3. /\ Saving(c) /\ D \in Account /\ InOrder(D) /\ p \in Nat
        /\ call'[c].at = "returned" /\ call'[c].op = call[c].op /\ Calling(c)'
        /\ \A d \in Clients : d # c => call'[d] = call[d]
        /\ account' \in Account /\ account'.usage_period = p
        /\ (\A q : Owes(c, q) = 0) /\ Owes(c, p)' \in Int
        /\ \/ account'.tokens_used = D.tokens_used + Owes(c, p)'
           \/ /\ Owes(c, p)' = 0 /\ month # 1
              /\ account'.tokens_used >= D.tokens_used \/ ChargesIn(p) = 0
    BY <1>2, WriteIs
  <1>4. /\ SimulationTypeOK /\ month \in Nat /\ Absent \notin Account /\ retired \in Nat
        /\ D.tokens_used \in Nat /\ account'.tokens_used \in Nat
    BY <1>3, LedgerFacts, DocumentFacts DEF Account
  <1>5. c \in Requests \/ c \in Workers
    BY <1>3 DEF Calling
  <1>6. ASSUME c \in Requests
        PROVE  req[c].at \in Debiting /\ \A r \in Requests : r = c
    BY <1>1, <1>6, LedgerFacts, CallerFacts DEF CallFits, Calling, GetOrCreate, OneAtATime
  <1>7. ASSUME c \in Workers
        PROVE  Busy(c) /\ job[c].at \in {"overage", "partial", "refund"}
    BY <1>1, <1>7, LedgerFacts, CallerFacts DEF CallFits, Calling, Busy
  <1>8. ASSUME NEW d \in Clients, d # c
        PROVE  /\ \A q : Owes(d, q) = 0
               /\ Saving(d) => c \in Workers /\ call[d].at = "seed"
    BY <1>5, <1>6, <1>7, <1>8, RequestAlone, WorkerAlone DEF Idle, Saving
  <1>9. ASSUME NEW d \in Clients, d # c, NEW q
        PROVE  Owes(d, q)' = 0
    <2>1. Owes(d, q)' = Owes(d, q)
      BY <1>2, <1>3, <1>9 DEF Owes, RequestOwes, JobOwes, Paid, Adjusted
    <2> QED
      BY <1>8, <1>9, <2>1
  <1>10. \A q : Owed(q) = 0 /\ Owed(q)' = Owes(c, q)' /\ ChargesIn(q)' = ChargesIn(q)
    BY <1>2, <1>3, <1>8, <1>9, OwedNone, OwedNext, ChargesSame
  <1>11. ChargesIn(p) \in Nat
    BY <1>4, ChargesType
  <1>12. ASSUME NEW A, A = account'
         PROVE  InOrder(A)'
    <2>1. NoLaterThan(p)' /\ p \in 1 .. month' /\ Slack(D) >= 0
      BY <1>1, <1>2, <1>3 DEF InOrder, NoLaterThan
    <2>2. Slack(D) = D.tokens_used - ChargesIn(p)
      BY <1>4, <1>10, <1>11 DEF Slack
    <2>3. Slack(A)' = A.tokens_used - ChargesIn(p) - Owes(c, p)'
      BY <1>3, <1>10, <1>12 DEF Slack
    <2>4. CASE A.tokens_used = D.tokens_used + Owes(c, p)'
      <3>1. Slack(A)' = Slack(D)
        BY <1>3, <1>4, <1>11, <2>2, <2>3, <2>4
      <3> QED
        BY <1>1, <1>2, <1>3, <1>12, <2>1, <3>1 DEF InOrder
    <2>5. CASE /\ Owes(c, p)' = 0 /\ month # 1
               /\ A.tokens_used >= D.tokens_used \/ ChargesIn(p) = 0
      <3>1. Slack(A)' >= 0
        BY <1>4, <1>11, <1>12, <2>1, <2>2, <2>3, <2>5
      <3> QED
        BY <1>1, <1>3, <1>12, <2>1, <2>5, <3>1 DEF InOrder
    <2> QED
      BY <1>3, <1>12, <2>4, <2>5
  <1>13. ASSUME NEW d \in Clients, d # c, Saving(d), NEW E, E = call[d].doc
         PROVE  E \in Account /\ month # 1 /\ InOrder(E)'
    <2>1. c \in Workers /\ call[d].at = "seed" /\ CallFits(d)
      BY <1>8, <1>13, LedgerFacts
    <2>2. E \in Account /\ InOrder(E) /\ E.usage_period \in Nat
      BY <1>13, DocumentFacts
    <2> DEFINE q == E.usage_period
               s == job[c].sid
    <2>3. E.tokens_used = 0 /\ NoLaterThan(q - 1) /\ (month = 1 => account = Absent)
      BY <1>13, <2>1 DEF CallFits
    <2>4. /\ s \in SimIds /\ cost[s] # Absent /\ cost[s].period \in Nat
          /\ job[c].record.period = cost[s].period /\ account \in Account
      BY <1>7, <2>1, RecordFacts
    <2>5. month # 1
      BY <1>4, <2>3, <2>4
    <2>6. job[c].record.period # q
      BY <2>2, <2>3, <2>4 DEF NoLaterThan
    <2>7. Owes(c, q)' = 0
      BY <1>2, <2>1, <2>6, CallerFacts DEF Owes, JobOwes
    <2>8. ChargesIn(q) = 0
      BY <1>4, <2>2, <2>3, ChargesBefore
    <2>9. Slack(E)' = 0
      BY <1>10, <2>3, <2>7, <2>8 DEF Slack
    <2>10. NoLaterThan(q)'
      BY <1>2, <2>2 DEF InOrder, NoLaterThan
    <2> QED
      BY <1>1, <2>2, <2>5, <2>9, <2>10 DEF InOrder
  <1>14. Books'
    <2> SUFFICES ASSUME NEW doc \in Account, OnFile(doc)'
                 PROVE  InOrder(doc)'
      BY DEF Books
    <2>1. doc = account' \/ \E d \in Clients : d # c /\ Saving(d) /\ call[d].doc = doc
      BY <1>3 DEF OnFile, Saving
    <2> QED
      BY <1>12, <1>13, <2>1
  <1>15. CallFits(c)'
    BY <1>3 DEF CallFits
  <1>16. ASSUME NEW r \in Requests
         PROVE  PeriodFits(r)'
    <2>1. PeriodFits(r) /\ r \in Clients
      BY LedgerFacts, CallerFacts
    <2>2. CASE r = c
      <3>1. /\ req[r].at \in Debiting /\ req[r].at \notin Recording
            /\ req[r].period \in 1 .. month /\ req[r].period <= p
        BY <1>3, <1>6, <2>1, <2>2 DEF PeriodFits, Debiting, Recording, Billing
      <3> QED
        BY <1>1, <1>2, <1>3, <1>4, <2>2, <3>1 DEF PeriodFits, Saving
    <2>3. CASE r # c
      <3>1. req[r].at \notin Debiting \cup Recording
        BY <1>5, <1>6, <1>7, <2>3, WorkerAlone
      <3> QED
        BY <1>1, <1>2, <2>1, <3>1 DEF PeriodFits, Paid
    <2> QED
      BY <2>2, <2>3
  <1>17. \A d \in Clients : d # c /\ call[d].at = "seed" /\ month = 1 => account' = Absent
    BY <1>13 DEF Saving
  <1> QED
    BY <1>1, <1>3, <1>4, <1>14, <1>15, <1>16, <1>17, AccountMoves

LEMMA LedgerAccount ==
    ASSUME OneAtATime, IsFiniteSet(SimIds), LedgerInv, SerialInv', NEW c \in Clients,
           AccountStep(c)
    PROVE  LedgerInv'
  <1>1. CASE Write(c) /\ UNCHANGED <<simVars, apiVars, workerVars>>
    BY <1>1, LedgerWrite DEF apiVars, workerVars
  <1> QED
    BY <1>1, LedgerRead, LedgerSeed DEF AccountStep
-----------------------------------------------------------------------------
(***************************************************************************)
(* Months pass, and the whole system.                                      *)
(***************************************************************************)
LEMMA LedgerTime ==
    ASSUME LedgerInv, SerialInv', month' \in Nat, month' >= month,
           UNCHANGED <<account, call, simVars, apiVars, workerVars>>
    PROVE  LedgerInv'
  <1>1. UNCHANGED <<account, call, cost, retired, trail, req, aborts, job>>
    BY DEF simVars, apiVars, workerVars
  <1>2. month \in Nat /\ month >= 1 /\ (month' = 1 => month = 1)
    BY LedgerFacts
  <1>3. \A c \in Clients : \A p : Owes(c, p)' = Owes(c, p)
    BY <1>1 DEF Owes, RequestOwes, JobOwes, Paid, Adjusted
  <1>4. \A doc \in Account : OnFile(doc)' => OnFile(doc)
    BY <1>1 DEF OnFile, Saving
  <1>5. Books'
    BY <1>1, <1>3, <1>4, BooksStay
  <1>6. \A c \in Clients : CallFits(c)'
    BY <1>1, <1>2, LedgerFacts DEF CallFits, Calling, NoLaterThan
  <1>7. \A r \in Requests : PeriodFits(r)'
    <2>1. ASSUME NEW r \in Requests
          PROVE  PeriodFits(r)'
      <3>1. PeriodFits(r)
        BY LedgerFacts
      <3>2. req[r].at \in Billing => req[r].period \in 1 .. month'
        BY <1>2, <3>1 DEF PeriodFits
      <3> QED
        BY <1>1, <3>1, <3>2 DEF PeriodFits, Paid, Saving
    <2> QED
      BY <2>1
  <1>8. \A w \in Workers : RecordFits(w)'
    BY <1>1, LedgerFacts DEF RecordFits, NoLaterThan
  <1>9. Opening' /\ aborts' \in Nat
    BY <1>1 DEF LedgerInv, Opening
  <1>10. FailuresSettle'
    <2>1. \A s : (Settled(s)' <=> Settled(s)) /\ StatusOf(s)' = StatusOf(s)
      BY <1>1 DEF Settled, NetChargeOf, StatusOf
    <2> QED
      BY <1>1, <1>2, <2>1 DEF LedgerInv, FailuresSettle, Announcing
  <1> QED
    BY <1>5, <1>6, <1>7, <1>8, <1>9, <1>10 DEF LedgerInv

LEMMA InitLedger == Init => LedgerInv
  <1> SUFFICES ASSUME Init
               PROVE  LedgerInv
    OBVIOUS
  <1>1. /\ account = Absent /\ retired = 0 /\ aborts = 0
        /\ \A s \in SimIds : cost[s] = Absent /\ trail[s] = Absent
    BY DEF Init, InitStore, InitSimulations, InitApi
  <1>2. \A c \in Clients : call[c].at = "idle"
    BY DEF Init, InitStore, NoCall
  <1>3. \A r \in Requests : req[r].at = "idle" /\ r \in Clients
    BY CallerFacts DEF Init, InitApi, NoRequest
  <1>4. \A w \in Workers : job[w].at = "idle"
    BY DEF Init, InitWorkers, NoJob
  <1>5. \A c \in Clients : CallFits(c)
    BY <1>2 DEF CallFits
  <1>6. \A r \in Requests : PeriodFits(r)
    BY <1>3 DEF PeriodFits, Paid, Billing, Debiting, Recording
  <1>7. \A w \in Workers : RecordFits(w)
    BY <1>4 DEF RecordFits
  <1>8. Books
    BY <1>1, <1>2, AbsentAssumption DEF Books, OnFile, Saving
  <1>9. FailuresSettle
    BY <1>1, <1>4 DEF FailuresSettle, Announcing
  <1> QED
    BY <1>1, <1>5, <1>6, <1>7, <1>8, <1>9, InitIsSerial DEF LedgerInv, Opening

LEMMA NextKeepsLedger ==
    ASSUME OneAtATime, MaxFaults = 0, IsFiniteSet(SimIds), LedgerInv, [Next]_vars
    PROVE  LedgerInv'
  <1>1. SerialInv' /\ month \in Nat
    BY LedgerFacts, NextIsSerial
  <1>2. ASSUME NEW c \in Clients, AccountStep(c)
        PROVE  LedgerInv'
    BY <1>1, <1>2, LedgerAccount
  <1>3. ASSUME NEW r \in Requests, ApiStep(r)
        PROVE  LedgerInv'
    BY <1>1, <1>3, LedgerApi
  <1>4. ASSUME NEW w \in Workers, PushStep(w)
        PROVE  LedgerInv'
    BY <1>1, <1>4, LedgerPush DEF PushStep, apiVars
  <1>5. CASE ClockStep
    BY <1>1, <1>5, LedgerTime DEF ClockStep, Tick
  <1>6. CASE AtRest \/ UNCHANGED vars
    BY <1>1, <1>6, LedgerTime DEF AtRest, vars, storeVars
  <1> QED
    BY <1>2, <1>3, <1>4, <1>5, <1>6 DEF Next

LEMMA LedgerThroughout ==
    ASSUME OneAtATime, MaxFaults = 0, IsFiniteSet(SimIds)
    PROVE  Spec => []LedgerInv
  <1>1. LedgerInv /\ [Next]_vars => LedgerInv'
    BY NextKeepsLedger
  <1> QED
    BY InitLedger, <1>1, PTL DEF Spec
-----------------------------------------------------------------------------
(***************************************************************************)
(* What the books say once everything has settled.                         *)
(***************************************************************************)
\* nobody owes anything when everybody is done
LEMMA NothingIsOwed ==
    ASSUME Quiescent, NEW p
    PROVE  Owed(p) = 0
  <1>1. \A r \in Requests : req[r].at = "idle"
    BY DEF Quiescent, NoRequest
  <1>2. \A w \in Workers : job[w].at = "idle"
    BY DEF Quiescent, NoJob
  <1>3. \A c \in Clients : Owes(c, p) = 0
    BY <1>1, <1>2 DEF Owes, RequestOwes, JobOwes, Paid, Adjusted, Recording, Debiting
  <1> QED
    BY <1>3, OwedNone

LEMMA LedgerIsExact ==
    ASSUME IsFiniteSet(SimIds), LedgerInv
    PROVE  LedgerExact
  <1> SUFFICES ASSUME Quiescent, account # Absent, month = 1, aborts = 0
               PROVE  account.tokens_used = retired + MapThenSumSet(NetChargeOf, SimIds)
    BY DEF LedgerExact
  <1>1. SimulationTypeOK /\ retired \in Nat
    BY LedgerFacts
  <1>2. account \in Account /\ account.tokens_used \in Nat /\ InOrder(account)
    BY DocumentFacts
  <1>3. account.usage_period = 1 /\ NoLaterThan(1) /\ Slack(account) = retired
    BY <1>2 DEF InOrder
  <1>4. account.tokens_used = retired + ChargesIn(1)
    <2>1. Slack(account) = account.tokens_used - ChargesIn(1) - 0
      BY <1>3, NothingIsOwed DEF Slack
    <2>2. ChargesIn(1) \in Nat
      BY <1>1, ChargesType
    <2> QED
      BY <1>1, <1>2, <1>3, <2>1, <2>2
  <1>5. ASSUME NEW s \in SimIds
        PROVE  ChargeIn(s, 1) = NetChargeOf(s)
    <2>1. cost[s] # Absent => cost[s].period \in Nat
      BY <1>1 DEF SimulationTypeOK, CostRecord
    <2>2. cost[s] # Absent => cost[s].period = 1
      BY <1>3, <2>1 DEF NoLaterThan, LedgerInv, Opening
    <2> QED
      BY <2>2 DEF ChargeIn, NetChargeOf
  <1>6. [s \in SimIds |-> ChargeIn(s, 1)] = [s \in SimIds |-> NetChargeOf(s)]
    BY <1>5
  <1>7. ChargesIn(1) = MapThenSumSet(NetChargeOf, SimIds)
    BY <1>6, ChargesInTotal, NetChargesTotal
  <1> QED
    BY <1>4, <1>7

LEMMA MonthIsCounted ==
    ASSUME IsFiniteSet(SimIds), LedgerInv
    PROVE  ThisMonthsChargesCounted
  <1> SUFFICES ASSUME Quiescent
               PROVE  UsedThisMonth >= MapThenSumSet(ChargeThisMonth, SimIds)
    BY DEF ThisMonthsChargesCounted
  <1>1. SimulationTypeOK /\ month \in Nat
    BY LedgerFacts
  <1>2. MapThenSumSet(ChargeThisMonth, SimIds) = ChargesIn(month)
    <2>1. \A s \in SimIds : ChargeThisMonth(s) = ChargeIn(s, month)
      BY DEF ChargeThisMonth, ChargeIn
    <2>2. [s \in SimIds |-> ChargeThisMonth(s)] = [s \in SimIds |-> ChargeIn(s, month)]
      BY <2>1
    <2> QED
      BY <2>2, ChargesInTotal, ChargesThisMonthTotal
  <1>3. ChargesIn(month) \in Nat
    BY <1>1, ChargesType
  <1>4. CASE account = Absent
    <2>1. \A s \in SimIds : ChargeIn(s, month) = 0
      BY <1>4 DEF LedgerInv, Opening, ChargeIn
    <2>2. ChargesIn(month) = 0
      BY <2>1, ChargesNone
    <2> QED
      BY <1>2, <1>4, <2>2 DEF UsedThisMonth
  <1>5. CASE account # Absent
    <2>1. /\ account.tokens_used \in Nat /\ account.usage_period \in Nat
          /\ InOrder(account)
      BY <1>5, DocumentFacts
    <2>2. CASE account.usage_period < month
      <3>1. ChargesIn(month) = 0
        BY <1>1, <2>1, <2>2, ChargesBefore DEF InOrder
      <3> QED
        BY <1>2, <2>2, <3>1 DEF UsedThisMonth
    <2>3. CASE ~(account.usage_period < month)
      <3>1. account.usage_period = month
        BY <1>1, <2>1, <2>3 DEF InOrder
      <3>2. account.tokens_used - ChargesIn(month) - 0 >= 0
        BY <2>1, <3>1, NothingIsOwed DEF InOrder, Slack
      <3>3. account.tokens_used >= ChargesIn(month)
        BY <1>3, <2>1, <3>2
      <3> QED
        BY <1>2, <1>5, <2>3, <3>3 DEF UsedThisMonth
    <2> QED
      BY <2>2, <2>3
  <1> QED
    BY <1>4, <1>5

LEMMA FailuresAreRefunded ==
    ASSUME IsFiniteSet(SimIds), LedgerInv
    PROVE  FailedRunsRefundedInTime
  <1> SUFFICES ASSUME month = 1, aborts = 0, Quiescent, OnlyFailures, account # Absent
               PROVE  account.tokens_used = 0
    BY DEF FailedRunsRefundedInTime, FailedRunsCostNothing, UsedThisMonth
  <1>1. account.tokens_used = retired + MapThenSumSet(NetChargeOf, SimIds)
    BY LedgerIsExact DEF LedgerExact
  <1>2. \A r \in Requests : req[r].at = "idle"
    BY DEF Quiescent, NoRequest
  <1>3. ASSUME NEW s \in SimIds
        PROVE  NetChargeOf(s) = 0
    <2>1. CASE cost[s] = Absent
      BY <2>1 DEF NetChargeOf
    <2>2. CASE cost[s] # Absent
      <3>1. trail[s] # Absent /\ StatusOf(s) = "failed" /\ cost[s].actual_tokens = Absent
        BY <2>2 DEF OnlyFailures
      <3>2. Settled(s)
        BY <1>2, <3>1 DEF LedgerInv, FailuresSettle
      <3> QED
        BY <2>2, <3>1, <3>2 DEF Settled
    <2> QED
      BY <2>1, <2>2
  <1> DEFINE g == [s \in SimIds |-> NetChargeOf(s)]
  <1>4. g \in [SimIds -> Nat] /\ \A s \in SimIds : g[s] = 0
    BY <1>3
  <1>5. Total(g, SimIds) = 0
    BY <1>4, TotalOfNothing
  <1>6. MapThenSumSet(NetChargeOf, SimIds) = 0
    BY <1>5, NetChargesTotal
  <1> QED
    BY <1>1, <1>6 DEF OnlyFailures

(***************************************************************************)
(* The account and the cost records agree: for a user who waits for every  *)
(* answer, and as long as the storage answers the workers, no submission   *)
(* is cut off and the first month lasts, the counter of account.json is to *)
(* the token the sum of what the cost records say was charged and not      *)
(* refunded, the records that a retry has overwritten included.  It is     *)
(* about the read-modify-writes of AccountRepository (debit, credit), of   *)
(* simulations.py and of run.py, for any number of simulations and of      *)
(* workers, in every order of their steps.                                 *)
(***************************************************************************)
THEOREM AccountsAreExact ==
    ASSUME OneAtATime, MaxFaults = 0, IsFiniteSet(SimIds)
    PROVE  Spec => []LedgerExact
  <1>1. LedgerInv => LedgerExact
    BY LedgerIsExact
  <1> QED
    BY LedgerThroughout, <1>1, PTL

(***************************************************************************)
(* The month a run is billed to keeps its charge: under the same           *)
(* conditions, in every month and though submissions are cut off, what the *)
(* cost records claim to have charged to this month (debit, overage, less  *)
(* refunds) is counted in the account.                                     *)
(***************************************************************************)
THEOREM MonthsKeepTheirCharges ==
    ASSUME OneAtATime, MaxFaults = 0, IsFiniteSet(SimIds)
    PROVE  Spec => []ThisMonthsChargesCounted
  <1>1. LedgerInv => ThisMonthsChargesCounted
    BY MonthIsCounted
  <1> QED
    BY LedgerThroughout, <1>1, PTL

(***************************************************************************)
(* "Failed runs cost nothing": under the same conditions, when every run   *)
(* has failed without completing and run.py has settled them all, the      *)
(* account has nothing charged to the first month.                         *)
(***************************************************************************)
THEOREM FailedRunsAreRefunded ==
    ASSUME OneAtATime, MaxFaults = 0, IsFiniteSet(SimIds)
    PROVE  Spec => []FailedRunsRefundedInTime
  <1>1. LedgerInv => FailedRunsRefundedInTime
    BY FailuresAreRefunded
  <1> QED
    BY LedgerThroughout, <1>1, PTL
==============================================================================
