------------------------ MODULE TeamSimulationsProofs ------------------------
(***************************************************************************)
(* Proofs about TeamSimulations, for any number of members, requests,      *)
(* workers and simulations: what a worker is sent to run is completely     *)
(* stored (TeamDispatchesAreComplete), only requests that are cut off      *)
(* leave runs that nobody will move on (OnlyCutOffSubmissionsStrand), and  *)
(* a dissolution leaves nothing of the runs that it found at rest          *)
(* (DissolvedTeamsKeepNoRestingRuns).                                      *)
(***************************************************************************)
EXTENDS TeamSimulations, SimulationResultsProofs

Complete(s) == config[s] # Absent /\ trail[s] # Absent /\ cost[s] # Absent

\* the stages of a request that is about to publish a complete simulation
Resuming == {"retry_checks", "retry_account", "retry_debit", "append_read",
             "append_write", "publish"}

\* what request q must have found stored, or have stored itself
Covered(q) ==
    q.sid \in SimIds \ condemned =>
        /\ q.at \in {"create_status", "create_cost"} => config[q.sid] # Absent
        /\ q.at = "create_cost" => trail[q.sid] # Absent
        /\ q.at \in Resuming => Complete(q.sid)

\* what request q deletes has been condemned
Targeted(q) ==
    /\ q.at = "delete_list" => q.sids \subseteq condemned
    /\ \A x \in q.doomed : x[1] \in condemned

DispatchInv ==
    /\ SimInv
    /\ \A r \in Requests : Covered(req[r]) /\ Targeted(req[r])
    /\ \A s \in SimIds \ condemned :
          /\ queue[s] > 0 => Complete(s)
          /\ \A w \in Workers : job[w].sid = s => Complete(s)
          /\ trail[s] # Absent /\ StatusOf(s) # "pending" => Complete(s)
-----------------------------------------------------------------------------
(***************************************************************************)
(* The types of SimulationLifecycle hold here too: the routes of a team    *)
(* take the same steps, and those of delete_team are added to them.        *)
(***************************************************************************)
LEMMA DissolveKeepsTypes ==
    ASSUME SimInv, NEW r \in Requests, job' = job,
           DissolveStart(r) \/ DissolveList(r) \/ DissolveAccount(r) \/ DissolveMember(r)
    PROVE  SimInv'
  <1>1. /\ account \in Account \cup {Absent}
        /\ req[r] \in ReqType /\ Remembers(req[r])
        /\ req \in [Requests -> ReqType]
    BY RequestFacts
  <1>2. SimulationTypeOK' /\ month' = month
    BY BlobsStay DEF DissolveStart, DissolveList, DissolveAccount, DissolveMember, storeVars
  <1>3. CASE DissolveStart(r)
    <2> DEFINE new == [NoRequest EXCEPT !.at = "dissolve_list", !.kind = "dissolve",
                                        !.sids = SimIds]
    <2>1. {} \in SUBSET (SimIds \X BlobNames) /\ SimIds \in SUBSET SimIds
      OBVIOUS
    <2>2. new \in ReqType /\ Remembers(new)
      BY <2>1, EmptyTrail
      DEF NoRequest, ReqType, ReqStages, ReqKinds, Remembers, Submitting, Billing
    <2>3. /\ req' = [req EXCEPT ![r] = new]
          /\ Calls(r) /\ account' = account
      BY <1>3 DEF DissolveStart, Accept, Calls, storeVars
    <2> HIDE DEF new
    <2> QED
      BY <1>1, <1>2, <2>2, <2>3, RequestMove
  <1>4. CASE DissolveList(r)
    <2> DEFINE stage == IF account = Absent THEN "dissolve_members" ELSE "dissolve_account"
               listed == BlobsUnder(SimIds)
               new == [req[r] EXCEPT !.at = stage, !.doomed = listed]
    <2>1. listed \in SUBSET (SimIds \X BlobNames)
      BY DEF BlobsUnder
    <2>2. stage \in {"dissolve_members", "dissolve_account"}
      OBVIOUS
    <2>3. req' = [req EXCEPT ![r] = new]
      BY <1>1, <1>4 DEF DissolveList
    <2> HIDE DEF stage, listed
    <2>4. new \in ReqType /\ Remembers(new)
      BY <1>1, <2>1, <2>2 DEF ReqType, ReqStages, Remembers, Submitting, Billing
    <2>5. Calls(r) /\ account' = account
      BY <1>4 DEF DissolveList, Calls, storeVars
    <2> HIDE DEF new
    <2> QED
      BY <1>1, <1>2, <2>3, <2>4, <2>5, RequestMove
  <1>5. CASE DissolveAccount(r)
    <2>1. account' = Absent
      BY <1>5 DEF DissolveAccount
    <2>2. CASE Finish(r)
      BY <1>2, <2>1, <2>2, EndMove
    <2>3. CASE Go(r, "dissolve_members") /\ call' = call
      <3>1. Fits(r, "dissolve_members")
        BY DEF Fits, ReqStages, Submitting, Billing
      <3> QED
        BY <1>2, <2>1, <2>3, <3>1, GoMove DEF Calls
    <2> QED
      BY <1>5, <2>2, <2>3 DEF DissolveAccount
  <1>6. CASE DissolveMember(r)
    <2>1. account' = account
      BY <1>6 DEF DissolveMember
    <2>2. CASE Finish(r)
      BY <1>1, <1>2, <2>1, <2>2, EndMove
    <2>3. CASE UNCHANGED <<req, call>>
      <3>1. req' = [req EXCEPT ![r] = req[r]]
        BY <1>1, <2>3
      <3> QED
        BY <1>1, <1>2, <2>1, <2>3, <3>1, RequestMove DEF Calls
    <2>4. CASE Go(r, "delete_next") /\ call' = call
      <3>1. Fits(r, "delete_next")
        BY DEF Fits, ReqStages, Submitting, Billing
      <3> QED
        BY <1>1, <1>2, <2>1, <2>4, <3>1, GoMove DEF Calls
    <2> QED
      BY <1>6, <2>2, <2>3, <2>4 DEF DissolveMember
  <1> QED
    BY <1>3, <1>4, <1>5, <1>6

LEMMA TeamKeepsTypes ==
    ASSUME SimInv, [TeamNext]_<<vars, teamVars>>
    PROVE  SimInv'
  <1>1. ASSUME NEW r \in Requests, TeamRequestStep(r)
        PROVE  SimInv'
    <2>1. job' = job
      BY <1>1 DEF TeamRequestStep, workerVars
    <2>2. CASE create_team_simulation(r)
      BY <2>1, <2>2, StartKeepsTypes, RequestKeepsTypes
      DEF create_team_simulation, Steps, RequestStart, RequestStep
    <2>3. CASE estimate_team_simulation(r)
      BY <2>1, <2>3, StartKeepsTypes, RequestKeepsTypes
      DEF estimate_team_simulation, Steps, RequestStart, RequestStep
    <2>4. CASE retry_team_simulation(r)
      BY <2>1, <2>4, StartKeepsTypes, RequestKeepsTypes
      DEF retry_team_simulation, Steps, RequestStart, RequestStep
    <2>5. CASE delete_team_simulation(r)
      BY <2>1, <2>5, StartKeepsTypes, RequestKeepsTypes
      DEF delete_team_simulation, Steps, RequestStart, RequestStep
    <2>6. CASE delete_team(r)
      BY <2>1, <2>6, DissolveKeepsTypes, RequestKeepsTypes
      DEF delete_team, DissolveBlobs, RequestStep
    <2>7. CASE TeamAbort(r)
      BY <2>1, <2>7, RequestKeepsTypes DEF TeamAbort
    <2> QED
      BY <1>1, <2>2, <2>3, <2>4, <2>5, <2>6, <2>7 DEF TeamRequestStep
  <1>2. CASE \/ \E r \in Requests, u \in Members, route \in TeamRoutes : Enter(r, u, route)
             \/ \E r \in Requests : AdminEnter(r) \/ Turned(r)
             \/ TeamAtRest
             \/ UNCHANGED <<vars, teamVars>>
    <2>1. UNCHANGED vars
      BY <1>2 DEF Enter, AdminEnter, Admit, Turned, TeamAtRest, AtRest
    <2> QED
      BY <2>1, StutterKeepsTypes
  <1>3. ASSUME NEW c \in Clients, PoolStep(c)
        PROVE  SimInv'
    BY <1>3, AccountKeepsTypes DEF PoolStep, AccountStep, apiVars, workerVars
  <1>4. ASSUME NEW w \in Workers, TeamPushStep(w)
        PROVE  SimInv'
    BY <1>4, PushKeepsTypes DEF TeamPushStep
  <1>5. CASE ClockStep
    BY <1>5, ClockKeepsTypes DEF ClockStep, apiVars, workerVars
  <1> QED
    BY <1>1, <1>2, <1>3, <1>4, <1>5 DEF TeamNext
-----------------------------------------------------------------------------
\* what is stored of a simulation stays stored until it is condemned
Keeps ==
    \A s \in SimIds \ condemned :
        /\ config[s] # Absent => config'[s] # Absent
        /\ trail[s] # Absent => trail'[s] # Absent
        /\ cost[s] # Absent => cost'[s] # Absent

\* messages, jobs and status events are of complete simulations only
Dispatches ==
    \A s \in SimIds \ condemned' :
        /\ queue'[s] > 0 => queue[s] > 0 \/ Complete(s)
        /\ \A w \in Workers : job'[w].sid = s => Complete(s)
        /\ \/ trail'[s] = trail[s]
           \/ Complete(s)
           \/ StatusOf(s)' = "pending"

\* every step does this
LEMMA DispatchMove ==
    ASSUME DispatchInv, SimInv', condemned \subseteq condemned', Keeps, Dispatches,
           \A q \in Requests : req'[q] = req[q] \/ (Covered(req[q]) /\ Targeted(req[q]))'
    PROVE  DispatchInv'
  <1>1. \A s \in SimIds \ condemned' : Complete(s) => Complete(s)'
    BY DEF Keeps, Complete
  <1>2. ASSUME NEW q \in Requests, req'[q] = req[q]
        PROVE  Covered(req[q])'
    BY <1>1, <1>2 DEF DispatchInv, Covered, Keeps
  <1>3. ASSUME NEW q \in Requests, req'[q] = req[q]
        PROVE  Targeted(req[q])'
    BY <1>3 DEF DispatchInv, Targeted
  <1>4. ASSUME NEW s \in SimIds \ condemned'
        PROVE  /\ queue'[s] > 0 => Complete(s)'
               /\ \A w \in Workers : job'[w].sid = s => Complete(s)'
               /\ trail'[s] # Absent /\ StatusOf(s)' # "pending" => Complete(s)'
    BY <1>1 DEF DispatchInv, Dispatches, StatusOf
  <1> QED
    BY <1>2, <1>3, <1>4 DEF DispatchInv

\* a step that stores and sends nothing
LEMMA DispatchQuiet ==
    ASSUME DispatchInv, SimInv', UNCHANGED simVars, job' = job, condemned \subseteq condemned',
           \A q \in Requests : req'[q] = req[q] \/ (Covered(req[q]) /\ Targeted(req[q]))'
    PROVE  DispatchInv'
  <1>1. Keeps
    BY DEF Keeps, simVars
  <1>2. Dispatches
    BY DEF Dispatches, simVars, DispatchInv
  <1> QED
    BY <1>1, <1>2, DispatchMove

\* a request that is over or has just begun is covered
LEMMA BlankIsCovered ==
    ASSUME NEW q, q.doomed = {}, q.at \notin {"create_status", "create_cost", "delete_list"},
           q.at \notin Resuming
    PROVE  Covered(q) /\ Targeted(q)
  BY DEF Covered, Targeted

\* the request has taken a step that keeps what it deletes
LEMMA SameTargets ==
    ASSUME DispatchInv, NEW r \in Requests, condemned \subseteq condemned',
           req'[r].doomed \subseteq req[r].doomed, req'[r].at # "delete_list"
    PROVE  Targeted(req[r])'
  BY DEF DispatchInv, Targeted

LEMMA DispatchEnd ==
    ASSUME DispatchInv, SimInv', NEW r \in Requests, Finish(r), Keeps, Dispatches,
           condemned \subseteq condemned'
    PROVE  DispatchInv'
  <1>1. /\ \A q \in Requests : q # r => req'[q] = req[q]
        /\ req'[r].at = "idle" /\ req'[r].doomed = {}
    BY RequestFacts DEF DispatchInv, Finish, NoRequest
  <1>2. (Covered(req[r]) /\ Targeted(req[r]))'
    BY <1>1 DEF Covered, Targeted, Resuming
  <1> QED
    BY <1>1, <1>2, DispatchMove

LEMMA BlobsAreNotAbsent ==
    /\ \A e \in Estimates : e # Absent
    /\ \A record \in CostRecord : record # Absent
    /\ \A events \in Seq(Status) : events # Absent
  BY AbsentIsNoBlob, EstimatesAssumption

\* a request goes on to a stage it is covered for
LEMMA DispatchGo ==
    ASSUME DispatchInv, SimInv', NEW r \in Requests, NEW stage, Go(r, stage),
           Keeps, Dispatches, condemned \subseteq condemned', stage # "delete_list",
           req[r].sid \in SimIds \ condemned' =>
              /\ stage \in {"create_status", "create_cost"} => config'[req[r].sid] # Absent
              /\ stage = "create_cost" => trail'[req[r].sid] # Absent
              /\ stage \in Resuming => Complete(req[r].sid)
                                         \/ /\ config'[req[r].sid] # Absent
                                            /\ trail'[req[r].sid] # Absent
                                            /\ cost'[req[r].sid] # Absent
    PROVE  DispatchInv'
  <1>1. /\ \A q \in Requests : q # r => req'[q] = req[q]
        /\ req'[r].at = stage /\ req'[r].sid = req[r].sid
        /\ req'[r].doomed = req[r].doomed
    BY GoIs DEF DispatchInv
  <1>2. Targeted(req[r])'
    BY <1>1, SameTargets
  <1>3. Covered(req[r])'
    BY <1>1 DEF Covered, Complete, Keeps
  <1> QED
    BY <1>1, <1>2, <1>3, DispatchMove

\* the end, or the acceptance, of a request that stores nothing
LEMMA DispatchAccept ==
    ASSUME DispatchInv, SimInv', NEW r \in Requests, NEW kind, NEW new, Accept(r, kind, new),
           UNCHANGED simVars, job' = job, condemned \subseteq condemned',
           new.doomed = {},
           new.at \notin {"create_status", "create_cost"},
           new.at = "delete_list" => new.sids \subseteq condemned',
           new.at \in Resuming /\ new.sid \in SimIds \ condemned => Complete(new.sid)
    PROVE  DispatchInv'
  <1>1. /\ \A q \in Requests : q # r => req'[q] = req[q]
        /\ req'[r] = new
    BY RequestFacts DEF DispatchInv, Accept
  <1>2. (Covered(req[r]) /\ Targeted(req[r]))'
    BY <1>1 DEF Covered, Targeted, Complete, simVars
  <1> QED
    BY <1>1, <1>2, DispatchQuiet

\* a step that stores and sends nothing keeps what is stored
LEMMA QuietKeeps ==
    ASSUME DispatchInv, UNCHANGED simVars, job' = job, condemned \subseteq condemned'
    PROVE  Keeps /\ Dispatches
  BY DEF Keeps, Dispatches, DispatchInv, simVars

LEMMA DispatchCreate ==
    ASSUME DispatchInv, SimInv', NEW r \in Requests, create_team_simulation(r), job' = job
    PROVE  DispatchInv'
  <1>1. /\ condemned' = condemned
        /\ req[r] \in ReqType /\ Remembers(req[r])
        /\ config \in [SimIds -> Estimates \cup {Absent}]
        /\ trail \in [SimIds -> Seq(Status) \cup {Absent}]
        /\ cost \in [SimIds -> CostRecord \cup {Absent}]
    BY RequestFacts
    DEF create_team_simulation, Steps, teamVars, DispatchInv, SimInv, SimulationTypeOK
  <1>2. ASSUME NEW s \in SimIds, NEW e \in Estimates, CreateStart(r, s, e)
        PROVE  DispatchInv'
    BY <1>1, <1>2, DispatchAccept DEF CreateStart, NoRequest, Resuming
  <1>3. CASE CreateAdmit(r) \/ Reject(r)
    <2>1. Keeps /\ Dispatches
      BY <1>1, <1>3, QuietKeeps DEF CreateAdmit, Reject
    <2>2. CASE Finish(r)
      BY <1>1, <2>1, <2>2, DispatchEnd
    <2>3. CASE Go(r, "create_debit")
      BY <1>1, <2>1, <2>3, DispatchGo DEF Resuming
    <2> QED
      BY <1>3, <2>2, <2>3 DEF CreateAdmit, Reject
  <1>4. CASE CreateSaveConfig(r)
    <2>1. req[r].sid \in SimIds /\ req[r].estimate \in Estimates
      BY <1>1, <1>4 DEF CreateSaveConfig, At, Remembers, Submitting, Billing
    <2>2. config' = [config EXCEPT ![req[r].sid] = req[r].estimate]
      BY <1>4 DEF CreateSaveConfig
    <2>3. Keeps /\ Dispatches
      BY <1>1, <1>4, <2>1, <2>2, BlobsAreNotAbsent
      DEF CreateSaveConfig, Keeps, Dispatches, DispatchInv
    <2>4. config'[req[r].sid] # Absent
      BY <1>1, <2>1, <2>2, BlobsAreNotAbsent
    <2> QED
      BY <1>1, <1>4, <2>3, <2>4, DispatchGo DEF CreateSaveConfig, Resuming
  <1>5. CASE CreateSaveStatus(r)
    <2> DEFINE first == <<"pending">>
    <2>1. req[r].sid \in SimIds /\ req[r].at = "create_status"
      BY <1>1, <1>5 DEF CreateSaveStatus, At, Remembers, Submitting, Billing
    <2>2. first # Absent /\ Last(first) = "pending"
      <3>1. first \in Seq(Status)
        BY DEF Status
      <3> QED
        BY <3>1, BlobsAreNotAbsent DEF Last
    <2>3. trail' = [trail EXCEPT ![req[r].sid] = first]
      BY <1>5 DEF CreateSaveStatus
    <2> HIDE DEF first
    <2>4. Keeps
      BY <1>1, <1>5, <2>2, <2>3 DEF CreateSaveStatus, Keeps
    <2>5. Dispatches
      BY <1>1, <1>5, <2>2, <2>3 DEF CreateSaveStatus, Dispatches, DispatchInv, StatusOf
    <2>6. trail'[req[r].sid] # Absent
      BY <1>1, <2>1, <2>2, <2>3
    <2>7. req[r].sid \in SimIds \ condemned => config'[req[r].sid] # Absent
      BY <1>5, <2>1 DEF CreateSaveStatus, DispatchInv, Covered
    <2> QED
      BY <1>1, <1>5, <2>4, <2>5, <2>6, <2>7, DispatchGo DEF CreateSaveStatus, Resuming
  <1>6. CASE CreateSaveCost(r)
    <2>1. req[r].sid \in SimIds /\ req[r].at = "create_cost"
      BY <1>1, <1>6 DEF CreateSaveCost, At, Remembers, Submitting, Billing
    <2>2. NewCost(r) # Absent
      BY <2>1, NewCostType, BlobsAreNotAbsent DEF DispatchInv, Billing
    <2>3. cost' = [cost EXCEPT ![req[r].sid] = NewCost(r)]
      BY <1>6 DEF CreateSaveCost
    <2>4. Keeps /\ Dispatches
      BY <1>1, <1>6, <2>2, <2>3 DEF CreateSaveCost, Keeps, Dispatches, DispatchInv
    <2>5. cost'[req[r].sid] # Absent
      BY <1>1, <2>1, <2>2, <2>3
    <2>6. req[r].sid \in SimIds \ condemned =>
             config'[req[r].sid] # Absent /\ trail'[req[r].sid] # Absent
      BY <1>6, <2>1 DEF CreateSaveCost, DispatchInv, Covered
    <2> QED
      BY <1>1, <1>6, <2>4, <2>5, <2>6, DispatchGo DEF CreateSaveCost, Resuming
  <1>7. CASE req[r].kind = "create" /\ Trigger(r)
    <2>1. req[r].sid \in SimIds /\ req[r].at = "publish"
      BY <1>1, <1>7 DEF Trigger, At, Remembers, Submitting, Billing
    <2>2. req[r].sid \notin condemned => Complete(req[r].sid)
      BY <2>1 DEF DispatchInv, Covered, Resuming
    <2>3. Keeps /\ Dispatches
      BY <1>1, <1>7, <2>1, <2>2
      DEF Trigger, Publish, Keeps, Dispatches, DispatchInv, SimInv, SimulationTypeOK
    <2> QED
      BY <1>1, <1>7, <2>3, DispatchEnd DEF Trigger
  <1> QED
    BY <1>2, <1>3, <1>4, <1>5, <1>6, <1>7 DEF create_team_simulation, Steps

LEMMA DispatchRetry ==
    ASSUME DispatchInv, SimInv', NEW r \in Requests, retry_team_simulation(r), job' = job
    PROVE  DispatchInv'
  <1>1. /\ condemned' = condemned
        /\ req[r] \in ReqType /\ Remembers(req[r]) /\ req \in [Requests -> ReqType]
        /\ trail \in [SimIds -> Seq(Status) \cup {Absent}]
        /\ cost \in [SimIds -> CostRecord \cup {Absent}]
    BY RequestFacts
    DEF retry_team_simulation, Steps, teamVars, DispatchInv, SimInv, SimulationTypeOK
  <1>2. req[r].at \in Resuming /\ req[r].sid \in SimIds \ condemned => Complete(req[r].sid)
    BY DEF DispatchInv, Covered
  <1>3. ASSUME NEW s \in SimIds, RetryStart(r, s)
        PROVE  DispatchInv'
    <2>1. s \notin condemned => Complete(s)
      BY <1>3 DEF RetryStart, DispatchInv
    <2> QED
      BY <1>1, <1>3, <2>1, DispatchAccept DEF RetryStart, NoRequest
  <1>4. CASE RetryAdmit(r) \/ RetryDebit(r) \/ AppendRead(r)
    <2>1. UNCHANGED simVars /\ req[r].at \in Resuming
      BY <1>4 DEF RetryAdmit, RetryDebit, AppendRead, At, Resuming
    <2>2. CASE Finish(r)
      BY <1>1, <2>1, <2>2, QuietKeeps, DispatchEnd
    <2>3. CASE ~Finish(r)
      <3>1. /\ \A q \in Requests : q # r => req'[q] = req[q]
            /\ req'[r].at \in Resuming /\ req'[r].sid = req[r].sid
            /\ req'[r].doomed = req[r].doomed
        <4>1. CASE RetryAdmit(r)
          BY <1>1, <2>3, <4>1 DEF RetryAdmit, ReqType, Resuming
        <4>2. CASE RetryDebit(r)
          BY <4>2, GoIs DEF RetryDebit, Resuming, DispatchInv
        <4>3. CASE AppendRead(r)
          BY <1>1, <4>3 DEF AppendRead, ReqType, Resuming
        <4> QED
          BY <1>4, <4>1, <4>2, <4>3
      <3>2. Targeted(req[r])'
        BY <1>1, <3>1, SameTargets DEF Resuming
      <3>3. Covered(req[r])'
        BY <1>1, <1>2, <2>1, <3>1 DEF Covered, Complete, Resuming, simVars
      <3> QED
        BY <1>1, <2>1, <3>1, <3>2, <3>3, DispatchQuiet
    <2> QED
      BY <2>2, <2>3
  <1>5. CASE Reject(r)
    BY <1>1, <1>5, QuietKeeps, DispatchEnd DEF Reject
  <1>6. CASE RetrySaveCost(r)
    <2>1. req[r].sid \in SimIds /\ req[r].at = "retry_debit"
      BY <1>1, <1>6 DEF RetrySaveCost, At, Remembers, Submitting, Billing
    <2>2. NewCost(r) # Absent
      BY <2>1, NewCostType, BlobsAreNotAbsent DEF DispatchInv, Billing
    <2>3. cost' = [cost EXCEPT ![req[r].sid] = NewCost(r)]
      BY <1>6 DEF RetrySaveCost
    <2>4. Keeps /\ Dispatches
      BY <1>1, <1>6, <2>2, <2>3 DEF RetrySaveCost, Keeps, Dispatches, DispatchInv
    <2> QED
      BY <1>1, <1>2, <1>6, <2>1, <2>4, DispatchGo DEF RetrySaveCost, Resuming
  <1>7. CASE AppendWrite(r)
    <2> DEFINE longer == Append(req[r].events, "retried")
    <2>1. req[r].sid \in SimIds /\ req[r].at = "append_write"
      BY <1>1, <1>7 DEF AppendWrite, At, Remembers, Submitting, Billing
    <2>2. longer # Absent
      BY <1>1, AppendType, BlobsAreNotAbsent DEF ReqType, Status
    <2>3. trail' = [trail EXCEPT ![req[r].sid] = longer]
      BY <1>7 DEF AppendWrite
    <2> HIDE DEF longer
    <2>4. Keeps
      BY <1>1, <1>7, <2>2, <2>3 DEF AppendWrite, Keeps
    <2>5. Dispatches
      BY <1>1, <1>2, <1>7, <2>1, <2>3 DEF AppendWrite, Dispatches, DispatchInv, Resuming
    <2> QED
      BY <1>1, <1>2, <1>7, <2>1, <2>4, <2>5, DispatchGo DEF AppendWrite, Resuming
  <1>8. CASE req[r].kind = "retry" /\ Trigger(r)
    <2>1. req[r].sid \in SimIds /\ req[r].at = "publish"
      BY <1>1, <1>8 DEF Trigger, At, Remembers, Submitting, Billing
    <2>2. req[r].sid \notin condemned => Complete(req[r].sid)
      BY <1>2, <2>1 DEF Resuming
    <2>3. Keeps /\ Dispatches
      BY <1>1, <1>8, <2>1, <2>2
      DEF Trigger, Publish, Keeps, Dispatches, DispatchInv, SimInv, SimulationTypeOK
    <2> QED
      BY <1>1, <1>8, <2>3, DispatchEnd DEF Trigger
  <1> QED
    BY <1>3, <1>4, <1>5, <1>6, <1>7, <1>8 DEF retry_team_simulation, Steps

\* a delete takes blobs of condemned simulations only
LEMMA DispatchDeleteNext ==
    ASSUME DispatchInv, SimInv', NEW r \in Requests, DeleteNext(r), job' = job,
           condemned' = condemned
    PROVE  DispatchInv'
  <1>1. /\ req[r] \in ReqType /\ req \in [Requests -> ReqType]
        /\ config \in [SimIds -> Estimates \cup {Absent}]
        /\ trail \in [SimIds -> Seq(Status) \cup {Absent}]
        /\ cost \in [SimIds -> CostRecord \cup {Absent}]
    BY RequestFacts DEF DispatchInv, SimInv, SimulationTypeOK
  <1>2. Keeps /\ Dispatches
    <2>1. CASE UNCHANGED <<blobs, retired>>
      BY <2>1, QuietKeeps DEF DeleteNext, blobs, simVars
    <2>2. ASSUME NEW x \in req[r].doomed, DeleteBlob(x)
          PROVE  Keeps /\ Dispatches
      <3>1. x[1] \in condemned
        BY DEF DispatchInv, Targeted
      <3>2. \A s \in SimIds \ condemned :
               config'[s] = config[s] /\ trail'[s] = trail[s] /\ cost'[s] = cost[s]
        BY <1>1, <2>2, <3>1 DEF DeleteBlob
      <3> QED
        BY <3>2 DEF DeleteNext, Keeps, Dispatches, DispatchInv
    <2> QED
      BY <2>1, <2>2 DEF DeleteNext
  <1>3. CASE Finish(r)
    BY <1>2, <1>3, DispatchEnd
  <1>4. CASE ~Finish(r)
    <2>1. PICK x \in req[r].doomed : req' = [req EXCEPT ![r].doomed = @ \ {x}]
      BY <1>4 DEF DeleteNext
    <2>2. /\ \A q \in Requests : q # r => req'[q] = req[q]
          /\ req'[r].at = "delete_next" /\ req'[r].doomed \subseteq req[r].doomed
      BY <1>1, <2>1 DEF DeleteNext, At, ReqType
    <2>3. Targeted(req[r])'
      BY <2>2, SameTargets
    <2>4. Covered(req[r])'
      BY <2>2 DEF Covered, Resuming
    <2> QED
      BY <1>2, <2>2, <2>3, <2>4, DispatchMove
  <1> QED
    BY <1>3, <1>4

LEMMA DispatchDelete ==
    ASSUME DispatchInv, SimInv', NEW r \in Requests, job' = job,
           delete_team_simulation(r) \/ estimate_team_simulation(r) \/ TeamAbort(r)
    PROVE  DispatchInv'
  <1>1. ASSUME NEW s \in SimIds, DeleteStart(r, s), condemned' = condemned \cup {s}
        PROVE  DispatchInv'
    BY <1>1, DispatchAccept DEF DeleteStart, NoRequest, Resuming
  <1>2. CASE DeleteList(r) /\ condemned' = condemned
    <2>1. /\ \A q \in Requests : q # r => req'[q] = req[q]
          /\ req[r].at = "delete_list"
          /\ req'[r].at \in {"wipe_account", "delete_next"}
          /\ req'[r].doomed = BlobsUnder(req[r].sids)
      BY <1>2, RequestFacts DEF DeleteList, At, ReqType, DispatchInv
    <2>2. req[r].sids \subseteq condemned
      BY <2>1 DEF DispatchInv, Targeted
    <2>3. (Covered(req[r]) /\ Targeted(req[r]))'
      BY <1>2, <2>1, <2>2 DEF Covered, Targeted, Resuming, BlobsUnder
    <2> QED
      BY <1>2, <2>1, <2>3, DispatchQuiet DEF DeleteList
  <1>3. CASE DeleteNext(r) /\ condemned' = condemned
    BY <1>3, DispatchDeleteNext
  <1>4. CASE ViewStart(r) /\ condemned' = condemned
    BY <1>4, DispatchAccept DEF ViewStart, NoRequest, Resuming
  <1>5. CASE (ViewEnd(r) \/ Abort(r)) /\ condemned' = condemned
    BY <1>5, QuietKeeps, DispatchEnd DEF ViewEnd, Abort
  <1> QED
    BY <1>1, <1>2, <1>3, <1>4, <1>5
    DEF delete_team_simulation, estimate_team_simulation, TeamAbort, Steps, teamVars

LEMMA DispatchDissolve ==
    ASSUME DispatchInv, SimInv', NEW r \in Requests, delete_team(r), job' = job,
           condemned \subseteq SimIds
    PROVE  DispatchInv'
  <1>1. CASE DissolveStart(r)
    BY <1>1, DispatchAccept DEF DissolveStart, NoRequest, Resuming
  <1>2. CASE DissolveList(r)
    <2>1. /\ \A q \in Requests : q # r => req'[q] = req[q]
          /\ req'[r].at \in {"dissolve_members", "dissolve_account"}
          /\ req'[r].doomed = BlobsUnder(SimIds)
          /\ condemned' = SimIds
      BY <1>2, RequestFacts DEF DissolveList, ReqType, DispatchInv
    <2>2. (Covered(req[r]) /\ Targeted(req[r]))'
      BY <2>1 DEF Covered, Targeted, Resuming, BlobsUnder
    <2> QED
      BY <1>2, <2>1, <2>2, DispatchQuiet DEF DissolveList
  <1>3. CASE DissolveAccount(r) \/ DissolveMember(r)
    <2>1. UNCHANGED simVars /\ condemned' = condemned
      BY <1>3 DEF DissolveAccount, DissolveMember, teamVars
    <2>2. Keeps /\ Dispatches
      BY <2>1, QuietKeeps
    <2>3. CASE Finish(r)
      BY <2>1, <2>2, <2>3, DispatchEnd
    <2>4. CASE req' = req
      BY <2>1, <2>4, DispatchQuiet
    <2>5. ASSUME NEW stage \in {"dissolve_members", "delete_next"}, Go(r, stage)
          PROVE  DispatchInv'
      BY <2>1, <2>2, <2>5, DispatchGo DEF Resuming
    <2> QED
      BY <1>3, <2>3, <2>4, <2>5 DEF DissolveAccount, DissolveMember
  <1>4. CASE DissolveBlobs(r)
    BY <1>4, DispatchDeleteNext DEF DissolveBlobs
  <1> QED
    BY <1>1, <1>2, <1>3, <1>4 DEF delete_team

LEMMA DispatchPush ==
    ASSUME DispatchInv, SimInv', NEW w \in Workers, PushStep(w), condemned' = condemned
    PROVE  DispatchInv'
  <1>1. /\ req' = req
        /\ queue \in [SimIds -> Nat]
        /\ trail \in [SimIds -> Seq(Status) \cup {Absent}]
        /\ cost \in [SimIds -> CostRecord \cup {Absent}]
    BY DEF PushStep, apiVars, DispatchInv, SimInv, SimulationTypeOK
  <1>2. ASSUME NEW t \in SimIds, Deliver(w, t)
        PROVE  DispatchInv'
    <2>1. /\ job'[w].sid = t /\ queue[t] > 0
          /\ \A v \in Workers : v # w => job'[v] = job[v]
      BY <1>2, WorkerFacts DEF Deliver, NoJob, DispatchInv
    <2>2. Keeps
      BY <1>2 DEF Deliver, blobs, Keeps
    <2>3. Dispatches
      BY <1>1, <1>2, <2>1 DEF Deliver, blobs, Dispatches, DispatchInv
    <2> QED
      BY <1>1, <2>2, <2>3, DispatchMove
  <1>3. CASE WorkerStep(w) \/ Crash(w) \/ Redeliver(w) \/ StorageRaises(w)
    <2>1. /\ \A v \in Workers : v # w => job'[v] = job[v]
          /\ job'[w].sid \in {job[w].sid, Absent}
      <3>1. CASE SaveResults(w)
        BY <3>1, TurnIs DEF SaveResults, DispatchInv
      <3>2. CASE ~SaveResults(w)
        BY <1>3, <3>2, RunMoves, BillingMoves, FailMoves, FaultMoves
        DEF WorkerStep, DispatchInv, Moves
      <3> QED
        BY <3>1, <3>2
    <2>2. \A s \in SimIds \ condemned : s = job[w].sid => Complete(s)
      BY DEF DispatchInv
    <2>3. /\ job[w] \in JobType /\ Works(job[w], call[w])
          /\ job[w].at # "idle" => job[w].sid \in SimIds
      BY WorkerFacts DEF DispatchInv
    <2>4. Keeps
      <3>1. CASE WriteStatus(w)
        <4> DEFINE longer == Append(job[w].events, job[w].next)
        <4>1. longer # Absent
          BY <2>3, AppendType, BlobsAreNotAbsent DEF JobType
        <4>2. trail' = [trail EXCEPT ![job[w].sid] = longer]
          BY <3>1 DEF WriteStatus
        <4> HIDE DEF longer
        <4> QED
          BY <1>1, <3>1, <4>1, <4>2 DEF WriteStatus, Keeps
      <3>2. ASSUME NEW record \in CostRecord,
                   cost' = [cost EXCEPT ![job[w].sid] = record],
                   UNCHANGED <<config, trail>>
            PROVE  Keeps
        BY <1>1, <3>2, BlobsAreNotAbsent DEF Keeps
      <3>3. CASE SaveCost(w)
        <4> DEFINE record == [job[w].record EXCEPT !.actual_tokens = job[w].actual]
        <4>1. record \in CostRecord
          BY <2>3, <3>3 DEF SaveCost, On, Works, CostRecord
        <4>2. cost' = [cost EXCEPT ![job[w].sid] = record]
          BY <3>3 DEF SaveCost
        <4> HIDE DEF record
        <4> QED
          BY <3>2, <3>3, <4>1, <4>2 DEF SaveCost
      <3>4. CASE SaveRefund(w)
        <4> DEFINE record == [job[w].record EXCEPT !.refunded = TRUE]
        <4>1. record \in CostRecord
          BY <2>3, <3>4 DEF SaveRefund, On, Works, CostRecord
        <4>2. cost' = [cost EXCEPT ![job[w].sid] = record]
          BY <3>4 DEF SaveRefund
        <4> HIDE DEF record
        <4> QED
          BY <3>2, <3>4, <4>1, <4>2 DEF SaveRefund
      <3>5. CASE UNCHANGED <<config, trail, cost>>
        BY <3>5 DEF Keeps
      <3> QED
        BY <1>3, <3>1, <3>3, <3>4, <3>5
        DEF WorkerStep, ReadConfig, ReadStatus, Simulate, SaveResults, Reconcile, Overage,
            Partial, FailCost, Refunded, Ack, Crash, Redeliver, StorageRaises, simVars, blobs
    <2>5. \A s \in SimIds : s # job[w].sid => queue'[s] = queue[s] /\ trail'[s] = trail[s]
      <3>1. CASE UNCHANGED <<queue, trail>>
        BY <3>1
      <3>2. CASE WriteStatus(w)
        BY <1>1, <3>2 DEF WriteStatus
      <3>3. CASE Crash(w) \/ Redeliver(w)
        BY <1>1, <3>3 DEF Crash, Redeliver, Publish, blobs
      <3> QED
        BY <1>3, <3>1, <3>2, <3>3
        DEF WorkerStep, ReadConfig, ReadStatus, Simulate, SaveResults, Reconcile, Overage,
            Partial, SaveCost, FailCost, Refunded, SaveRefund, Ack, StorageRaises, simVars
    <2>6. Dispatches
      <3> SUFFICES ASSUME NEW s \in SimIds \ condemned
                   PROVE  /\ queue'[s] > 0 => queue[s] > 0 \/ Complete(s)
                          /\ \A v \in Workers : job'[v].sid = s => Complete(s)
                          /\ \/ trail'[s] = trail[s]
                             \/ Complete(s)
                             \/ StatusOf(s)' = "pending"
        BY DEF Dispatches
      <3>1. CASE s = job[w].sid
        BY <2>2, <3>1
      <3>2. CASE s # job[w].sid
        BY <2>1, <2>5, <3>2, NoIdIsAbsent DEF DispatchInv
      <3> QED
        BY <3>1, <3>2
    <2> QED
      BY <1>1, <2>4, <2>6, DispatchMove
  <1> QED
    BY <1>2, <1>3 DEF PushStep
-----------------------------------------------------------------------------
TeamInv == DispatchInv /\ condemned \subseteq SimIds

LEMMA InitDispatches == TeamInit => TeamInv
  <1> SUFFICES ASSUME TeamInit
               PROVE  TeamInv
    OBVIOUS
  <1>1. SimInv
    BY InitHasTypes DEF TeamInit
  <1>2. \A r \in Requests : req[r].at = "idle" /\ req[r].doomed = {}
    BY DEF TeamInit, Init, InitApi, NoRequest
  <1>3. \A r \in Requests : Covered(req[r]) /\ Targeted(req[r])
    BY <1>2, BlankIsCovered DEF Resuming
  <1>4. \A s \in SimIds : queue[s] = 0 /\ trail[s] = Absent
    BY DEF TeamInit, Init, InitSimulations
  <1>5. \A s \in SimIds, w \in Workers : job[w].sid # s
    BY NoIdIsAbsent DEF TeamInit, Init, InitWorkers, NoJob
  <1>6. condemned = {}
    BY DEF TeamInit
  <1> QED
    BY <1>1, <1>3, <1>4, <1>5, <1>6 DEF TeamInv, DispatchInv

LEMMA TeamNextDispatches ==
    ASSUME TeamInv, [TeamNext]_<<vars, teamVars>>
    PROVE  TeamInv'
  <1>1. DispatchInv /\ condemned \subseteq SimIds /\ SimInv'
    BY TeamKeepsTypes DEF TeamInv, DispatchInv
  <1>2. ASSUME NEW r \in Requests, TeamRequestStep(r)
        PROVE  TeamInv'
    <2>1. job' = job
      BY <1>2 DEF TeamRequestStep, workerVars
    <2>2. CASE create_team_simulation(r)
      BY <1>1, <2>1, <2>2, DispatchCreate
      DEF create_team_simulation, Steps, teamVars, TeamInv
    <2>3. CASE retry_team_simulation(r)
      BY <1>1, <2>1, <2>3, DispatchRetry DEF retry_team_simulation, Steps, teamVars, TeamInv
    <2>4. CASE delete_team_simulation(r) \/ estimate_team_simulation(r) \/ TeamAbort(r)
      BY <1>1, <2>1, <2>4, DispatchDelete
      DEF delete_team_simulation, estimate_team_simulation, TeamAbort, Steps, teamVars, TeamInv
    <2>5. CASE delete_team(r)
      BY <1>1, <2>1, <2>5, DispatchDissolve
      DEF delete_team, DissolveStart, DissolveList, DissolveAccount, DissolveMember,
          DissolveBlobs, teamVars, TeamInv
    <2> QED
      BY <1>2, <2>2, <2>3, <2>4, <2>5 DEF TeamRequestStep
  <1>3. ASSUME UNCHANGED <<simVars, req, job, condemned>>
        PROVE  TeamInv'
    BY <1>1, <1>3, DispatchQuiet DEF TeamInv
  <1>4. CASE \/ \E r \in Requests, u \in Members, route \in TeamRoutes : Enter(r, u, route)
             \/ \E r \in Requests : AdminEnter(r) \/ Turned(r)
             \/ TeamAtRest
             \/ UNCHANGED <<vars, teamVars>>
    BY <1>3, <1>4
    DEF Enter, AdminEnter, Admit, Turned, TeamAtRest, AtRest, vars, teamVars, apiVars,
        workerVars
  <1>5. ASSUME NEW c \in Clients, PoolStep(c)
        PROVE  TeamInv'
    BY <1>3, <1>5 DEF PoolStep, AccountStep, apiVars, workerVars, teamVars
  <1>6. ASSUME NEW w \in Workers, TeamPushStep(w)
        PROVE  TeamInv'
    BY <1>1, <1>6, DispatchPush DEF TeamPushStep, teamVars, TeamInv
  <1>7. CASE ClockStep /\ UNCHANGED teamVars
    BY <1>3, <1>7 DEF ClockStep, apiVars, workerVars, teamVars
  <1> QED
    BY <1>2, <1>4, <1>5, <1>6, <1>7 DEF TeamNext

(***************************************************************************)
(* Whatever messages are redelivered, submissions cut off, simulations     *)
(* deleted and teams dissolved: a message that a worker can receive names  *)
(* a simulation whose config, status and cost record are all stored,       *)
(* unless somebody has set about deleting it.                              *)
(***************************************************************************)
THEOREM TeamRunsAreComplete == TeamSpec => []TeamDispatchesAreComplete
  <1>1. TeamInv /\ [TeamNext]_<<vars, teamVars>> => TeamInv'
    BY TeamNextDispatches
  <1>2. TeamInv => TeamDispatchesAreComplete
    BY DEF TeamInv, DispatchInv, Complete, TeamDispatchesAreComplete
  <1> QED
    BY InitDispatches, <1>1, <1>2, PTL DEF TeamSpec

-----------------------------------------------------------------------------
(***************************************************************************)
(* The runs that nobody will move on.  That somebody is at work on a run   *)
(* is not inductive: a worker with nothing left but its answer, or a       *)
(* request yet to be turned down, does not move it on.  What is counted    *)
(* here is the active runs that nobody is bound to move on.                *)
(***************************************************************************)
Live(s) == trail[s] # Absent /\ StatusOf(s) \in ACTIVE_STATUSES

\* request q has nothing but storing and publishing before it
Promises(q, s) == q.sid = s /\ q.at \in {"create_cost", "publish"}

\* job j has yet to give its simulation a status
Carries(j, s) == j.sid = s /\ j.at # "ack"

Kept(s) ==
    \/ queue[s] > 0
    \/ \E w \in Workers : Carries(job[w], s)
    \/ \E r \in Requests : Promises(req[r], s)

Loose == {s \in SimIds : Live(s) /\ ~Kept(s)}

RunStatuses == {"running", "done", "failed"}

StrandInv ==
    /\ \A w \in Workers : job[w].next \in RunStatuses
    /\ aborts \in Nat
    /\ IsFiniteSet(Loose)
    /\ Cardinality(Loose) <= aborts

\* a step that lets nobody off simulation s
Secures(s) == Live(s)' /\ ~Kept(s)' => Live(s) /\ ~Kept(s)

LEMMA SecuredStrands ==
    ASSUME StrandInv, aborts' = aborts, \A s \in SimIds : Secures(s),
           \A w \in Workers : job'[w].next \in RunStatuses
    PROVE  StrandInv'
  <1>1. Loose' \subseteq Loose
    BY DEF Loose, Secures
  <1>2. /\ IsFiniteSet(Loose') /\ Cardinality(Loose') <= Cardinality(Loose)
        /\ Cardinality(Loose) \in Nat /\ Cardinality(Loose') \in Nat
    BY <1>1, FS_Subset, FS_CardinalityType DEF StrandInv
  <1> HIDE DEF Loose
  <1> QED
    BY <1>2 DEF StrandInv

\* a request that sends no message
LEMMA RequestSecures ==
    ASSUME NEW r \in Requests, \A q \in Requests : q # r => req'[q] = req[q],
           job' = job, queue' = queue, NEW s \in SimIds,
           Live(s)' => Live(s) \/ Promises(req'[r], s),
           Promises(req[r], s) => Promises(req'[r], s)
    PROVE  Secures(s)
  <1>1. Kept(s) => Kept(s)'
    BY DEF Kept
  <1>2. Promises(req'[r], s) => Kept(s)'
    BY DEF Kept
  <1> QED
    BY <1>1, <1>2 DEF Secures

LEMMA UnpromisedSecures ==
    ASSUME NEW r \in Requests, \A q \in Requests : q # r => req'[q] = req[q],
           job' = job, UNCHANGED <<trail, queue>>, req[r].at \notin {"create_cost", "publish"}
    PROVE  \A s \in SimIds : Secures(s)
  BY RequestSecures DEF Live, StatusOf, Promises

\* the submission is over, and its message in the queue
LEMMA TriggerSecures ==
    ASSUME SimInv, NEW r \in Requests, Trigger(r), req[r].kind # "rerun", job' = job
    PROVE  \A s \in SimIds : Secures(s)
  <1>1. /\ Finish(r) /\ trail' = trail /\ req[r].sid \in SimIds
        /\ queue \in [SimIds -> Nat]
        /\ queue' = [queue EXCEPT ![req[r].sid] = @ + 1]
    BY RequestFacts
    DEF Trigger, Publish, At, Remembers, Submitting, SimInv, SimulationTypeOK
  <1>2. \A q \in Requests : q # r => req'[q] = req[q]
    BY <1>1, RequestFacts DEF Finish
  <1>3. ASSUME NEW s \in SimIds
        PROVE  Secures(s)
    <2>1. CASE s = req[r].sid
      <3>1. queue'[s] > 0
        BY <1>1, <2>1
      <3> QED
        BY <3>1 DEF Secures, Kept
    <2>2. CASE s # req[r].sid
      <3>1. queue'[s] = queue[s] /\ ~Promises(req[r], s)
        BY <1>1, <2>2 DEF Promises
      <3>2. Kept(s) => Kept(s)'
        BY <1>2, <3>1 DEF Kept
      <3> QED
        BY <1>1, <3>2 DEF Secures, Live, StatusOf
    <2> QED
      BY <2>1, <2>2
  <1> QED
    BY <1>3

LEMMA CreateSecures ==
    ASSUME SimInv, NEW r \in Requests, create_team_simulation(r), job' = job
    PROVE  \A s \in SimIds : Secures(s)
  <1>1. ASSUME NEW s \in SimIds, NEW e \in Estimates, CreateStart(r, s, e)
        PROVE  \A t \in SimIds : Secures(t)
    <2>1. \A q \in Requests : q # r => req'[q] = req[q]
      BY <1>1, RequestFacts DEF CreateStart, Accept
    <2>2. req[r].at = "idle" /\ UNCHANGED <<trail, queue>>
      BY <1>1 DEF CreateStart, Accept, NoRequest, simVars, blobs
    <2> QED
      BY <2>1, <2>2, UnpromisedSecures
  <1>2. CASE CreateAdmit(r) \/ Reject(r) \/ CreateSaveConfig(r)
    <2>1. /\ req[r].at \in {"create_account", "create_debit", "retry_debit"}
          /\ UNCHANGED <<trail, queue>>
      BY <1>2 DEF CreateAdmit, Reject, CreateSaveConfig, At, simVars, blobs
    <2>2. \A q \in Requests : q # r => req'[q] = req[q]
      BY <1>2, RequestFacts DEF CreateAdmit, Reject, CreateSaveConfig, Go, Finish
    <2> QED
      BY <2>1, <2>2, UnpromisedSecures
  <1>3. CASE CreateSaveStatus(r)
    <2>1. /\ \A q \in Requests : q # r => req'[q] = req[q]
          /\ req'[r].at = "create_cost" /\ req'[r].sid = req[r].sid
          /\ req[r].at = "create_status" /\ queue' = queue
      BY <1>3, GoIs DEF CreateSaveStatus, At
    <2>2. \A s \in SimIds : s # req[r].sid => trail'[s] = trail[s]
      BY <1>3 DEF CreateSaveStatus, SimInv, SimulationTypeOK
    <2>3. ASSUME NEW s \in SimIds
          PROVE  /\ Live(s)' => Live(s) \/ Promises(req'[r], s)
                 /\ ~Promises(req[r], s)
      BY <2>1, <2>2 DEF Live, StatusOf, Promises
    <2> QED
      BY <2>1, <2>3, RequestSecures
  <1>4. CASE CreateSaveCost(r)
    <2>1. /\ \A q \in Requests : q # r => req'[q] = req[q]
          /\ req'[r].at = "publish" /\ req'[r].sid = req[r].sid
          /\ UNCHANGED <<trail, queue>>
      BY <1>4, GoIs DEF CreateSaveCost
    <2>2. ASSUME NEW s \in SimIds
          PROVE  /\ Live(s)' => Live(s)
                 /\ Promises(req[r], s) => Promises(req'[r], s)
      BY <2>1 DEF Live, StatusOf, Promises
    <2> QED
      BY <2>1, <2>2, RequestSecures
  <1>5. CASE req[r].kind = "create" /\ Trigger(r)
    BY <1>5, TriggerSecures
  <1> QED
    BY <1>1, <1>2, <1>3, <1>4, <1>5 DEF create_team_simulation, Steps
LEMMA RetrySecures ==
    ASSUME SimInv, NEW r \in Requests, retry_team_simulation(r), job' = job
    PROVE  \A s \in SimIds : Secures(s)
  <1>1. req \in [Requests -> ReqType] /\ req[r] \in ReqType
    BY RequestFacts
  <1>2. ASSUME NEW s \in SimIds, RetryStart(r, s)
        PROVE  \A t \in SimIds : Secures(t)
    <2>1. /\ \A q \in Requests : q # r => req'[q] = req[q]
          /\ req[r].at = "idle" /\ UNCHANGED <<trail, queue>>
      BY <1>1, <1>2 DEF RetryStart, Accept, NoRequest, simVars
    <2> QED
      BY <2>1, UnpromisedSecures
  <1>3. CASE RetryAdmit(r) \/ RetryDebit(r) \/ Reject(r) \/ RetrySaveCost(r) \/ AppendRead(r)
    <2>1. /\ req[r].at \in {"retry_checks", "retry_account", "create_debit", "retry_debit",
                            "append_read"}
          /\ UNCHANGED <<trail, queue>>
      BY <1>3 DEF RetryAdmit, RetryDebit, Reject, RetrySaveCost, AppendRead, At, simVars
    <2>2. \A q \in Requests : q # r => req'[q] = req[q]
      BY <1>1, <1>3
      DEF RetryAdmit, RetryDebit, Reject, RetrySaveCost, AppendRead, Go, Finish
    <2> QED
      BY <2>1, <2>2, UnpromisedSecures
  <1>4. CASE AppendWrite(r)
    <2>1. /\ \A q \in Requests : q # r => req'[q] = req[q]
          /\ req'[r].at = "publish" /\ req'[r].sid = req[r].sid
          /\ req[r].at = "append_write" /\ queue' = queue
      BY <1>4, GoIs DEF AppendWrite, At
    <2>2. \A s \in SimIds : s # req[r].sid => trail'[s] = trail[s]
      BY <1>4 DEF AppendWrite, SimInv, SimulationTypeOK
    <2>3. ASSUME NEW s \in SimIds
          PROVE  /\ Live(s)' => Live(s) \/ Promises(req'[r], s)
                 /\ ~Promises(req[r], s)
      BY <2>1, <2>2 DEF Live, StatusOf, Promises
    <2> QED
      BY <2>1, <2>3, RequestSecures
  <1>5. CASE req[r].kind = "retry" /\ Trigger(r)
    BY <1>5, TriggerSecures
  <1> QED
    BY <1>2, <1>3, <1>4, <1>5 DEF retry_team_simulation, Steps

\* a delete makes no simulation live
LEMMA DeleteNextSecures ==
    ASSUME SimInv, NEW r \in Requests, DeleteNext(r), job' = job
    PROVE  \A s \in SimIds : Secures(s)
  <1>1. req \in [Requests -> ReqType] /\ req[r] \in ReqType /\ req[r].at = "delete_next"
    BY RequestFacts DEF DeleteNext, At
  <1>2. \A q \in Requests : q # r => req'[q] = req[q]
    BY <1>1 DEF DeleteNext, Finish
  <1>3. \A s \in SimIds : trail'[s] = trail[s] \/ trail'[s] = Absent
    BY DEF DeleteNext, DeleteBlob, blobs, SimInv, SimulationTypeOK
  <1>4. ASSUME NEW s \in SimIds
        PROVE  (Live(s)' => Live(s)) /\ ~Promises(req[r], s)
    BY <1>1, <1>3 DEF Live, StatusOf, Promises
  <1> QED
    BY <1>2, <1>4, RequestSecures DEF DeleteNext

LEMMA OtherRequestsSecure ==
    ASSUME SimInv, NEW r \in Requests, job' = job,
           delete_team_simulation(r) \/ estimate_team_simulation(r) \/ delete_team(r)
    PROVE  \A s \in SimIds : Secures(s)
  <1>1. req \in [Requests -> ReqType] /\ req[r] \in ReqType
    BY RequestFacts
  <1>2. ASSUME req[r].at \notin {"create_cost", "publish"}, UNCHANGED simVars,
               \A q \in Requests : q # r => req'[q] = req[q]
        PROVE  \A s \in SimIds : Secures(s)
    BY <1>2, UnpromisedSecures DEF simVars
  <1>3. ASSUME NEW kind, NEW new, Accept(r, kind, new), UNCHANGED simVars
        PROVE  \A s \in SimIds : Secures(s)
    BY <1>1, <1>2, <1>3 DEF Accept, NoRequest
  <1>4. CASE DeleteNext(r)
    BY <1>4, DeleteNextSecures
  <1>5. CASE DeleteList(r) \/ ViewEnd(r) \/ DissolveList(r) \/ DissolveAccount(r)
                 \/ DissolveMember(r)
    <2>1. req[r].at \notin {"create_cost", "publish"} /\ UNCHANGED simVars
      BY <1>5 DEF DeleteList, ViewEnd, DissolveList, DissolveAccount, DissolveMember, At
    <2>2. \A q \in Requests : q # r => req'[q] = req[q]
      BY <1>1, <1>5
      DEF DeleteList, ViewEnd, DissolveList, DissolveAccount, DissolveMember, Go, Finish
    <2> QED
      BY <1>2, <2>1, <2>2
  <1>6. CASE (\E s \in SimIds : DeleteStart(r, s)) \/ ViewStart(r) \/ DissolveStart(r)
    BY <1>3, <1>6 DEF DeleteStart, ViewStart, DissolveStart
  <1> QED
    BY <1>4, <1>5, <1>6
    DEF delete_team_simulation, estimate_team_simulation, delete_team, DissolveBlobs, Steps

\* a request that dies lets go of one simulation at most, and is counted
LEMMA AbortStrands ==
    ASSUME SimInv, StrandInv, NEW r \in Requests, Abort(r), job' = job
    PROVE  StrandInv'
  <1> DEFINE t == req[r].sid
  <1>1. /\ \A q \in Requests : q # r => req'[q] = req[q]
        /\ UNCHANGED <<trail, queue>> /\ aborts' = aborts + 1
    BY RequestFacts DEF Abort, Finish, simVars
  <1>2. ASSUME NEW s \in SimIds, s # t, Live(s)', ~Kept(s)'
        PROVE  Live(s) /\ ~Kept(s)
    <2>1. ~Promises(req[r], s)
      BY <1>2 DEF Promises
    <2>2. Kept(s) => Kept(s)'
      BY <1>1, <2>1 DEF Kept
    <2> QED
      BY <1>1, <1>2, <2>2 DEF Live, StatusOf
  <1> HIDE DEF t
  <1>3. Loose' \subseteq Loose \cup {t}
    BY <1>2 DEF Loose
  <1> DEFINE loose == Loose
             bound == loose \cup {t}
  <1>4. /\ IsFiniteSet(loose) /\ Cardinality(loose) \in Nat
        /\ Cardinality(loose) <= aborts /\ aborts \in Nat
    BY FS_CardinalityType DEF StrandInv
  <1> HIDE DEF loose
  <1>5. IsFiniteSet(bound) /\ Cardinality(bound) <= Cardinality(loose) + 1
    BY <1>4, FS_AddElement
  <1>6. Loose' \subseteq bound
    BY <1>3 DEF loose
  <1>7. /\ IsFiniteSet(Loose') /\ Cardinality(Loose') <= Cardinality(bound)
        /\ Cardinality(Loose') \in Nat /\ Cardinality(bound) \in Nat
    BY <1>5, <1>6, FS_Subset, FS_CardinalityType
  <1> HIDE DEF bound, Loose
  <1> QED
    BY <1>1, <1>4, <1>5, <1>7 DEF StrandInv
-----------------------------------------------------------------------------
\* worker w goes on with its simulation
Onward(w) ==
    /\ \A v \in Workers : v # w => job'[v] = job[v]
    /\ job'[w].sid = job[w].sid
    /\ job'[w].at # "ack"
    /\ job'[w].next = job[w].next \/ job'[w].next \in RunStatuses

LEMMA AnnounceOnward ==
    ASSUME SimInv, NEW w \in Workers, NEW status \in RunStatuses, Announce(w, status)
    PROVE  Onward(w)
  BY AnnounceIs DEF Onward

LEMMA TurnOnward ==
    ASSUME SimInv, NEW w \in Workers, NEW stage, Turn(w, stage), stage # "ack"
    PROVE  Onward(w)
  BY WorkerFacts DEF Turn, JobType, Onward

LEMMA ChargedOnward ==
    ASSUME SimInv, NEW w \in Workers, NEW tokens, Charged(w, tokens)
    PROVE  Onward(w)
  BY WorkerFacts DEF Charged, JobType, Onward

LEMMA StepsOnward ==
    ASSUME SimInv, NEW w \in Workers,
           \/ ReadConfig(w) \/ ReadStatus(w) \/ Simulate(w) \/ SaveResults(w)
           \/ Reconcile(w) \/ Overage(w) \/ Partial(w) \/ SaveCost(w)
           \/ FailCost(w) \/ Refunded(w) \/ SaveRefund(w)
    PROVE  Onward(w)
  <1>1. job \in [Workers -> JobType] /\ job[w] \in JobType
    BY WorkerFacts
  <1>2. \A status \in RunStatuses : Announce(w, status) => Onward(w)
    BY AnnounceOnward
  <1>3. \A stage : Turn(w, stage) /\ stage # "ack" => Onward(w)
    BY TurnOnward
  <1>4. \A tokens : Charged(w, tokens) => Onward(w)
    BY ChargedOnward
  <1>5. ASSUME NEW stage, stage # "ack", NEW record,
               job' = [job EXCEPT ![w].at = stage, ![w].record = record]
        PROVE  Onward(w)
    BY <1>1, <1>5 DEF JobType, Onward
  <1>6. CASE ReadConfig(w) \/ SaveResults(w) \/ SaveCost(w) \/ Refunded(w) \/ SaveRefund(w)
    BY <1>2, <1>3, <1>6
    DEF ReadConfig, SaveResults, SaveCost, Refunded, SaveRefund, RunStatuses
  <1>7. CASE ReadStatus(w)
    BY <1>1, <1>7 DEF ReadStatus, JobType, Onward
  <1>8. CASE Simulate(w)
    <2>1. ASSUME NEW a \in Actuals, job' = [job EXCEPT ![w].at = "results", ![w].actual = a]
          PROVE  Onward(w)
      BY <1>1, <2>1 DEF JobType, Onward
    <2> QED
      BY <1>3, <1>8, <2>1 DEF Simulate
  <1>9. CASE Reconcile(w)
    <2>1. \/ Announce(w, "done")
          \/ \E stage, record : /\ stage # "ack"
                                /\ job' = [job EXCEPT ![w].at = stage, ![w].record = record]
      BY <1>9 DEF Reconcile
    <2> QED
      BY <1>2, <1>5, <2>1 DEF RunStatuses
  <1>10. CASE Overage(w)
    BY <1>2, <1>3, <1>4, <1>10 DEF Overage, RunStatuses
  <1>11. CASE Partial(w)
    BY <1>2, <1>4, <1>11 DEF Partial, RunStatuses
  <1>12. CASE FailCost(w)
    <2>1. \/ Announce(w, "failed")
          \/ \E record : job' = [job EXCEPT ![w].at = "refund", ![w].record = record]
      BY <1>12 DEF FailCost
    <2> QED
      BY <1>2, <1>5, <2>1 DEF RunStatuses
  <1> QED
    BY <1>6, <1>7, <1>8, <1>9, <1>10, <1>11, <1>12

LEMMA OnwardSecures ==
    ASSUME SimInv, StrandInv, NEW w \in Workers, Onward(w), UNCHANGED <<trail, queue, req>>
    PROVE  /\ \A s \in SimIds : Secures(s)
           /\ \A v \in Workers : job'[v].next \in RunStatuses
  <1>1. ASSUME NEW s \in SimIds
        PROVE  Kept(s) => Kept(s)'
    BY DEF Kept, Carries, Onward
  <1>2. \A s \in SimIds : Secures(s)
    BY <1>1 DEF Secures, Live, StatusOf
  <1> QED
    BY <1>2 DEF StrandInv, Onward

\* the worker that writes a status goes on, or the run is over
LEMMA WriteStatusSecures ==
    ASSUME SimInv, StrandInv, NEW w \in Workers, WriteStatus(w), req' = req
    PROVE  /\ \A s \in SimIds : Secures(s)
           /\ \A v \in Workers : job'[v].next \in RunStatuses
  <1>1. /\ job \in [Workers -> JobType] /\ job[w] \in JobType
        /\ job[w].at = "status_write" /\ job[w].sid \in SimIds
    BY WorkerFacts DEF WriteStatus, On
  <1>2. /\ \A v \in Workers : v # w => job'[v] = job[v]
        /\ job'[w].at = IF job[w].next = "running" THEN "simulate" ELSE "ack"
        /\ job'[w].sid = job[w].sid /\ job'[w].next = job[w].next
        /\ queue' = queue
    BY <1>1 DEF WriteStatus, JobType
  <1> DEFINE longer == Append(job[w].events, job[w].next)
  <1>3. Last(longer) = job[w].next
    BY <1>1, AppendType DEF JobType
  <1>4. trail' = [trail EXCEPT ![job[w].sid] = longer] /\ DOMAIN trail = SimIds
    BY DEF WriteStatus, SimInv, SimulationTypeOK
  <1> HIDE DEF longer
  <1>5. ASSUME NEW s \in SimIds
        PROVE  Secures(s)
    <2>1. CASE s # job[w].sid
      <3>1. trail'[s] = trail[s]
        BY <1>4, <2>1
      <3>2. Kept(s) => Kept(s)'
        BY <1>2, <2>1 DEF Kept, Carries
      <3> QED
        BY <3>1, <3>2 DEF Secures, Live, StatusOf
    <2>2. CASE s = job[w].sid /\ job[w].next = "running"
      <3>1. Carries(job[w], s)'
        BY <1>2, <2>2 DEF Carries
      <3> QED
        BY <3>1 DEF Secures, Kept
    <2>3. CASE s = job[w].sid /\ job[w].next # "running"
      <3>1. Last(trail'[s]) \in {"done", "failed"}
        BY <1>1, <1>3, <1>4, <2>3 DEF StrandInv, RunStatuses
      <3>2. ~Live(s)'
        BY <3>1 DEF Live, StatusOf, ACTIVE_STATUSES
      <3> QED
        BY <3>2 DEF Secures
    <2> QED
      BY <2>1, <2>2, <2>3
  <1> QED
    BY <1>2, <1>5 DEF StrandInv

\* the worker lets go of its message, back to the topic or for good
LEMMA HandOverSecures ==
    ASSUME SimInv, StrandInv, NEW w \in Workers, req' = req,
           Ack(w) \/ Crash(w) \/ Redeliver(w) \/ \E s \in SimIds : Deliver(w, s)
    PROVE  /\ \A s \in SimIds : Secures(s)
           /\ \A v \in Workers : job'[v].next \in RunStatuses
  <1>1. /\ job \in [Workers -> JobType] /\ job[w] \in JobType /\ Works(job[w], call[w])
        /\ queue \in [SimIds -> Nat]
    BY WorkerFacts DEF SimInv, SimulationTypeOK
  <1>2. NoJob.next \in RunStatuses /\ NoJob.at = "idle" /\ NoJob.sid = Absent
    BY DEF NoJob, RunStatuses
  <1>3. trail' = trail
    BY DEF Ack, Crash, Redeliver, Deliver, simVars, blobs
  <1>4. \A v \in Workers : job'[v].next \in RunStatuses
    <2>1. \A v \in Workers : v # w => job'[v] = job[v]
      BY <1>1 DEF Ack, Crash, Redeliver, Deliver
    <2>2. job'[w].next \in {job[w].next, NoJob.next}
      BY <1>1 DEF Ack, Crash, Redeliver, Deliver, JobType
    <2> QED
      BY <1>2, <2>1, <2>2 DEF StrandInv
  <1>5. ASSUME NEW s \in SimIds, Kept(s), Ack(w)
        PROVE  Kept(s)'
    <2>1. ~Carries(job[w], s) /\ \A v \in Workers : v # w => job'[v] = job[v]
      BY <1>5 DEF Ack, On, Carries
    <2>2. queue' = queue
      BY <1>5 DEF Ack, simVars
    <2> QED
      BY <1>5, <2>1, <2>2 DEF Kept
  <1>6. ASSUME NEW s \in SimIds, Kept(s), Crash(w) \/ Redeliver(w)
        PROVE  Kept(s)'
    <2>1. /\ job[w].sid \in SimIds
          /\ queue' = [queue EXCEPT ![job[w].sid] = @ + 1]
          /\ \A v \in Workers : v # w => job'[v] = job[v]
      BY <1>1, <1>6 DEF Crash, Redeliver, Publish, Works
    <2>2. CASE s = job[w].sid
      BY <1>1, <2>1, <2>2 DEF Kept
    <2>3. CASE s # job[w].sid
      BY <1>1, <1>6, <2>1, <2>3 DEF Kept, Carries
    <2> QED
      BY <2>2, <2>3
  <1>7. ASSUME NEW s \in SimIds, Kept(s), NEW t \in SimIds, Deliver(w, t)
        PROVE  Kept(s)'
    <2>1. /\ job'[w].sid = t /\ job'[w].at = "config" /\ job[w].sid = Absent
          /\ \A v \in Workers : v # w => job'[v] = job[v]
          /\ \A u \in SimIds : u # t => queue'[u] = queue[u]
      BY <1>1, <1>2, <1>7 DEF Deliver, JobType
    <2>2. CASE s = t
      BY <2>1, <2>2 DEF Kept, Carries
    <2>3. CASE s # t
      BY <1>7, <2>1, <2>3, NoIdIsAbsent DEF Kept, Carries
    <2> QED
      BY <2>2, <2>3
  <1>8. ASSUME NEW s \in SimIds
        PROVE  Secures(s)
    BY <1>3, <1>5, <1>6, <1>7 DEF Secures, Live, StatusOf
  <1> QED
    BY <1>4, <1>8

LEMMA PushSecures ==
    ASSUME SimInv, StrandInv, NEW w \in Workers, PushStep(w)
    PROVE  /\ \A s \in SimIds : Secures(s)
           /\ \A v \in Workers : job'[v].next \in RunStatuses
  <1> DEFINE Goal == /\ \A s \in SimIds : Secures(s)
                     /\ \A v \in Workers : job'[v].next \in RunStatuses
  <1>1. req' = req
    BY DEF PushStep, apiVars
  <1>2. CASE Ack(w) \/ Crash(w) \/ Redeliver(w) \/ \E s \in SimIds : Deliver(w, s)
    BY <1>1, <1>2, HandOverSecures
  <1>3. CASE WriteStatus(w)
    BY <1>1, <1>3, WriteStatusSecures
  <1>4. CASE \/ ReadConfig(w) \/ ReadStatus(w) \/ Simulate(w) \/ SaveResults(w)
             \/ Reconcile(w) \/ Overage(w) \/ Partial(w) \/ SaveCost(w)
             \/ FailCost(w) \/ Refunded(w) \/ SaveRefund(w)
    <2>1. UNCHANGED <<trail, queue>>
      BY <1>4 DEF ReadConfig, ReadStatus, Simulate, SaveResults, Reconcile, Overage,
                  Partial, SaveCost, FailCost, Refunded, SaveRefund, simVars
    <2>2. Onward(w)
      BY <1>4, StepsOnward
    <2> QED
      BY <1>1, <2>1, <2>2, OnwardSecures
  <1>5. CASE StorageRaises(w)
    <2>1. CASE job' = job
      BY <1>1, <1>5, <2>1 DEF StorageRaises, simVars, StrandInv, Secures, Kept, Live, StatusOf
    <2>2. CASE job' # job
      <3>1. \/ Turn(w, "fail_cost")
            \/ \E status \in RunStatuses : Announce(w, status)
        BY <1>5, <2>2 DEF StorageRaises, RunStatuses
      <3>2. Onward(w)
        BY <3>1, TurnOnward, AnnounceOnward
      <3> QED
        BY <1>1, <1>5, <3>2, OnwardSecures DEF StorageRaises, simVars
    <2> QED
      BY <2>1, <2>2
  <1> QED
    BY <1>2, <1>3, <1>4, <1>5 DEF PushStep, WorkerStep

LEMMA TeamNextStrands ==
    ASSUME SimInv, StrandInv, [TeamNext]_<<vars, teamVars>>
    PROVE  StrandInv'
  <1>1. ASSUME NEW r \in Requests, TeamRequestStep(r)
        PROVE  StrandInv'
    <2>1. job' = job
      BY <1>1 DEF TeamRequestStep, workerVars
    <2>2. CASE TeamAbort(r)
      BY <2>1, <2>2, AbortStrands DEF TeamAbort
    <2>3. CASE ~TeamAbort(r)
      <3>1. \A s \in SimIds : Secures(s)
        BY <1>1, <2>1, <2>3, CreateSecures, RetrySecures, OtherRequestsSecure
        DEF TeamRequestStep
      <3>2. aborts' = aborts
        <4>1. CASE create_team_simulation(r)
          BY <4>1 DEF create_team_simulation, Steps, CreateStart, Accept, CreateAdmit, Reject,
                      CreateSaveConfig, CreateSaveStatus, CreateSaveCost, Trigger, apiCounters
        <4>2. CASE retry_team_simulation(r)
          BY <4>2 DEF retry_team_simulation, Steps, RetryStart, Accept, RetryAdmit, RetryDebit,
                      RetrySaveCost, Reject, AppendRead, AppendWrite, Trigger, apiCounters
        <4>3. CASE delete_team_simulation(r) \/ estimate_team_simulation(r) \/ delete_team(r)
          BY <4>3 DEF delete_team_simulation, estimate_team_simulation, delete_team, Steps,
                      DeleteStart, DeleteList, DeleteNext, ViewStart, ViewEnd, Accept,
                      DissolveStart, DissolveList, DissolveAccount, DissolveMember,
                      DissolveBlobs, apiCounters
        <4> QED
          BY <1>1, <2>3, <4>1, <4>2, <4>3 DEF TeamRequestStep
      <3>3. \A w \in Workers : job'[w].next \in RunStatuses
        BY <2>1 DEF StrandInv
      <3> QED
        BY <3>1, <3>2, <3>3, SecuredStrands
    <2> QED
      BY <2>2, <2>3
  <1>2. ASSUME UNCHANGED <<trail, queue, req, job, aborts>>
        PROVE  StrandInv'
    <2>1. Loose' = Loose
      BY <1>2 DEF Loose, Live, StatusOf, Kept
    <2> QED
      BY <1>2, <2>1 DEF StrandInv
  <1>3. CASE \/ \E r \in Requests, u \in Members, route \in TeamRoutes : Enter(r, u, route)
             \/ \E r \in Requests : AdminEnter(r) \/ Turned(r)
             \/ TeamAtRest
             \/ UNCHANGED <<vars, teamVars>>
    BY <1>2, <1>3
    DEF Enter, AdminEnter, Admit, Turned, TeamAtRest, AtRest, vars, simVars, apiVars,
        workerVars
  <1>4. ASSUME NEW c \in Clients, PoolStep(c)
        PROVE  StrandInv'
    BY <1>2, <1>4 DEF PoolStep, AccountStep, simVars, apiVars, workerVars
  <1>5. ASSUME NEW w \in Workers, TeamPushStep(w)
        PROVE  StrandInv'
    BY <1>5, PushSecures, SecuredStrands DEF TeamPushStep, PushStep, apiVars
  <1>6. CASE ClockStep
    BY <1>2, <1>6 DEF ClockStep, simVars, apiVars, workerVars
  <1> QED
    BY <1>1, <1>3, <1>4, <1>5, <1>6 DEF TeamNext

LEMMA InitStrands == TeamInit => StrandInv
  <1> SUFFICES ASSUME TeamInit
               PROVE  StrandInv
    OBVIOUS
  <1>1. \A s \in SimIds : trail[s] = Absent
    BY DEF TeamInit, Init, InitSimulations
  <1>2. Loose = {}
    BY <1>1 DEF Loose, Live
  <1>3. aborts = 0 /\ \A w \in Workers : job[w].next \in RunStatuses
    BY DEF TeamInit, Init, InitApi, InitWorkers, NoJob, RunStatuses
  <1> QED
    BY <1>2, <1>3, FS_EmptySet DEF StrandInv

(***************************************************************************)
(* However many members submit, retry, delete and dissolve at once, and    *)
(* however often workers crash, storage fails and messages come twice: of  *)
(* the active runs, those that no message, no worker and no request will   *)
(* move on are no more than the requests that were cut off.                *)
(***************************************************************************)
THEOREM OnlyCutOffRunsStrand == TeamSpec => []OnlyCutOffSubmissionsStrand
  <1>1. /\ TeamInit => TeamInv /\ StrandInv
        /\ TeamInv /\ StrandInv /\ [TeamNext]_<<vars, teamVars>> => (TeamInv /\ StrandInv)'
    BY InitDispatches, InitStrands, TeamNextDispatches, TeamNextStrands
    DEF TeamInv, DispatchInv
  <1>2. ASSUME StrandInv
        PROVE  OnlyCutOffSubmissionsStrand
    <2>1. Stranded \subseteq Loose
      <3>1. ASSUME NEW s \in Stranded
            PROVE  s \in SimIds /\ Live(s) /\ ~Kept(s)
        BY <3>1
        DEF Stranded, Active, Listed, Live, Kept, Carries, Promises
      <3> QED
        BY <3>1 DEF Loose
    <2>2. /\ Cardinality(Stranded) <= Cardinality(Loose)
          /\ Cardinality(Stranded) \in Nat /\ Cardinality(Loose) \in Nat
      BY <1>2, <2>1, FS_Subset, FS_CardinalityType DEF StrandInv
    <2> HIDE DEF Stranded, Loose
    <2> QED
      BY <1>2, <2>2 DEF StrandInv, OnlyCutOffSubmissionsStrand
  <1> QED
    BY <1>1, <1>2, PTL DEF TeamSpec

-----------------------------------------------------------------------------
(***************************************************************************)
(* The runs that a dissolution found at rest.  That they are gone at its   *)
(* end is not inductive: until then, none of their blobs may be missing    *)
(* from its listing, and nobody may have taken them up again.              *)
(***************************************************************************)
DissolveStages == {"dissolve_list", "dissolve_account", "dissolve_members"}

\* dissolution q has made its listing
Past(q) ==
    /\ q.kind = "dissolve"
    /\ q.at \in {"dissolve_account", "dissolve_members", "delete_next"}

\* nobody has a message, a job or a request about simulation s
Rests(s) ==
    /\ s \in issued
    /\ queue[s] = 0
    /\ \A w \in Workers : job[w].sid # s
    /\ \A r \in Requests : req[r].sid # s

\* what is left of simulation s is among the doomed blobs
Swept(s, doomed) == \A n \in BlobNames : BlobExists(<<s, n>>) => <<s, n>> \in doomed

\* a dissolution is about no simulation of its own
Sole(q) == q.kind = "dissolve" \/ q.at \in DissolveStages => q.sid = Absent

RestInv ==
    /\ issued \subseteq SimIds
    /\ gone \subseteq SimIds
    /\ resting \in [Requests -> SUBSET SimIds]
    /\ \A r \in Requests :
          /\ Sole(req[r])
          /\ Past(req[r]) => \A s \in resting[r] : Rests(s) /\ Swept(s, req[r].doomed)
    /\ \A s \in gone : Rests(s) /\ Swept(s, {})

\* no blob of simulation s is new
Shrinks(s) == \A n \in BlobNames : BlobExists(<<s, n>>)' => BlobExists(<<s, n>>)

\* what a step must keep of the simulations that remain at rest
LeavesAtRest ==
    \A s \in SimIds :
        Rests(s) /\ (s \in gone' \/ \E q \in Requests : s \in resting'[q]) =>
            Rests(s)' /\ Shrinks(s)

LEMMA RestMove ==
    ASSUME RestInv, LeavesAtRest, issued' \subseteq SimIds,
           resting' \in [Requests -> SUBSET SimIds],
           \A q \in Requests : resting'[q] \subseteq resting[q],
           gone' \subseteq SimIds,
           \A s \in gone' : s \in gone \/ (Rests(s) /\ Swept(s, {})),
           \A q \in Requests : Sole(req'[q]),
           \A q \in Requests : Past(req'[q]) =>
              /\ Past(req[q])
              /\ \A s \in SimIds :
                    Swept(s, req[q].doomed) /\ Shrinks(s) => Swept(s, req[q].doomed)'
    PROVE  RestInv'
  <1>1. ASSUME NEW q \in Requests, Past(req'[q]), NEW s \in resting'[q]
        PROVE  (Rests(s) /\ Swept(s, req[q].doomed))'
    <2>1. s \in SimIds /\ Rests(s) /\ Swept(s, req[q].doomed)
      BY <1>1 DEF RestInv
    <2>2. Rests(s)' /\ Shrinks(s)
      BY <1>1, <2>1 DEF LeavesAtRest
    <2> QED
      BY <1>1, <2>1, <2>2
  <1>2. ASSUME NEW s \in gone'
        PROVE  (Rests(s) /\ Swept(s, {}))'
    <2>1. s \in SimIds /\ Rests(s) /\ Swept(s, {})
      BY <1>2 DEF RestInv
    <2>2. Rests(s)' /\ Shrinks(s)
      BY <1>2, <2>1 DEF LeavesAtRest
    <2> QED
      BY <2>1, <2>2 DEF Swept, Shrinks
  <1> QED
    BY <1>1, <1>2 DEF RestInv, Sole, Past

\* a step that only changes what request r and its simulation are about
LEMMA RestRequest ==
    ASSUME RestInv, NEW r \in Requests, \A q \in Requests : q # r => req'[q] = req[q],
           job' = job, issued' = issued, gone' = gone,
           resting' \in [Requests -> SUBSET SimIds],
           \A q \in Requests : resting'[q] \subseteq resting[q],
           \A s \in SimIds : s # req[r].sid =>
              Shrinks(s) /\ queue'[s] = queue[s] /\ req'[r].sid # s,
           Sole(req'[r]),
           Past(req'[r]) => Past(req[r]) /\ req'[r].doomed = req[r].doomed
    PROVE  RestInv'
  <1>1. LeavesAtRest
    BY DEF LeavesAtRest, Rests
  <1>2. ASSUME NEW q \in Requests, Past(req'[q])
        PROVE  Past(req[q]) /\ req'[q].doomed = req[q].doomed
    BY <1>2
  <1>3. ASSUME NEW q \in Requests, Past(req'[q]), NEW s \in SimIds,
               Swept(s, req[q].doomed), Shrinks(s)
        PROVE  Swept(s, req[q].doomed)'
    BY <1>2, <1>3 DEF Swept, Shrinks
  <1> QED
    BY <1>1, <1>2, <1>3, RestMove DEF RestInv

LEMMA RestStutter ==
    ASSUME RestInv, UNCHANGED <<simVars, req, job, issued, resting, gone>>
    PROVE  RestInv'
  <1>1. \A x : BlobExists(x)' <=> BlobExists(x)
    BY DEF BlobExists, simVars
  <1> QED
    BY <1>1 DEF RestInv, Rests, Swept, simVars

\* blobs that are the same, or missing, are not new
LEMMA SameShrinks ==
    ASSUME NEW s,
           config'[s] = config[s] \/ config'[s] = Absent,
           cost'[s] = cost[s] \/ cost'[s] = Absent,
           results'[s] = results[s] \/ results'[s] = FALSE,
           trail'[s] = trail[s] \/ trail'[s] = Absent
    PROVE  Shrinks(s)
  BY DEF Shrinks, BlobExists, BlobNames

LEMMA GoKeeps ==
    ASSUME SimInv, NEW r \in Requests, NEW stage, Go(r, stage)
    PROVE  /\ \A q \in Requests : q # r => req'[q] = req[q]
           /\ req'[r].at = stage /\ req'[r].sid = req[r].sid
           /\ req'[r].kind = req[r].kind /\ req'[r].doomed = req[r].doomed
  BY RequestFacts DEF Go, ReqType

LEMMA FinishIs ==
    ASSUME SimInv, NEW r \in Requests, Finish(r)
    PROVE  /\ \A q \in Requests : q # r => req'[q] = req[q]
           /\ req'[r] = NoRequest /\ req'[r].sid = Absent
           /\ Sole(req'[r]) /\ ~Past(req'[r])
  <1>1. /\ \A q \in Requests : q # r => req'[q] = req[q]
        /\ req'[r] = NoRequest
    BY RequestFacts DEF Finish
  <1> QED
    BY <1>1 DEF NoRequest, Sole, Past, DissolveStages

\* request r goes on, or is over, with no more than its own blobs stored
LEMMA RestGoes ==
    ASSUME SimInv, RestInv, NEW r \in Requests, job' = job, issued' = issued,
           resting' = resting, gone' = gone, req[r].kind # "dissolve",
           Finish(r) \/ \E stage \in ReqStages \ DissolveStages : Go(r, stage),
           NEW t, t = req[r].sid,
           \A s \in SimIds : s # t => Shrinks(s) /\ queue'[s] = queue[s]
    PROVE  RestInv'
  <1>1. CASE Finish(r)
    <2>1. \A s \in SimIds : req'[r].sid # s
      BY <1>1, FinishIs, NoIdIsAbsent
    <2> QED
      BY <1>1, <2>1, FinishIs, RestRequest DEF RestInv
  <1>2. ASSUME NEW stage \in ReqStages \ DissolveStages, Go(r, stage)
        PROVE  RestInv'
    <2>1. Sole(req'[r]) /\ ~Past(req'[r])
      BY <1>2, GoKeeps DEF Sole, Past
    <2> QED
      BY <1>2, <2>1, GoKeeps, RestRequest DEF RestInv
  <1> QED
    BY <1>1, <1>2

LEMMA RestCreate ==
    ASSUME SimInv, RestInv, NEW r \in Requests, create_team_simulation(r), job' = job
    PROVE  RestInv'
  <1>1. /\ resting' = resting /\ gone' = gone
        /\ req \in [Requests -> ReqType] /\ req[r] \in ReqType
    BY RequestFacts DEF create_team_simulation, Passed, Steps, teamVars
  <1>2. ASSUME NEW s \in SimIds, NEW e \in Estimates, CreateStart(r, s, e)
        PROVE  RestInv'
    <2> DEFINE new == [NoRequest EXCEPT !.at = "create_account", !.kind = "create",
                                        !.sid = s, !.estimate = e, !.period = month]
    <2>1. req' = [req EXCEPT ![r] = new]
      BY <1>2 DEF CreateStart, Accept
    <2>2. new.sid = s /\ new.kind = "create" /\ new.at = "create_account"
      BY DEF NoRequest
    <2> HIDE DEF new
    <2>3. /\ \A q \in Requests : q # r => req'[q] = req[q]
          /\ req'[r].sid = s /\ Sole(req'[r]) /\ ~Past(req'[r])
      BY <1>1, <2>1, <2>2 DEF Sole, Past, DissolveStages
    <2>4. UNCHANGED simVars /\ issued' = issued \cup {s} /\ s \notin issued
      BY <1>2 DEF CreateStart
    <2>5. ASSUME NEW t \in SimIds
          PROVE  Shrinks(t)
      BY <2>4, SameShrinks DEF simVars
    <2>6. LeavesAtRest
      <3>1. ASSUME NEW t \in SimIds, Rests(t)
            PROVE  Rests(t)'
        <4>1. t # s
          BY <2>4, <3>1 DEF Rests
        <4> QED
          BY <2>3, <2>4, <3>1, <4>1 DEF Rests, simVars
      <3> QED
        BY <2>5, <3>1 DEF LeavesAtRest
    <2>7. ASSUME NEW q \in Requests, Past(req'[q]), NEW u \in SimIds,
                 Swept(u, req[q].doomed), Shrinks(u)
          PROVE  Past(req[q]) /\ Swept(u, req[q].doomed)'
      BY <2>3, <2>7 DEF Swept, Shrinks
    <2>8. \A q \in Requests : Sole(req'[q])
      BY <2>3 DEF RestInv
    <2>9. \A q \in Requests : Past(req'[q]) => Past(req[q])
      BY <2>3
    <2> QED
      BY <1>1, <2>4, <2>6, <2>7, <2>8, <2>9, RestMove DEF RestInv
  <1>3. ASSUME req[r].kind = "create",
               CreateAdmit(r) \/ Reject(r) \/ CreateSaveConfig(r) \/ CreateSaveStatus(r)
                  \/ CreateSaveCost(r) \/ Trigger(r)
        PROVE  RestInv'
    <2>1. PICK t : t = req[r].sid
      OBVIOUS
    <2>2. /\ issued' = issued
          /\ Finish(r) \/ \E stage \in ReqStages \ DissolveStages : Go(r, stage)
      BY <1>3
      DEF CreateAdmit, Reject, CreateSaveConfig, CreateSaveStatus, CreateSaveCost, Trigger,
          apiCounters, ReqStages, DissolveStages
    <2>3. \A s \in SimIds : s # t =>
             /\ config'[s] = config[s] /\ trail'[s] = trail[s] /\ cost'[s] = cost[s]
             /\ results'[s] = results[s] /\ queue'[s] = queue[s]
      BY <1>3, <2>1
      DEF CreateAdmit, Reject, CreateSaveConfig, CreateSaveStatus, CreateSaveCost, Trigger,
          Publish, simVars, SimInv, SimulationTypeOK
    <2> QED
      BY <1>1, <1>3, <2>1, <2>2, <2>3, SameShrinks, RestGoes
  <1> QED
    BY <1>2, <1>3 DEF create_team_simulation, Steps

\* a request arrives that stores nothing
LEMMA RestAccept ==
    ASSUME SimInv, RestInv, NEW r \in Requests, NEW kind, NEW new, Accept(r, kind, new),
           UNCHANGED simVars, job' = job, issued' = issued, gone' = gone,
           resting' = resting, new.sid = Absent, ~Past(new)
    PROVE  RestInv'
  <1>1. /\ \A q \in Requests : q # r => req'[q] = req[q]
        /\ req'[r] = new
    BY RequestFacts DEF Accept
  <1>2. Sole(req'[r]) /\ ~Past(req'[r])
    BY <1>1 DEF Sole
  <1>3. \A s \in SimIds : Shrinks(s) /\ queue'[s] = queue[s] /\ req'[r].sid # s
    BY <1>1, SameShrinks, NoIdIsAbsent DEF simVars
  <1> QED
    BY <1>1, <1>2, <1>3, RestRequest DEF RestInv

LEMMA RestRetry ==
    ASSUME SimInv, RestInv, NEW r \in Requests, retry_team_simulation(r), job' = job
    PROVE  RestInv'
  <1>1. /\ gone' = gone
        /\ req \in [Requests -> ReqType] /\ req[r] \in ReqType
    BY RequestFacts DEF retry_team_simulation, Passed, Steps, teamVars
  <1>2. ASSUME NEW s \in SimIds, RetryStart(r, s), Disturb(s)
        PROVE  RestInv'
    <2> DEFINE new == [NoRequest EXCEPT !.at = "retry_checks", !.kind = "retry", !.sid = s]
    <2>1. req' = [req EXCEPT ![r] = new]
      BY <1>2 DEF RetryStart, Accept
    <2>2. new.sid = s /\ new.kind = "retry" /\ new.at = "retry_checks"
      BY DEF NoRequest
    <2> HIDE DEF new
    <2>3. /\ \A q \in Requests : q # r => req'[q] = req[q]
          /\ req'[r].sid = s /\ Sole(req'[r]) /\ ~Past(req'[r])
      BY <1>1, <2>1, <2>2 DEF Sole, Past, DissolveStages
    <2>4. UNCHANGED simVars /\ issued' = issued /\ trail[s] # Absent
      BY <1>2 DEF RetryStart
    <2>5. ASSUME NEW t \in SimIds
          PROVE  Shrinks(t)
      BY <2>4, SameShrinks DEF simVars
    <2>6. s \notin gone
      <3>1. BlobExists(<<s, "status.json">>) /\ "status.json" \in BlobNames
        BY <2>4 DEF BlobExists, BlobNames
      <3> QED
        BY <3>1 DEF RestInv, Swept
    <2>7. /\ resting' \in [Requests -> SUBSET SimIds]
          /\ \A q \in Requests : resting'[q] \subseteq resting[q] /\ s \notin resting'[q]
      BY <1>2 DEF Disturb, RestInv
    <2>8. LeavesAtRest
      <3>1. ASSUME NEW t \in SimIds, Rests(t),
                   t \in gone' \/ \E q \in Requests : t \in resting'[q]
            PROVE  Rests(t)'
        <4>1. t # s
          BY <1>1, <2>6, <2>7, <3>1
        <4> QED
          BY <2>3, <2>4, <3>1, <4>1 DEF Rests, simVars
      <3> QED
        BY <2>5, <3>1 DEF LeavesAtRest
    <2>9. ASSUME NEW q \in Requests, Past(req'[q]), NEW u \in SimIds,
                 Swept(u, req[q].doomed), Shrinks(u)
          PROVE  Swept(u, req[q].doomed)'
      BY <2>3, <2>9 DEF Swept, Shrinks
    <2>10. \A q \in Requests : Sole(req'[q]) /\ (Past(req'[q]) => Past(req[q]))
      BY <2>3 DEF RestInv
    <2> QED
      BY <1>1, <2>4, <2>7, <2>8, <2>9, <2>10, RestMove DEF RestInv
  <1>3. ASSUME req[r].kind = "retry", resting' = resting,
               RetryDebit(r) \/ Reject(r) \/ RetrySaveCost(r) \/ AppendWrite(r) \/ Trigger(r)
        PROVE  RestInv'
    <2>1. PICK t : t = req[r].sid
      OBVIOUS
    <2>2. /\ issued' = issued
          /\ Finish(r) \/ \E stage \in ReqStages \ DissolveStages : Go(r, stage)
      BY <1>3
      DEF RetryDebit, Reject, RetrySaveCost, AppendWrite, Trigger, apiCounters, ReqStages,
          DissolveStages
    <2>3. \A s \in SimIds : s # t =>
             /\ config'[s] = config[s] /\ trail'[s] = trail[s] /\ cost'[s] = cost[s]
             /\ results'[s] = results[s] /\ queue'[s] = queue[s]
      BY <1>3, <2>1
      DEF RetryDebit, Reject, RetrySaveCost, AppendWrite, Trigger, Publish, simVars, SimInv,
          SimulationTypeOK
    <2> QED
      BY <1>1, <1>3, <2>1, <2>2, <2>3, SameShrinks, RestGoes
  <1>4. ASSUME req[r].kind = "retry", resting' = resting, RetryAdmit(r) \/ AppendRead(r)
        PROVE  RestInv'
    <2>1. UNCHANGED simVars /\ issued' = issued
      BY <1>4 DEF RetryAdmit, AppendRead, apiCounters
    <2>2. \A s \in SimIds : Shrinks(s) /\ queue'[s] = queue[s]
      BY <2>1, SameShrinks DEF simVars
    <2>3. CASE Finish(r)
      BY <1>1, <1>4, <2>1, <2>2, <2>3, RestGoes
    <2>4. CASE ~Finish(r)
      <3>1. /\ \A q \in Requests : q # r => req'[q] = req[q]
            /\ req'[r].sid = req[r].sid /\ req'[r].kind = "retry"
            /\ req'[r].at \in {"retry_account", "append_write"}
        BY <1>1, <1>4, <2>4 DEF RetryAdmit, AppendRead, ReqType
      <3>2. Sole(req'[r]) /\ ~Past(req'[r])
        BY <3>1 DEF Sole, Past, DissolveStages
      <3> QED
        BY <1>1, <1>4, <2>1, <2>2, <3>1, <3>2, RestRequest DEF RestInv
    <2> QED
      BY <2>3, <2>4
  <1> QED
    BY <1>2, <1>3, <1>4 DEF retry_team_simulation, Steps, teamVars

\* a delete takes blobs away, and one of them for certain
LEMMA DeleteShrinks ==
    ASSUME SimInv, NEW x \in SimIds \X BlobNames, DeleteBlob(x)
    PROVE  /\ \A s \in SimIds : Shrinks(s)
           /\ ~BlobExists(x)'
  <1>1. x[1] \in SimIds /\ x[2] \in BlobNames
    OBVIOUS
  <1>2. \A s \in SimIds : Shrinks(s)
    BY SameShrinks DEF DeleteBlob, SimInv, SimulationTypeOK
  <1>3. ~BlobExists(x)'
    BY <1>1 DEF DeleteBlob, BlobExists, BlobNames, SimInv, SimulationTypeOK
  <1> QED
    BY <1>2, <1>3

\* one blob fewer, or the end, of a delete or of a dissolution
LEMMA RestDeleteNext ==
    ASSUME SimInv, RestInv, NEW r \in Requests, DeleteNext(r), job' = job,
           resting' \in [Requests -> SUBSET SimIds],
           \A q \in Requests : resting'[q] \subseteq resting[q],
           gone' = IF Past(req[r]) /\ req[r].doomed = {} THEN gone \cup resting[r] ELSE gone
    PROVE  RestInv'
  <1>1. /\ req \in [Requests -> ReqType] /\ req[r] \in ReqType
        /\ req[r].at = "delete_next" /\ queue' = queue /\ issued' = issued
    BY RequestFacts DEF DeleteNext, At, apiCounters
  <1>2. req[r].doomed \subseteq SimIds \X BlobNames
    BY <1>1 DEF ReqType
  <1>3. \A s \in SimIds : Shrinks(s)
    <2>1. CASE UNCHANGED blobs
      BY <2>1, SameShrinks DEF blobs
    <2> QED
      BY <1>2, <2>1, DeleteShrinks DEF DeleteNext
  <1>4. /\ \A q \in Requests : q # r => req'[q] = req[q]
        /\ req'[r].sid \in {req[r].sid, Absent}
        /\ Sole(req'[r])
        /\ Past(req'[r]) => Past(req[r])
    <2>1. CASE Finish(r)
      BY <2>1, FinishIs
    <2>2. CASE ~Finish(r)
      <3>1. PICK x \in req[r].doomed : req' = [req EXCEPT ![r].doomed = @ \ {x}]
        BY <2>2 DEF DeleteNext
      <3>2. /\ \A q \in Requests : q # r => req'[q] = req[q]
            /\ req'[r].sid = req[r].sid /\ req'[r].kind = req[r].kind
            /\ req'[r].at = req[r].at
        BY <1>1, <3>1 DEF ReqType
      <3> QED
        BY <3>2 DEF RestInv, Sole, Past
    <2> QED
      BY <2>1, <2>2
  <1>5. LeavesAtRest
    <2>1. ASSUME NEW s \in SimIds, Rests(s)
          PROVE  Rests(s)'
      BY <1>1, <1>4, <2>1, NoIdIsAbsent DEF Rests
    <2> QED
      BY <1>3, <2>1 DEF LeavesAtRest
  <1>6. ASSUME NEW q \in Requests, Past(req'[q]), NEW s \in SimIds, Swept(s, req[q].doomed)
        PROVE  Swept(s, req[q].doomed)'
    <2>1. CASE req'[q].doomed = req[q].doomed
      BY <1>3, <1>6, <2>1 DEF Swept, Shrinks
    <2>2. CASE req'[q].doomed # req[q].doomed
      <3>1. q = r /\ ~Finish(r)
        BY <1>4, <1>6, <2>2, FinishIs
      <3>2. PICK x \in req[r].doomed : /\ req' = [req EXCEPT ![r].doomed = @ \ {x}]
                                       /\ DeleteBlob(x)
        BY <3>1 DEF DeleteNext
      <3>3. req'[r].doomed = req[r].doomed \ {x}
        BY <1>1, <3>2 DEF ReqType
      <3>4. ~BlobExists(x)'
        BY <1>2, <3>2, DeleteShrinks
      <3>5. ASSUME NEW n \in BlobNames, BlobExists(<<s, n>>)'
            PROVE  <<s, n>> \in req'[r].doomed
        <4>1. <<s, n>> \in req[r].doomed
          BY <1>3, <1>6, <3>1, <3>5 DEF Swept, Shrinks
        <4>2. <<s, n>> # x
          BY <3>4, <3>5
        <4> QED
          BY <3>3, <4>1, <4>2
      <3> QED
        BY <3>1, <3>5 DEF Swept
    <2> QED
      BY <2>1, <2>2
  <1>7. /\ gone' \subseteq SimIds
        /\ \A s \in gone' : s \in gone \/ (Rests(s) /\ Swept(s, {}))
    BY DEF RestInv
  <1>8. /\ \A q \in Requests : Sole(req'[q]) /\ (Past(req'[q]) => Past(req[q]))
        /\ issued' \subseteq SimIds
    BY <1>1, <1>4 DEF RestInv
  <1> QED
    BY <1>5, <1>6, <1>7, <1>8, RestMove

LEMMA RestDelete ==
    ASSUME SimInv, RestInv, NEW r \in Requests, job' = job,
           delete_team_simulation(r) \/ estimate_team_simulation(r) \/ TeamAbort(r)
    PROVE  RestInv'
  <1>1. /\ gone' = gone
        /\ req \in [Requests -> ReqType] /\ req[r] \in ReqType
    BY RequestFacts
    DEF delete_team_simulation, estimate_team_simulation, TeamAbort, Passed, Steps, teamVars
  <1>2. ASSUME NEW s \in SimIds, DeleteStart(r, s), Disturb(s)
        PROVE  RestInv'
    <2> DEFINE new == [NoRequest EXCEPT !.at = "delete_list", !.kind = "delete",
                                        !.sids = {s}]
    <2>1. req' = [req EXCEPT ![r] = new]
      BY <1>2 DEF DeleteStart, Accept
    <2>2. new.sid = Absent /\ new.kind = "delete" /\ new.at = "delete_list"
      BY DEF NoRequest
    <2> HIDE DEF new
    <2>3. /\ \A q \in Requests : q # r => req'[q] = req[q]
          /\ req'[r].sid = Absent /\ Sole(req'[r]) /\ ~Past(req'[r])
      BY <1>1, <2>1, <2>2 DEF Sole, Past
    <2>4. /\ issued' = issued
          /\ \A t \in SimIds : Shrinks(t) /\ queue'[t] = queue[t]
      BY <1>2, SameShrinks DEF DeleteStart, simVars
    <2>5. /\ resting' \in [Requests -> SUBSET SimIds]
          /\ \A q \in Requests : resting'[q] \subseteq resting[q]
      BY <1>2 DEF Disturb, RestInv
    <2> QED
      BY <1>1, <2>3, <2>4, <2>5, NoIdIsAbsent, RestRequest DEF RestInv
  <1>3. ASSUME req[r].kind = "delete", DeleteList(r), resting' = resting
        PROVE  RestInv'
    <2>1. /\ \A q \in Requests : q # r => req'[q] = req[q]
          /\ req'[r].kind = "delete" /\ req'[r].sid = req[r].sid
          /\ req'[r].at \in {"wipe_account", "delete_next"}
      BY <1>1, <1>3 DEF DeleteList, ReqType
    <2>2. Sole(req'[r]) /\ ~Past(req'[r])
      BY <2>1 DEF Sole, Past, DissolveStages
    <2>3. /\ issued' = issued
          /\ \A t \in SimIds : Shrinks(t) /\ queue'[t] = queue[t]
      BY <1>3, SameShrinks DEF DeleteList, simVars, apiCounters
    <2> QED
      BY <1>1, <1>3, <2>1, <2>2, <2>3, RestRequest DEF RestInv
  <1>4. ASSUME req[r].kind = "delete", DeleteNext(r), resting' = resting
        PROVE  RestInv'
    <2>1. ~Past(req[r])
      BY <1>4 DEF Past
    <2> QED
      BY <1>1, <1>4, <2>1, RestDeleteNext DEF RestInv
  <1>5. ASSUME ViewStart(r), resting' = resting
        PROVE  RestInv'
    <2> DEFINE new == [NoRequest EXCEPT !.at = "view", !.kind = "view"]
    <2>1. new.sid = Absent /\ new.kind = "view" /\ Accept(r, "view", new)
      BY <1>5 DEF NoRequest, ViewStart
    <2> HIDE DEF new
    <2>2. ~Past(new) /\ UNCHANGED simVars /\ issued' = issued
      BY <1>5, <2>1 DEF Past, ViewStart
    <2> QED
      BY <1>1, <1>5, <2>1, <2>2, RestAccept
  <1>6. ASSUME Finish(r), UNCHANGED <<simVars, issued>>,
               resting' = resting \/ resting' = [resting EXCEPT ![r] = {}]
        PROVE  RestInv'
    <2>1. \A s \in SimIds : Shrinks(s) /\ queue'[s] = queue[s] /\ req'[r].sid # s
      BY <1>6, SameShrinks, FinishIs, NoIdIsAbsent DEF simVars
    <2>2. /\ resting' \in [Requests -> SUBSET SimIds]
          /\ \A q \in Requests : resting'[q] \subseteq resting[q]
      BY <1>6 DEF RestInv
    <2> QED
      BY <1>1, <1>6, <2>1, <2>2, FinishIs, RestRequest
  <1> QED
    BY <1>2, <1>3, <1>4, <1>5, <1>6
    DEF delete_team_simulation, estimate_team_simulation, TeamAbort, Abort, ViewEnd, Steps,
        teamVars, apiCounters

LEMMA RestDissolve ==
    ASSUME SimInv, RestInv, NEW r \in Requests, delete_team(r), job' = job
    PROVE  RestInv'
  <1>1. req \in [Requests -> ReqType] /\ req[r] \in ReqType /\ queue \in [SimIds -> Nat]
    BY RequestFacts DEF SimInv, SimulationTypeOK
  <1>2. CASE DissolveStart(r)
    <2> DEFINE new == [NoRequest EXCEPT !.at = "dissolve_list", !.kind = "dissolve",
                                        !.sids = SimIds]
    <2>1. new.sid = Absent /\ new.at = "dissolve_list" /\ Accept(r, "dissolve", new)
      BY <1>2 DEF NoRequest, DissolveStart
    <2> HIDE DEF new
    <2>2. ~Past(new) /\ UNCHANGED <<simVars, issued, gone, resting>>
      BY <1>2, <2>1 DEF Past, DissolveStart, Passed
    <2> QED
      BY <2>1, <2>2, RestAccept
  <1>3. CASE DissolveList(r)
    <2>1. /\ \A q \in Requests : q # r => req'[q] = req[q]
          /\ req'[r].sid = req[r].sid /\ req'[r].kind = req[r].kind
          /\ req'[r].at \in {"dissolve_members", "dissolve_account"}
          /\ req'[r].doomed = BlobsUnder(SimIds)
      BY <1>1, <1>3 DEF DissolveList, ReqType
    <2>2. /\ UNCHANGED <<simVars, job, issued, gone>>
          /\ resting' = [resting EXCEPT ![r] = {s \in issued : ~Handled(r, s)}]
          /\ req[r].sid = Absent
      BY <1>3 DEF DissolveList, apiCounters, RestInv, Sole, At, DissolveStages
    <2>3. \A s \in SimIds : Rests(s) => Rests(s)'
      BY <2>1, <2>2 DEF Rests, simVars
    <2>4. \A x : BlobExists(x)' <=> BlobExists(x)
      BY <2>2 DEF BlobExists, simVars
    <2>5. ASSUME NEW s \in resting'[r]
          PROVE  (Rests(s) /\ Swept(s, req[r].doomed))'
      <3>1. s \in SimIds /\ s \in issued /\ ~Handled(r, s)
        BY <2>2, <2>5 DEF RestInv
      <3>2. Rests(s)
        BY <1>1, <2>2, <3>1, NoIdIsAbsent DEF Handled, Rests
      <3>3. Swept(s, BlobsUnder(SimIds))
        BY <3>1 DEF Swept, BlobsUnder
      <3> QED
        BY <2>1, <2>3, <2>4, <3>1, <3>2, <3>3 DEF Swept
    <2>6. ASSUME NEW q \in Requests, q # r, Past(req'[q]), NEW s \in resting'[q]
          PROVE  (Rests(s) /\ Swept(s, req[q].doomed))'
      BY <2>1, <2>2, <2>3, <2>4, <2>6 DEF RestInv, Swept
    <2>7. \A q \in Requests : Sole(req'[q])
      BY <2>1, <2>2 DEF RestInv, Sole
    <2>8. \A s \in gone' : (Rests(s) /\ Swept(s, {}))'
      BY <2>2, <2>3, <2>4 DEF RestInv, Swept
    <2>9. issued' \subseteq SimIds /\ gone' \subseteq SimIds
          /\ resting' \in [Requests -> SUBSET SimIds]
      BY <2>2 DEF RestInv
    <2> QED
      BY <2>5, <2>6, <2>7, <2>8, <2>9 DEF RestInv, Sole, Past
  <1>4. CASE DissolveAccount(r) \/ DissolveMember(r)
    <2>1. /\ UNCHANGED <<simVars, issued, resting, gone>>
          /\ req[r].at \in DissolveStages \ {"dissolve_list"} /\ req[r].sid = Absent
      BY <1>4
      DEF DissolveAccount, DissolveMember, teamVars, apiCounters, At, DissolveStages, RestInv,
          Sole
    <2>2. \A s \in SimIds : Shrinks(s) /\ queue'[s] = queue[s]
      BY <2>1, SameShrinks DEF simVars
    <2>3. CASE Finish(r)
      BY <2>1, <2>2, <2>3, FinishIs, NoIdIsAbsent, RestRequest DEF RestInv
    <2>4. CASE req' = req
      BY <2>1, <2>4, RestStutter
    <2>5. ASSUME NEW stage \in {"dissolve_members", "delete_next"}, Go(r, stage)
          PROVE  RestInv'
      <3>1. Sole(req'[r]) /\ (Past(req'[r]) => Past(req[r]))
        BY <2>1, <2>5, GoKeeps DEF Sole, Past, DissolveStages
      <3> QED
        BY <2>1, <2>2, <2>5, <3>1, GoKeeps, NoIdIsAbsent, RestRequest DEF RestInv
    <2> QED
      BY <1>4, <2>3, <2>4, <2>5 DEF DissolveAccount, DissolveMember
  <1>5. CASE DissolveBlobs(r)
    <2>1. /\ req[r].kind = "dissolve" /\ DeleteNext(r) /\ Past(req[r])
          /\ gone' = IF req[r].doomed = {} THEN gone \cup resting[r] ELSE gone
      BY <1>5 DEF DissolveBlobs, DeleteNext, At, Past
    <2>2. /\ resting' \in [Requests -> SUBSET SimIds]
          /\ \A q \in Requests : resting'[q] \subseteq resting[q]
      BY <1>5 DEF DissolveBlobs, RestInv
    <2> QED
      BY <2>1, <2>2, RestDeleteNext
  <1> QED
    BY <1>2, <1>3, <1>4, <1>5 DEF delete_team

\* a worker stores and sends back what is about its own simulation
LEMMA WorkerLeaves ==
    ASSUME SimInv, NEW w \in Workers, NEW t, t = job[w].sid,
           WorkerStep(w) \/ Crash(w) \/ Redeliver(w) \/ StorageRaises(w),
           NEW s \in SimIds, s # t
    PROVE  Shrinks(s) /\ queue'[s] = queue[s]
  <1>1. SimulationTypeOK
    BY DEF SimInv
  <1>2. CASE UNCHANGED simVars
    BY <1>2, SameShrinks DEF simVars
  <1>3. CASE WriteStatus(w) \/ SaveResults(w) \/ SaveCost(w) \/ SaveRefund(w)
    <2>1. /\ config'[s] = config[s] /\ trail'[s] = trail[s] /\ cost'[s] = cost[s]
          /\ results'[s] = results[s] /\ queue'[s] = queue[s]
      BY <1>1, <1>3 DEF WriteStatus, SaveResults, SaveCost, SaveRefund, SimulationTypeOK
    <2> QED
      BY <2>1, SameShrinks
  <1>4. CASE Crash(w) \/ Redeliver(w)
    <2>1. UNCHANGED blobs /\ queue'[s] = queue[s]
      BY <1>1, <1>4 DEF Crash, Redeliver, Publish, SimulationTypeOK
    <2> QED
      BY <2>1, SameShrinks DEF blobs
  <1> QED
    BY <1>2, <1>3, <1>4
    DEF WorkerStep, ReadConfig, ReadStatus, Simulate, Reconcile, Overage, Partial, FailCost,
        Refunded, Ack, StorageRaises

LEMMA RestPush ==
    ASSUME SimInv, RestInv, NEW w \in Workers, PushStep(w), UNCHANGED <<resting, gone>>
    PROVE  RestInv'
  <1>1. req' = req /\ issued' = issued
    BY DEF PushStep, apiVars
  <1>2. ASSUME NEW s \in SimIds, Rests(s)
        PROVE  Rests(s)' /\ Shrinks(s)
    <2>1. s # job[w].sid /\ queue[s] = 0
      BY <1>2 DEF Rests
    <2>2. ASSUME NEW t \in SimIds, Deliver(w, t)
          PROVE  Rests(s)' /\ Shrinks(s)
      <3>1. t # s
        BY <2>1, <2>2 DEF Deliver
      <3>2. /\ \A v \in Workers : v # w => job'[v] = job[v]
            /\ job'[w].sid = t
        BY <2>2, WorkerFacts DEF Deliver, NoJob
      <3>3. UNCHANGED blobs /\ queue'[s] = queue[s]
        BY <2>2, <3>1 DEF Deliver, SimInv, SimulationTypeOK
      <3>4. Shrinks(s)
        BY <3>3, SameShrinks DEF blobs
      <3> QED
        BY <1>1, <1>2, <3>1, <3>2, <3>3, <3>4 DEF Rests
    <2>3. CASE WorkerStep(w) \/ Crash(w) \/ Redeliver(w) \/ StorageRaises(w)
      <3>1. Shrinks(s) /\ queue'[s] = queue[s]
        BY <2>1, <2>3, WorkerLeaves
      <3>2. /\ \A v \in Workers : v # w => job'[v] = job[v]
            /\ job'[w].sid \in {job[w].sid, Absent}
        <4>1. CASE SaveResults(w)
          BY <4>1, TurnIs DEF SaveResults
        <4>2. CASE ~SaveResults(w)
          BY <2>3, <4>2, RunMoves, BillingMoves, FailMoves, FaultMoves DEF WorkerStep, Moves
        <4> QED
          BY <4>1, <4>2
      <3> QED
        BY <1>1, <1>2, <2>1, <3>1, <3>2, NoIdIsAbsent DEF Rests
    <2> QED
      BY <2>2, <2>3 DEF PushStep
  <1>3. LeavesAtRest
    BY <1>2 DEF LeavesAtRest
  <1>4. ASSUME NEW q \in Requests, NEW s \in SimIds, Swept(s, req[q].doomed), Shrinks(s)
        PROVE  Swept(s, req[q].doomed)'
    BY <1>1, <1>4 DEF Swept, Shrinks
  <1> QED
    BY <1>1, <1>3, <1>4, RestMove DEF RestInv

LEMMA TeamNextRests ==
    ASSUME SimInv, RestInv, [TeamNext]_<<vars, teamVars>>
    PROVE  RestInv'
  <1>1. ASSUME NEW r \in Requests, TeamRequestStep(r)
        PROVE  RestInv'
    BY <1>1, RestCreate, RestRetry, RestDelete, RestDissolve DEF TeamRequestStep, workerVars
  <1>2. CASE \/ \E r \in Requests, u \in Members, route \in TeamRoutes : Enter(r, u, route)
             \/ \E r \in Requests : AdminEnter(r) \/ Turned(r)
             \/ TeamAtRest
             \/ UNCHANGED <<vars, teamVars>>
    BY <1>2, RestStutter
    DEF Enter, AdminEnter, Admit, Turned, TeamAtRest, AtRest, vars, teamVars, apiVars,
        workerVars
  <1>3. ASSUME NEW c \in Clients, PoolStep(c)
        PROVE  RestInv'
    BY <1>3, RestStutter DEF PoolStep, AccountStep, apiVars, workerVars, teamVars
  <1>4. ASSUME NEW w \in Workers, TeamPushStep(w)
        PROVE  RestInv'
    BY <1>4, RestPush DEF TeamPushStep, teamVars
  <1>5. CASE ClockStep /\ UNCHANGED teamVars
    BY <1>5, RestStutter DEF ClockStep, apiVars, workerVars, teamVars
  <1> QED
    BY <1>1, <1>2, <1>3, <1>4, <1>5 DEF TeamNext

LEMMA InitRests == TeamInit => RestInv
  <1> SUFFICES ASSUME TeamInit
               PROVE  RestInv
    OBVIOUS
  <1>1. \A r \in Requests : Sole(req[r]) /\ ~Past(req[r])
    BY DEF TeamInit, Init, InitApi, NoRequest, Sole, Past
  <1>2. issued = {} /\ gone = {} /\ resting = [r \in Requests |-> {}]
    BY DEF TeamInit, Init, InitApi
  <1> QED
    BY <1>1, <1>2 DEF RestInv

(***************************************************************************)
(* When a hard delete of the team has run to its end, no blob is left of a *)
(* simulation that nobody was handling when the blobs were listed and that *)
(* no member has retried or deleted since (delete_team); it holds for any  *)
(* number of members, workers and other simulations.                       *)
(***************************************************************************)
THEOREM DissolutionsSweepRestingRuns == TeamSpec => []DissolvedTeamsKeepNoRestingRuns
  <1>1. TeamInit => TeamInv /\ RestInv
    BY InitDispatches, InitRests
  <1>2. TeamInv /\ RestInv /\ [TeamNext]_<<vars, teamVars>> => (TeamInv /\ RestInv)'
    BY TeamNextDispatches, TeamNextRests DEF TeamInv, DispatchInv
  <1>3. RestInv => DissolvedTeamsKeepNoRestingRuns
    <2> SUFFICES ASSUME RestInv, NEW x \in BlobsUnder(gone)
                 PROVE  FALSE
      BY DEF DissolvedTeamsKeepNoRestingRuns
    <2>1. x[1] \in gone /\ x[2] \in BlobNames /\ x = <<x[1], x[2]>> /\ BlobExists(x)
      BY DEF BlobsUnder
    <2> QED
      BY <2>1 DEF RestInv, Swept
  <1> QED
    BY <1>1, <1>2, <1>3, PTL DEF TeamSpec
==============================================================================
