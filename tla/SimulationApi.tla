---------------------------- MODULE SimulationApi ----------------------------
(***************************************************************************)
(* The requests of app/routers/simulations.py that change state: submit,   *)
(* retry, delete, estimate, and an administrator's rerun-all and           *)
(* clear-all, and those of app/routers/users.py that wipe the user's whole *)
(* prefix.  A request is a coroutine: each `await` on the blob store or on *)
(* Pub/Sub is a step of its own, and what it read stays in `req`.          *)
(*                                                                         *)
(* create: create_account  get_or_create, then list_summaries and checks   *)
(*         create_debit    AccountRepository.debit                         *)
(*         create_config, create_status, create_cost   the three saves     *)
(*         publish         trigger_simulation                              *)
(* retry:  retry_checks    config and list_summaries                       *)
(*         retry_account, retry_debit, retry_cost                          *)
(*         append_read, append_write   append_status_event("retried")      *)
(*         publish                                                         *)
(* rerun:  rerun_list, then rerun_next, append_read, append_write, publish *)
(*         for every simulation found                                      *)
(* delete: delete_list, delete_next for every blob listed (clear-all too)  *)
(* wipe:   delete_list, wipe_account, delete_next for every blob listed    *)
(***************************************************************************)
EXTENDS SimulationStore

CONSTANTS
    Requests,       \* the API requests that may be in flight at once
    Kinds,          \* the kinds of request this instance issues
    UserRole,       \* the role claim of the user
    MaxRequests,    \* bound: how many requests are accepted
    MaxAborts       \* bound: how many of them die half way

ASSUME UserRoleAssumption == UserRole \in Roles

ASSUME RequestsAreClients == Requests \subseteq Clients

VARIABLES
    req,            \* req[r]: where request r is, and what it remembers
    issued,         \* history: the simulation ids drawn by uuid4
    requests,       \* history: the requests accepted, for MaxRequests
    aborts          \* history: the requests that died, for MaxAborts

apiVars == <<req, issued, requests, aborts>>

apiCounters == <<issued, requests, aborts>>

NoRequest ==
    [at |-> "idle", kind |-> "none", sid |-> Absent, estimate |-> Absent,
     period |-> Absent, events |-> << >>, sids |-> {}, doomed |-> {}]

InitApi ==
    /\ req = [r \in Requests |-> NoRequest]
    /\ issued = {}
    /\ requests = 0
    /\ aborts = 0

At(r, stage) == req[r].at = stage

Go(r, stage) == req' = [req EXCEPT ![r].at = stage]

Finish(r) == req' = [req EXCEPT ![r] = NoRequest] /\ Forget(r)

\* a request arrives: `start` is what it remembers after its first step
Accept(r, kind, start) ==
    /\ kind \in Kinds
    /\ req[r] = NoRequest
    /\ requests < MaxRequests
    /\ requests' = requests + 1
    /\ req' = [req EXCEPT ![r] = start]
    /\ UNCHANGED aborts
-----------------------------------------------------------------------------
(***************************************************************************)
(* POST /simulations.  The period is taken before the account is read and  *)
(* long before it is debited.                                              *)
(***************************************************************************)
CreateStart(r, s, e) ==
    /\ s \notin issued
    /\ Accept(r, "create", [NoRequest EXCEPT !.at = "create_account", !.kind = "create",
                                !.sid = s, !.estimate = e, !.period = month])
    /\ issued' = issued \cup {s}
    /\ Invoke(r, GetOrCreate(UserRole))
    /\ UNCHANGED <<account, month, simVars>>

\* the 409 of an active simulation left out
MayCreateUnchecked(quota) ==
    quota # Unlimited => Cardinality(Listed) < quota

\* the two 409 answers
MayCreate(quota) ==
    /\ Active = {}
    /\ quota # Unlimited => Cardinality(Listed) < quota

CreateAdmit(r) ==
    /\ At(r, "create_account")
    /\ call[r].at = "returned"
    /\ IF MayCreate(call[r].doc.simulation_limit)
       THEN Go(r, "create_debit") /\ Invoke(r, Debit(req[r].estimate))
       ELSE Finish(r)
    /\ UNCHANGED <<account, month, simVars, apiCounters>>

CreateSaveConfig(r) ==
    /\ At(r, "create_debit")
    /\ call[r].at = "returned"
    /\ config' = [config EXCEPT ![req[r].sid] = req[r].estimate]
    /\ Go(r, "create_status")
    /\ Forget(r)
    /\ UNCHANGED <<account, month, trail, cost, results, queue, retired, apiCounters>>

\* the 402 answer
Reject(r) ==
    /\ req[r].at \in {"create_debit", "retry_debit"}
    /\ call[r].at = "rejected"
    /\ Finish(r)
    /\ UNCHANGED <<account, month, simVars, apiCounters>>

\* a submission that publishes before it saves its cost record
CreatePublishEarly(r) ==
    /\ At(r, "create_status")
    /\ trail' = [trail EXCEPT ![req[r].sid] = <<"pending">>]
    /\ Go(r, "publish")
    /\ UNCHANGED <<storeVars, config, cost, results, queue, retired, apiCounters>>

CreateSaveStatus(r) ==
    /\ At(r, "create_status")
    /\ trail' = [trail EXCEPT ![req[r].sid] = <<"pending">>]
    /\ Go(r, "create_cost")
    /\ UNCHANGED <<storeVars, config, cost, results, queue, retired, apiCounters>>

\* the cost record of a submission
NewCost(r) ==
    [estimated_tokens |-> req[r].estimate,
     actual_tokens    |-> Absent,
     tokens_charged   |-> req[r].estimate,
     period           |-> req[r].period,
     refunded         |-> FALSE]

CreateSaveCost(r) ==
    /\ At(r, "create_cost")
    /\ cost' = [cost EXCEPT ![req[r].sid] = NewCost(r)]
    /\ Go(r, "publish")
    /\ UNCHANGED <<storeVars, config, trail, results, queue, retired, apiCounters>>
-----------------------------------------------------------------------------
(***************************************************************************)
(* POST /simulations/{id}/retry                                            *)
(***************************************************************************)
RetryStart(r, s) ==
    /\ trail[s] # Absent
    /\ StatusOf(s) \in {"done", "failed"}
    /\ Accept(r, "retry", [NoRequest EXCEPT !.at = "retry_checks", !.kind = "retry",
                               !.sid = s])
    /\ UNCHANGED <<storeVars, simVars, issued>>

RetryAdmit(r) ==
    /\ At(r, "retry_checks")
    /\ LET s == req[r].sid
       IN IF config[s] # Absent /\ Active \subseteq {s}
          THEN /\ req' = [req EXCEPT ![r].at = "retry_account",
                                     ![r].estimate = config[s],
                                     ![r].period = month]
               /\ Invoke(r, GetOrCreate(UserRole))
          ELSE Finish(r)
    /\ UNCHANGED <<account, month, simVars, apiCounters>>

RetryDebit(r) ==
    /\ At(r, "retry_account")
    /\ call[r].at = "returned"
    /\ Go(r, "retry_debit")
    /\ Invoke(r, Debit(req[r].estimate))
    /\ UNCHANGED <<account, month, simVars, apiCounters>>

\* a retry that leaves the cost record of the previous attempt in place
RetryKeepCost(r) ==
    /\ At(r, "retry_debit")
    /\ call[r].at = "returned"
    /\ Go(r, "append_read")
    /\ Forget(r)
    /\ UNCHANGED <<account, month, simVars, apiCounters>>

RetrySaveCost(r) ==
    /\ At(r, "retry_debit")
    /\ call[r].at = "returned"
    /\ retired' = retired + NetChargeOf(req[r].sid)
    /\ cost' = [cost EXCEPT ![req[r].sid] = NewCost(r)]
    /\ Go(r, "append_read")
    /\ Forget(r)
    /\ UNCHANGED <<account, month, config, trail, results, queue, apiCounters>>
-----------------------------------------------------------------------------
(***************************************************************************)
(* POST /admin/simulations/rerun-all: neither a charge nor a check of the  *)
(* status.                                                                 *)
(***************************************************************************)
RerunStart(r) ==
    /\ Accept(r, "rerun", [NoRequest EXCEPT !.at = "rerun_next", !.kind = "rerun",
                               !.sids = SimulationPairs])
    /\ UNCHANGED <<storeVars, simVars, issued>>

\* the next simulation of the listing, skipped when it has no config
RerunNext(r) ==
    /\ At(r, "rerun_next")
    /\ \/ \E s \in req[r].sids :
             /\ \A t \in req[r].sids : s <= t
             /\ req' = [req EXCEPT ![r].sids = @ \ {s},
                                   ![r].sid = s,
                                   ![r].at = IF config[s] = Absent
                                             THEN "rerun_next"
                                             ELSE "append_read"]
             /\ UNCHANGED call
       \/ /\ req[r].sids = {}
          /\ Finish(r)
    /\ UNCHANGED <<account, month, simVars, apiCounters>>
-----------------------------------------------------------------------------
(***************************************************************************)
(* append_status_event("retried") and trigger_simulation, the common end   *)
(* of submissions.                                                         *)
(***************************************************************************)
AppendRead(r) ==
    /\ At(r, "append_read")
    /\ req' = [req EXCEPT ![r].at = "append_write",
                          ![r].events = RecordToAppendTo(req[r].sid)]
    /\ UNCHANGED <<storeVars, simVars, apiCounters>>

AppendWrite(r) ==
    /\ At(r, "append_write")
    /\ trail' = [trail EXCEPT ![req[r].sid] = Append(req[r].events, "retried")]
    /\ Go(r, "publish")
    /\ UNCHANGED <<storeVars, config, cost, results, queue, retired, apiCounters>>

Trigger(r) ==
    /\ At(r, "publish")
    /\ Publish(req[r].sid)
    /\ IF req[r].kind = "rerun"
       THEN Go(r, "rerun_next") /\ UNCHANGED call
       ELSE Finish(r)
    /\ UNCHANGED <<account, month, config, trail, cost, results, retired, apiCounters>>
-----------------------------------------------------------------------------
(***************************************************************************)
(* DELETE /simulations/{id}, DELETE /admin/simulations/clear-all, and      *)
(* DELETE /users/{uid}/clear, which takes account.json along.  The prefix  *)
(* is listed once; each listed blob is then deleted by a call of its own,  *)
(* in the order of the listing, and one that is gone already raises        *)
(* NotFound.                                                               *)
(***************************************************************************)
DeleteStart(r, s) ==
    /\ trail[s] # Absent
    /\ Accept(r, "delete", [NoRequest EXCEPT !.at = "delete_list", !.kind = "delete",
                                !.sids = {s}])
    /\ UNCHANGED <<storeVars, simVars, issued>>

ClearStart(r) ==
    /\ Accept(r, "clear", [NoRequest EXCEPT !.at = "delete_list", !.kind = "clear",
                               !.sids = SimIds])
    /\ UNCHANGED <<storeVars, simVars, issued>>

\* delete_account and admin_delete_user wipe the same prefix
WipeStart(r) ==
    /\ Accept(r, "wipe", [NoRequest EXCEPT !.at = "delete_list", !.kind = "wipe",
                              !.sids = SimIds])
    /\ UNCHANGED <<storeVars, simVars, issued>>

DeleteList(r) ==
    /\ At(r, "delete_list")
    /\ req' = [req EXCEPT ![r].at = IF req[r].kind = "wipe" /\ account # Absent
                                    THEN "wipe_account"
                                    ELSE "delete_next",
                          ![r].doomed = BlobsUnder(req[r].sids)]
    /\ UNCHANGED <<storeVars, simVars, apiCounters>>

\* account.json sorts before simulations/
WipeAccount(r) ==
    /\ At(r, "wipe_account")
    /\ account' = Absent
    /\ IF account = Absent THEN Finish(r) ELSE Go(r, "delete_next") /\ UNCHANGED call
    /\ UNCHANGED <<month, simVars, apiCounters>>

DeleteNext(r) ==
    /\ At(r, "delete_next")
    /\ \/ \E x \in req[r].doomed :
             /\ \A y \in req[r].doomed \ {x} : ListedBefore(x, y)
             /\ IF BlobExists(x)
                THEN req' = [req EXCEPT ![r].doomed = @ \ {x}] /\ UNCHANGED call
                ELSE Finish(r)
             /\ DeleteBlob(x)
       \/ /\ req[r].doomed = {}
          /\ Finish(r)
          /\ UNCHANGED <<blobs, retired>>
    /\ UNCHANGED <<account, month, queue, apiCounters>>
-----------------------------------------------------------------------------
(***************************************************************************)
(* GET /me/account, GET /me/usage, POST /simulations/estimate: reads that  *)
(* may seed or roll the account all the same.                              *)
(***************************************************************************)
ViewStart(r) ==
    /\ Accept(r, "view", [NoRequest EXCEPT !.at = "view", !.kind = "view"])
    /\ Invoke(r, GetOrCreate(UserRole))
    /\ UNCHANGED <<account, month, simVars, issued>>

ViewEnd(r) ==
    /\ At(r, "view")
    /\ call[r].at = "returned"
    /\ Finish(r)
    /\ UNCHANGED <<account, month, simVars, apiCounters>>

\* GET /simulations/{id}/results, had it read its three blobs at this moment
ResultsAnswer(s) ==
    CASE trail[s] = Absent                                  -> "no simulation"
      [] trail[s] # Absent /\ StatusOf(s) = "failed"        -> "failed"
      [] trail[s] # Absent /\ StatusOf(s) \in ACTIVE_STATUSES -> "not complete"
      [] OTHER -> IF ~results[s] THEN "no results"
                  ELSE IF config[s] = Absent THEN "no config" ELSE "results"

\* The instance dies, the client's timeout cancels the coroutine, the blob
\* store raises or Pub/Sub refuses the message: what is written stays written.
Abort(r) ==
    /\ req[r] # NoRequest
    /\ aborts < MaxAborts
    /\ aborts' = aborts + 1
    /\ Finish(r)
    /\ UNCHANGED <<account, month, simVars, issued, requests>>

RequestStep(r) ==
    \/ CreateAdmit(r) \/ CreateSaveConfig(r) \/ CreateSaveStatus(r) \/ CreateSaveCost(r)
    \/ RetryAdmit(r) \/ RetryDebit(r) \/ RetrySaveCost(r) \/ Reject(r)
    \/ RerunNext(r) \/ AppendRead(r) \/ AppendWrite(r) \/ Trigger(r)
    \/ DeleteList(r) \/ WipeAccount(r) \/ DeleteNext(r) \/ ViewEnd(r)

RequestStart(r) ==
    \/ \E s \in SimIds : (\E e \in Estimates : CreateStart(r, s, e))
                            \/ RetryStart(r, s) \/ DeleteStart(r, s)
    \/ RerunStart(r) \/ ClearStart(r) \/ WipeStart(r) \/ ViewStart(r)
==============================================================================
