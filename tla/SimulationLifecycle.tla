------------------------- MODULE SimulationLifecycle -------------------------
(***************************************************************************)
(* The API, the workers, the account and the clock together: everything    *)
(* that happens to one user's simulations.                                 *)
(***************************************************************************)
EXTENDS SimulationApi, SimulationWorker

ASSUME CallersAreDistinct == Requests \cap Workers = {}

vars == <<storeVars, simVars, apiVars, workerVars>>

Init ==
    /\ InitStore
    /\ InitSimulations
    /\ InitApi
    /\ InitWorkers

\* a repository call that is under way takes its next step
AccountStep(c) ==
    /\ Read(c) \/ Seed(c) \/ Write(c)
    /\ UNCHANGED <<simVars, apiVars, workerVars>>

ApiStep(r) ==
    /\ RequestStart(r) \/ RequestStep(r) \/ Abort(r)
    /\ UNCHANGED workerVars

PushStep(w) ==
    /\ (\E s \in SimIds : Deliver(w, s))
          \/ WorkerStep(w) \/ Crash(w) \/ Redeliver(w) \/ StorageRaises(w)
    /\ UNCHANGED apiVars

ClockStep ==
    /\ Tick
    /\ UNCHANGED <<simVars, apiVars, workerVars>>

\* nobody has anything left to do
Quiescent ==
    /\ \A r \in Requests : req[r] = NoRequest
    /\ \A w \in Workers : job[w] = NoJob
    /\ \A s \in SimIds : queue[s] = 0

\* the system has come to rest at its bounds
AtRest ==
    /\ Quiescent
    /\ month = LastPeriod
    /\ UNCHANGED vars

Next ==
    \/ \E c \in Clients : AccountStep(c)
    \/ \E r \in Requests : ApiStep(r)
    \/ \E w \in Workers : PushStep(w)
    \/ ClockStep
    \/ AtRest

Spec == Init /\ [][Next]_vars

(***************************************************************************)
(* The event loop resumes every coroutine whose storage call has returned, *)
(* the blob store answers, and Pub/Sub goes on delivering a message until  *)
(* a push is acknowledged.  Nothing obliges users to send requests, or     *)
(* anything to fail.                                                       *)
(***************************************************************************)
Fairness ==
    /\ \A c \in Clients : WF_vars(AccountStep(c))
    /\ \A r \in Requests : WF_vars(RequestStep(r) /\ UNCHANGED workerVars)
    /\ \A w \in Workers : WF_vars(WorkerStep(w) /\ UNCHANGED apiVars)
    /\ \A s \in SimIds :
          WF_vars((\E w \in Workers : Deliver(w, s)) /\ UNCHANGED apiVars)

FairSpec == Spec /\ Fairness
-----------------------------------------------------------------------------
(***************************************************************************)
(* Types of the composed state.                                            *)
(***************************************************************************)
LifecycleTypeOK ==
    /\ TypeOK
    /\ SimulationTypeOK
    /\ \A r \in Requests : req[r].sid \in SimIds \cup {Absent}
                              /\ req[r].doomed \subseteq SimIds \X BlobNames
    /\ \A w \in Workers : job[w].sid \in SimIds \cup {Absent}
                              /\ job[w].record \in CostRecord \cup {Absent}

(***************************************************************************)
(* A run that can still be listed and is done has its results: GET         *)
(* /simulations/{id}/results answers "Results not found" only while the    *)
(* simulation is being deleted (its config is gone).  Held up by the order *)
(* of run.py's steps 5 and 7, and by the order in which a prefix delete    *)
(* removes blobs, under duplicate deliveries, reruns, deletes and account  *)
(* wipes at any moment.                                                    *)
(***************************************************************************)
DoneHasResults ==
    \A s \in Listed : ResultsAnswer(s) # "no results"

(***************************************************************************)
(* "A simulation is already running": at most one simulation of a user is  *)
(* pending, running or retried at a time (create_simulation and            *)
(* retry_simulation answer 409 otherwise).                                 *)
(***************************************************************************)
OneActive == Cardinality(Active) <= 1

(***************************************************************************)
(* Until a month ends or a submission is cut off, the account's counter    *)
(* is, when everything has settled, the sum of what the cost records say   *)
(* was charged and not refunded, the records of earlier attempts included. *)
(* It needs the read-modify-writes of the API and of the workers never to  *)
(* overlap, which nothing enforces but the order of run.py's steps: all    *)
(* billing is over before the status leaves ACTIVE_STATUSES.               *)
(***************************************************************************)
LedgerExact ==
    Quiescent /\ account # Absent /\ month = 1 /\ aborts = 0 =>
        account.tokens_used = retired + MapThenSumSet(NetChargeOf, SimIds)

(***************************************************************************)
(* No free results: a simulation that is done was charged at least its     *)
(* estimate for that attempt and has not been refunded, although the same  *)
(* simulation may have failed and been refunded before a retry.            *)
(***************************************************************************)
DoneRunsArePaid ==
    \A s \in Listed :
        StatusOf(s) = "done" =>
            /\ cost[s] # Absent
            /\ ~cost[s].refunded
            /\ cost[s].tokens_charged >= cost[s].estimated_tokens

(***************************************************************************)
(* "Failed runs cost nothing" (run.py, fail): when every run ever          *)
(* submitted has failed without completing, and everything has settled,    *)
(* nothing is charged to the current month.                                *)
(***************************************************************************)
OnlyFailures ==
    /\ retired = 0
    /\ \A s \in SimIds : cost[s] # Absent =>
          /\ trail[s] # Absent
          /\ StatusOf(s) = "failed"
          /\ cost[s].actual_tokens = Absent

UsedThisMonth ==
    IF account = Absent \/ account.usage_period < month THEN 0 ELSE account.tokens_used

FailedRunsCostNothing == Quiescent /\ OnlyFailures => UsedThisMonth = 0

(***************************************************************************)
(* The part of it that run.py keeps: failed runs cost nothing while the    *)
(* month they were submitted in lasts, no submission is cut off between    *)
(* its debit and its cost record, and the storage answers the worker.      *)
(***************************************************************************)
FailedRunsRefundedInTime == month = 1 /\ aborts = 0 => FailedRunsCostNothing

(***************************************************************************)
(* The month a run is billed to keeps its charge: when everything has      *)
(* settled, no cost record claims a net charge in this month that the      *)
(* account does not count, although runs straddle the end of a month.      *)
(***************************************************************************)
ChargeThisMonth(s) ==
    IF cost[s] # Absent /\ cost[s].period = month THEN NetChargeOf(s) ELSE 0

ThisMonthsChargesCounted ==
    Quiescent => UsedThisMonth >= MapThenSumSet(ChargeThisMonth, SimIds)

(***************************************************************************)
(* The life of a simulation, event by event, as its trail records it.      *)
(***************************************************************************)
MayFollow(before, after) ==
    \/ before \in {"pending", "retried"} /\ after = "running"
    \/ before = "running" /\ after \in {"done", "failed"}
    \/ before \in {"done", "failed"} /\ after = "retried"

TrailTellsLifecycle ==
    \A s \in SimIds : trail[s] # Absent =>
        /\ trail[s][1] = "pending"
        /\ \A i \in 1 .. Len(trail[s]) - 1 : MayFollow(trail[s][i], trail[s][i + 1])

(***************************************************************************)
(* No simulation stays active for ever: pending, running or retried is     *)
(* always left for done or failed (or the simulation deleted), whatever    *)
(* crashes, redeliveries and concurrent requests there are, provided the   *)
(* requests that submit it are not cut off half way.                       *)
(***************************************************************************)
EveryRunSettles == \A s \in SimIds : s \in Active ~> s \notin Active
==============================================================================
