-------------------------- MODULE SimulationWorker --------------------------
(***************************************************************************)
(* The workers: POST /pubsub/push of app/worker/server.py, which runs      *)
(* run() of app/worker/run.py inside the push request.  Delivery is        *)
(* at-least-once: a push that does not answer with 2xx, or not before its  *)
(* ack deadline, is delivered again, possibly while the first still runs.  *)
(*                                                                         *)
(*   config -> status_read -> status_write("running") -> simulate          *)
(*      -> results -> reconcile [-> overage [-> partial]] -> cost_save     *)
(*      -> status_read -> status_write("done") -> ack                      *)
(*                                                                         *)
(* and from config, simulate and results, on an exception, fail():         *)
(*                                                                         *)
(*   fail_cost [-> refund -> refund_save]                                  *)
(*      -> status_read -> status_write("failed") -> ack                    *)
(***************************************************************************)
EXTENDS SimulationStore

CONSTANTS
    Workers,            \* the worker instances
    Actuals,            \* what compute_actual_tokens may give a run
    MaxFaults,          \* bound: how often the blob store raises on a worker
    MaxCrashes,         \* bound: how often a push request fails or dies
    MaxRedeliveries     \* bound: how often an ack deadline passes too early

ASSUME ActualsAssumption == Actuals \subseteq Nat \ {0}

ASSUME WorkersAreClients == Workers \subseteq Clients

VARIABLES
    job,            \* job[w]: the message worker w handles and how far it is
    faults,         \* history: for MaxFaults
    crashes,        \* history: for MaxCrashes
    redeliveries    \* history: for MaxRedeliveries

workerVars == <<job, faults, crashes, redeliveries>>

workerCounters == <<faults, crashes, redeliveries>>

NoJob ==
    [at |-> "idle", sid |-> Absent, next |-> "running", actual |-> Absent,
     record |-> Absent, events |-> << >>]

InitWorkers ==
    /\ job = [w \in Workers |-> NoJob]
    /\ faults = 0
    /\ crashes = 0
    /\ redeliveries = 0

On(w, stage) == job[w].at = stage

Turn(w, stage) == job' = [job EXCEPT ![w].at = stage]

\* _set_status(status)
Announce(w, status) ==
    job' = [job EXCEPT ![w] = [NoJob EXCEPT !.at = "status_read", !.sid = job[w].sid,
                                            !.next = status]]
-----------------------------------------------------------------------------
Deliver(w, s) ==
    /\ job[w] = NoJob
    /\ queue[s] > 0
    /\ queue' = [queue EXCEPT ![s] = @ - 1]
    /\ job' = [job EXCEPT ![w].at = "config", ![w].sid = s]
    /\ UNCHANGED <<storeVars, blobs, retired, workerCounters>>

\* 1. Read simulation config
ReadConfig(w) ==
    /\ On(w, "config")
    /\ IF config[job[w].sid] = Absent
       THEN Turn(w, "fail_cost")
       ELSE Announce(w, "running")
    /\ UNCHANGED <<storeVars, simVars, workerCounters>>

\* append_status_event
ReadStatus(w) ==
    /\ On(w, "status_read")
    /\ job' = [job EXCEPT ![w].at = "status_write",
                          ![w].events = RecordToAppendTo(job[w].sid)]
    /\ UNCHANGED <<storeVars, simVars, workerCounters>>

WriteStatus(w) ==
    /\ On(w, "status_write")
    /\ trail' = [trail EXCEPT ![job[w].sid] = Append(job[w].events, job[w].next)]
    /\ job' = [job EXCEPT ![w].at = IF job[w].next = "running" THEN "simulate" ELSE "ack",
                          ![w].events = << >>]
    /\ UNCHANGED <<storeVars, config, cost, results, queue, retired, workerCounters>>

\* 3. Build machwave objects, 4. Run simulation: it may raise
Simulate(w) ==
    /\ On(w, "simulate")
    /\ \/ \E a \in Actuals : job' = [job EXCEPT ![w].at = "results", ![w].actual = a]
       \/ Turn(w, "fail_cost")
    /\ UNCHANGED <<storeVars, simVars, workerCounters>>

\* 5. Store results
SaveResults(w) ==
    /\ On(w, "results")
    /\ results' = [results EXCEPT ![job[w].sid] = TRUE]
    /\ Turn(w, "reconcile")
    /\ UNCHANGED <<storeVars, config, trail, cost, queue, retired, workerCounters>>
-----------------------------------------------------------------------------
(***************************************************************************)
(* 6. Post-charge: reconcile estimate against actual.  Only an overage is  *)
(* charged, and when it does not fit, what is left of the cap.             *)
(***************************************************************************)
Reconcile(w) ==
    /\ On(w, "reconcile")
    /\ LET record == cost[job[w].sid]
           delta  == job[w].actual - record.estimated_tokens
       IN IF record # Absent /\ record.actual_tokens = Absent
          THEN /\ job' = [job EXCEPT ![w].at = IF delta > 0 THEN "overage" ELSE "cost_save",
                                     ![w].record = record]
               /\ IF delta > 0 THEN Invoke(w, Debit(delta)) ELSE UNCHANGED call
          ELSE Announce(w, "done") /\ UNCHANGED call
    /\ UNCHANGED <<account, month, simVars, workerCounters>>

\* tokens_charged += charged
Charged(w, tokens) ==
    job' = [job EXCEPT ![w].at = "cost_save", ![w].record.tokens_charged = @ + tokens]

Overage(w) ==
    /\ On(w, "overage")
    /\ LET delta == job[w].actual - job[w].record.estimated_tokens
       IN \/ call[w].at = "returned" /\ Charged(w, delta) /\ Forget(w)
          \/ /\ call[w].at = "rejected"
             /\ IF Remaining(w) > 0
                THEN Turn(w, "partial") /\ Invoke(w, Debit(Remaining(w)))
                ELSE Turn(w, "cost_save") /\ Forget(w)
          \/ call[w].at = "raised" /\ Announce(w, "done") /\ Forget(w)
    /\ UNCHANGED <<account, month, simVars, workerCounters>>

\* a second rejection is an exception of its own: the cost record stays unsaved
Partial(w) ==
    /\ On(w, "partial")
    /\ \/ call[w].at = "returned" /\ Charged(w, call[w].op.tokens)
       \/ call[w].at \in {"rejected", "raised"} /\ Announce(w, "done")
    /\ Forget(w)
    /\ UNCHANGED <<account, month, simVars, workerCounters>>

\* a record that keeps the difference instead of the actual tokens
SaveCostDelta(w) ==
    /\ On(w, "cost_save")
    /\ cost' = [cost EXCEPT ![job[w].sid] =
                    [job[w].record EXCEPT !.actual_tokens = job[w].actual - job[w].record.estimated_tokens]]
    /\ Announce(w, "done")
    /\ UNCHANGED <<storeVars, config, trail, results, queue, retired, workerCounters>>

SaveCost(w) ==
    /\ On(w, "cost_save")
    /\ cost' = [cost EXCEPT ![job[w].sid] =
                    [job[w].record EXCEPT !.actual_tokens = job[w].actual]]
    /\ Announce(w, "done")
    /\ UNCHANGED <<storeVars, config, trail, results, queue, retired, workerCounters>>
-----------------------------------------------------------------------------
(***************************************************************************)
(* fail(): refund the charge, then mark failed.                            *)
(***************************************************************************)
\* the test of actual_tokens turned round
RefundDueInverted(record) ==
    /\ record # Absent
    /\ record.actual_tokens # Absent
    /\ ~record.refunded
    /\ record.tokens_charged > 0
    /\ record.period = month

RefundDue(record) ==
    /\ record # Absent
    /\ record.actual_tokens = Absent
    /\ ~record.refunded
    /\ record.tokens_charged > 0
    /\ record.period = month

FailCost(w) ==
    /\ On(w, "fail_cost")
    /\ LET record == cost[job[w].sid]
       IN IF RefundDue(record)
          THEN /\ job' = [job EXCEPT ![w].at = "refund", ![w].record = record]
               /\ Invoke(w, Credit(record.tokens_charged))
          ELSE Announce(w, "failed") /\ UNCHANGED call
    /\ UNCHANGED <<account, month, simVars, workerCounters>>

Refunded(w) ==
    /\ On(w, "refund")
    /\ \/ call[w].at = "returned" /\ Turn(w, "refund_save")
       \/ call[w].at = "raised" /\ Announce(w, "failed")
    /\ Forget(w)
    /\ UNCHANGED <<account, month, simVars, workerCounters>>

\* a refund whose flag is never saved
SaveRefundSkipped(w) ==
    /\ On(w, "refund_save")
    /\ Announce(w, "failed")
    /\ UNCHANGED <<storeVars, simVars, workerCounters>>

SaveRefund(w) ==
    /\ On(w, "refund_save")
    /\ cost' = [cost EXCEPT ![job[w].sid] = [job[w].record EXCEPT !.refunded = TRUE]]
    /\ Announce(w, "failed")
    /\ UNCHANGED <<storeVars, config, trail, results, queue, retired, workerCounters>>
-----------------------------------------------------------------------------
\* the push request answers 200
Ack(w) ==
    /\ On(w, "ack")
    /\ job' = [job EXCEPT ![w] = NoJob]
    /\ UNCHANGED <<storeVars, simVars, workerCounters>>

\* a push handler that answers 200 when run() raises
CrashAcked(w) ==
    /\ job[w] # NoJob
    /\ crashes < MaxCrashes
    /\ crashes' = crashes + 1
    /\ job' = [job EXCEPT ![w] = NoJob]
    /\ Forget(w)
    /\ UNCHANGED <<account, month, simVars, faults, redeliveries>>

\* The push request answers 500 (a status write raised), its instance dies, or
\* its answer is lost: the message comes back.
Crash(w) ==
    /\ job[w] # NoJob
    /\ crashes < MaxCrashes
    /\ crashes' = crashes + 1
    /\ job' = [job EXCEPT ![w] = NoJob]
    /\ Forget(w)
    /\ Publish(job[w].sid)
    /\ UNCHANGED <<account, month, blobs, retired, faults, redeliveries>>

\* the ack deadline passes while the worker is still at it
Redeliver(w) ==
    /\ job[w] # NoJob
    /\ redeliveries < MaxRedeliveries
    /\ redeliveries' = redeliveries + 1
    /\ Publish(job[w].sid)
    /\ UNCHANGED <<storeVars, blobs, retired, job, faults, crashes>>

\* handlers of a storage failure that return instead of calling fail()
StorageRaisesSwallowed(w) ==
    /\ faults < MaxFaults
    /\ faults' = faults + 1
    /\ job[w].at \in {"config", "results"}
    /\ Turn(w, "ack")
    /\ UNCHANGED <<storeVars, simVars, crashes, redeliveries>>

(***************************************************************************)
(* The blob store raises where run() catches it: on the config or the      *)
(* results the run fails, in the bookkeeping it goes on without it.        *)
(***************************************************************************)
StorageRaises(w) ==
    /\ faults < MaxFaults
    /\ faults' = faults + 1
    /\ \/ /\ job[w].at \in {"config", "results"}
          /\ Turn(w, "fail_cost")
          /\ UNCHANGED call
       \/ /\ job[w].at \in {"reconcile", "cost_save"}
          /\ Announce(w, "done")
          /\ UNCHANGED call
       \/ /\ job[w].at \in {"fail_cost", "refund_save"}
          /\ Announce(w, "failed")
          /\ UNCHANGED call
       \/ /\ call[w].at \in {"read", "seed", "write"}
          /\ Advance(w, "raised", call[w].doc)
          /\ UNCHANGED job
    /\ UNCHANGED <<account, month, simVars, crashes, redeliveries>>

WorkerStep(w) ==
    \/ ReadConfig(w) \/ ReadStatus(w) \/ WriteStatus(w) \/ Simulate(w) \/ SaveResults(w)
    \/ Reconcile(w) \/ Overage(w) \/ Partial(w) \/ SaveCost(w)
    \/ FailCost(w) \/ Refunded(w) \/ SaveRefund(w) \/ Ack(w)
==============================================================================
