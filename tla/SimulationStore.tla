--------------------------- MODULE SimulationStore ---------------------------
(***************************************************************************)
(* The blobs of one user's simulations, users/{uid}/simulations/{sid}/,    *)
(* and the Pub/Sub topic that carries simulation ids to the workers        *)
(* (app/repositories/simulation.py, app/repositories/cost.py,              *)
(* app/schemas/simulation.py, app/worker/dispatch.py).  The API and the    *)
(* workers share nothing else, besides account.json.                       *)
(***************************************************************************)
EXTENDS AccountStore, Sequences, SequencesExt, FiniteSets, FiniteSetsExt

CONSTANTS
    SimIds,         \* simulation ids, as numbers: uuids only have an order
    Estimates       \* what estimate_tokens may give a configuration

ASSUME SimIdsAssumption == SimIds \subseteq Nat
ASSUME EstimatesAssumption == Estimates \subseteq Nat \ {0}

VARIABLES
    config,         \* config[s]: the estimate its configuration has, or Absent
    trail,          \* trail[s]: the events of status.json, or Absent
    cost,           \* cost[s]: cost.json, or Absent
    results,        \* results[s]: whether results.json exists
    queue,          \* queue[s]: the undelivered messages that name s
    retired         \* history: net charges of overwritten or deleted cost.json

blobs == <<config, trail, cost, results>>

simVars == <<config, trail, cost, results, queue, retired>>

Status == {"pending", "running", "done", "failed", "retried"}

ACTIVE_STATUSES == {"pending", "running", "retried"}

CostRecord ==
    [estimated_tokens : Nat,
     actual_tokens    : Nat \cup {Absent},
     tokens_charged   : Nat,
     period           : Nat,
     refunded         : BOOLEAN]

\* a missing blob is told apart from what a blob may hold
ASSUME AbsentIsNoBlob == Absent \notin Nat \cup CostRecord \cup Seq(Status)

NetCharge(record) == IF record.refunded THEN 0 ELSE record.tokens_charged

NetChargeOf(s) == IF cost[s] = Absent THEN 0 ELSE NetCharge(cost[s])

\* SimulationStatusRecord.status: the latest event
StatusOf(s) == Last(trail[s])

\* list_summaries skips a simulation whose status or config is missing
Listed == {s \in SimIds : trail[s] # Absent /\ config[s] # Absent}

Active == {s \in Listed : StatusOf(s) \in ACTIVE_STATUSES}

\* an append that never loads the record
RecordForgotten(s) == << >>

\* append_status_event starts an empty record when there is none
RecordToAppendTo(s) == IF trail[s] = Absent THEN << >> ELSE trail[s]

(***************************************************************************)
(* The blobs of a simulation in the order the store lists them, which is   *)
(* the order delete_prefix deletes them in, one after the other.           *)
(***************************************************************************)
BlobNames == {"config.json", "cost.json", "results.json", "status.json"}

\* the listing order turned round
RankReversed == [b \in BlobNames |->
            CASE b = "status.json"  -> 1
              [] b = "results.json" -> 2
              [] b = "cost.json"    -> 3
              [] b = "config.json"  -> 4]

Rank == [b \in BlobNames |->
            CASE b = "config.json"  -> 1
              [] b = "cost.json"    -> 2
              [] b = "results.json" -> 3
              [] b = "status.json"  -> 4]

ListedBefore(x, y) == x[1] < y[1] \/ (x[1] = y[1] /\ Rank[x[2]] < Rank[y[2]])

BlobExists(x) ==
    CASE x[2] = "config.json"  -> config[x[1]] # Absent
      [] x[2] = "cost.json"    -> cost[x[1]] # Absent
      [] x[2] = "results.json" -> results[x[1]]
      [] x[2] = "status.json"  -> trail[x[1]] # Absent

BlobsUnder(sids) == {x \in sids \X BlobNames : BlobExists(x)}

DeleteBlob(x) ==
    /\ config'  = IF x[2] = "config.json" THEN [config EXCEPT ![x[1]] = Absent] ELSE config
    /\ cost'    = IF x[2] = "cost.json" THEN [cost EXCEPT ![x[1]] = Absent] ELSE cost
    /\ results' = IF x[2] = "results.json" THEN [results EXCEPT ![x[1]] = FALSE] ELSE results
    /\ trail'   = IF x[2] = "status.json" THEN [trail EXCEPT ![x[1]] = Absent] ELSE trail
    /\ retired' = IF x[2] = "cost.json" THEN retired + NetChargeOf(x[1]) ELSE retired

\* list_all_simulation_pairs
SimulationPairs == {s \in SimIds : BlobsUnder({s}) # {}}

\* trigger_simulation
Publish(s) == queue' = [queue EXCEPT ![s] = @ + 1]

InitSimulations ==
    /\ config = [s \in SimIds |-> Absent]
    /\ trail = [s \in SimIds |-> Absent]
    /\ cost = [s \in SimIds |-> Absent]
    /\ results = [s \in SimIds |-> FALSE]
    /\ queue = [s \in SimIds |-> 0]
    /\ retired = 0

SimulationTypeOK ==
    /\ config \in [SimIds -> Estimates \cup {Absent}]
    /\ trail \in [SimIds -> Seq(Status) \cup {Absent}]
    /\ \A s \in SimIds : trail[s] # << >>
    /\ cost \in [SimIds -> CostRecord \cup {Absent}]
    /\ results \in [SimIds -> BOOLEAN]
    /\ queue \in [SimIds -> Nat]
    /\ retired \in Nat
==============================================================================
