--------------------------- MODULE MCSimulations ---------------------------
(***************************************************************************)
(* Small instances of SimulationLifecycle.                                 *)
(***************************************************************************)
EXTENDS SimulationLifecycle, TLC

CONSTANTS r1, r2, w1, w2

OneRequest == {r1}
TwoRequests == {r1, r2}

OneWorker == {w1}
TwoWorkers == {w1, w2}

Client12 == OneRequest \cup TwoWorkers
Client21 == TwoRequests \cup OneWorker
Client22 == TwoRequests \cup TwoWorkers

SymmetricWorkers == Permutations(TwoWorkers)
SymmetricRequests == Permutations(TwoRequests)

\* the kinds of request that a run issues
Creations == {"create"}
Resubmissions == {"create", "retry", "rerun"}
Deletions == {"create", "rerun", "delete", "clear", "wipe"}
Reads == {"create", "retry", "view"}
==============================================================================
