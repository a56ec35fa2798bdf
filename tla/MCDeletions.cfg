\* two requests at once that submit, rerun, delete and clear one simulation, one
\* worker; an early redelivery
CONSTANTS
    Unlimited = Unlimited
    Absent = Absent
    r1 = r1
    r2 = r2
    w1 = w1
    w2 = w2
    DefaultMotorLimit = 1
    DefaultSimulationLimit = 2
    DefaultTokenLimit = 7
    Requests <- TwoRequests
    Workers <- OneWorker
    Clients <- Client21
    Operations = {}
    LastPeriod = 1
    SimIds = {1}
    Estimates = {1}
    Actuals = {1}
    Kinds <- Deletions
    UserRole = "member"
    MaxRequests = 3
    MaxAborts = 0
    MaxFaults = 0
    MaxCrashes = 0
    MaxRedeliveries = 1
SYMMETRY SymmetricRequests
SPECIFICATION Spec
INVARIANTS
    DoneHasResults
