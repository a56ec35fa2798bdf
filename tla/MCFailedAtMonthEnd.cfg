\* one submission around the end of a month
CONSTANTS
    Unlimited = Unlimited
    Absent = Absent
    r1 = r1
    r2 = r2
    w1 = w1
    w2 = w2
    DefaultMotorLimit = 1
    DefaultSimulationLimit = 2
    DefaultTokenLimit = 7
    Requests <- OneRequest
    Workers <- TwoWorkers
    Clients <- Client12
    Operations = {}
    LastPeriod = 2
    SimIds = {1}
    Estimates = {2}
    Actuals = {1}
    Kinds <- Creations
    UserRole = "member"
    MaxRequests = 1
    MaxAborts = 0
    MaxFaults = 0
    MaxCrashes = 0
    MaxRedeliveries = 0
SYMMETRY SymmetricWorkers
SPECIFICATION Spec
INVARIANTS
    FailedRunsCostNothing
