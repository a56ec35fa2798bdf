\* two requests at once submit
CONSTANTS
    Unlimited = Unlimited
    Absent = Absent
    r1 = r1
    r2 = r2
    w1 = w1
    w2 = w2
    DefaultMotorLimit = 1
    DefaultSimulationLimit = 2
    DefaultTokenLimit = 7
    Requests <- TwoRequests
    Workers <- TwoWorkers
    Clients <- Client22
    Operations = {}
    LastPeriod = 1
    SimIds = {1, 2}
    Estimates = {1}
    Actuals = {1}
    Kinds <- Creations
    UserRole = "member"
    MaxRequests = 2
    MaxAborts = 0
    MaxFaults = 0
    MaxCrashes = 0
    MaxRedeliveries = 0
SYMMETRY SymmetricWorkers
SPECIFICATION Spec
INVARIANTS
    OneActive
