\* one simulation is submitted, then retried or rerun; two workers, one crash
CONSTANTS
    Unlimited = Unlimited
    Absent = Absent
    r1 = r1
    r2 = r2
    w1 = w1
    w2 = w2
    DefaultMotorLimit = 1
    DefaultSimulationLimit = 2
    DefaultTokenLimit = 7
    Requests <- TwoRequests
    Workers <- TwoWorkers
    Clients <- Client22
    Operations = {}
    LastPeriod = 1
    SimIds = {1}
    Estimates = {1}
    Actuals = {1}
    Kinds <- Resubmissions
    UserRole = "member"
    MaxRequests = 2
    MaxAborts = 0
    MaxFaults = 0
    MaxCrashes = 1
    MaxRedeliveries = 0
SPECIFICATION FairSpec
PROPERTIES
    EveryRunSettles
