\* two requests at once, one worker; a request cut off, an access of the worker
\* to storage refused, the end of a month
CONSTANTS
    Unlimited = Unlimited
    Absent = Absent
    r1 = r1
    r2 = r2
    w1 = w1
    u1 = u1
    DefaultMotorLimit = 1
    DefaultSimulationLimit = 2
    DefaultTokenLimit = 3
    Requests <- TwoRequests
    Workers <- OneWorker
    Clients <- TeamClients
    Operations = {}
    LastPeriod = 2
    SimIds = {1}
    Estimates = {1}
    Actuals = {1}
    Kinds <- EveryRoute
    UserRole = "member"
    MaxRequests = 3
    MaxAborts = 1
    MaxFaults = 1
    MaxCrashes = 0
    MaxRedeliveries = 0
    Members <- OneMember
SYMMETRY Symmetric
SPECIFICATION TeamSpec
INVARIANTS
    DissolvedTeamsKeepNoRestingRuns
    TeamDispatchesAreComplete
    OnlyCutOffSubmissionsStrand
