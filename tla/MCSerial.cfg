\* one user who waits for every answer: submit, retry and estimate around the
\* end of a month, one of them cut off; every message delivered once
CONSTANTS
    Unlimited = Unlimited
    Absent = Absent
    r1 = r1
    r2 = r2
    w1 = w1
    w2 = w2
    DefaultMotorLimit = 1
    DefaultSimulationLimit = 2
    DefaultTokenLimit = 7
    Requests <- OneRequest
    Workers <- TwoWorkers
    Clients <- Client12
    Operations = {}
    LastPeriod = 2
    SimIds = {1, 2}
    Estimates = {2}
    Actuals = {1, 4}
    Kinds <- Reads
    UserRole = "member"
    MaxRequests = 4
    MaxAborts = 1
    MaxFaults = 0
    MaxCrashes = 0
    MaxRedeliveries = 0
SYMMETRY SymmetricWorkers
SPECIFICATION Spec
INVARIANTS
    LifecycleTypeOK
    OneActive
    LedgerExact
    DoneRunsArePaid
    FailedRunsRefundedInTime
    ThisMonthsChargesCounted
    TrailTellsLifecycle
