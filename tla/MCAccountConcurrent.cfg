\* two callers, a cap of 2 tokens that nobody lowers, one month roll
CONSTANTS
    Unlimited = Unlimited
    Absent = Absent
    c1 = c1
    c2 = c2
    DefaultMotorLimit = 1
    DefaultSimulationLimit = 1
    DefaultTokenLimit = 2
    Clients <- MCClients
    Operations <- Concurrent
    LastPeriod = 2
    MaxCalls = 4
SYMMETRY Symmetric
SPECIFICATION Spec
INVARIANTS
    RaceTypeOK
    NeverOverstated
    StoredWithinLimit
