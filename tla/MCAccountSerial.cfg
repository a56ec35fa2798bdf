\* one caller making four calls one after the other, failures and deaths included
CONSTANTS
    Unlimited = Unlimited
    Absent = Absent
    c1 = c1
    c2 = c2
    DefaultMotorLimit = 1
    DefaultSimulationLimit = 1
    DefaultTokenLimit = 3
    Clients <- OneClient
    Operations <- Everything
    LastPeriod = 2
    MaxCalls = 4
SPECIFICATION Spec
PROPERTIES
    ImplementsLedger
