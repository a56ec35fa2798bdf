\* a user and an administrator, two requests at once, any of which may be cut off,
\* beside what simulations charge and refund
CONSTANTS
    Unlimited = Unlimited
    Absent = Absent
    s = s
    a = a
    r1 = r1
    r2 = r2
    m1 = m1
    m2 = m2
    m3 = m3
    DefaultMotorLimit = 1
    DefaultSimulationLimit = 1
    DefaultTokenLimit = 1
    Clients <- TwoRequests
    Operations <- AccountOperations
    LastPeriod = 2
    MotorIds <- ThreeMotors
    Requests <- TwoRequests
    Users <- BothUsers
    Subject = s
    Overrides <- MotorOverrides
    Amounts <- OneToken
    MaxRequests = 3
SYMMETRY Symmetric
SPECIFICATION Spec
INVARIANTS
    UserTypeOK
    MotorOverrunIsBounded
    CapsFollowClaim
    DeletedUsersKeepNoMotors
PROPERTIES
    LastAdministratorStands
