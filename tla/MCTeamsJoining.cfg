\* four users, three teams, one invite; two requests at once that create, join
\* and leave teams or clear an account, one of them dies half way
CONSTANTS
    Absent = Absent
    u1 = u1
    u2 = u2
    u3 = u3
    u4 = u4
    t1 = t1
    t2 = t2
    t3 = t3
    k1 = k1
    r1 = r1
    r2 = r2
    Users <- FourUsers
    Teams <- ThreeTeams
    Tokens <- OneToken
    MembershipLimit = 1
    Requests <- TwoRequests
    Kinds <- Joining
    Admins <- NoAdmin
    MaxRequests = 5
    MaxAborts = 1
SYMMETRY SymmetricAll
SPECIFICATION Spec
INVARIANTS
    CapOverrunIsBounded
    InvitesAreUsedUp
