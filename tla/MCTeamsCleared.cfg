\* one user who creates teams and clears the account, one request at a time
CONSTANTS
    Absent = Absent
    u1 = u1
    u2 = u2
    u3 = u3
    u4 = u4
    t1 = t1
    t2 = t2
    t3 = t3
    k1 = k1
    r1 = r1
    r2 = r2
    Users <- TwoUsers
    Teams <- TwoTeams
    Tokens <- OneToken
    MembershipLimit = 1
    Requests <- OneRequest
    Kinds <- Clearing
    Admins <- NoAdmin
    MaxRequests = 3
    MaxAborts = 0
SPECIFICATION Spec
INVARIANTS
    MembershipsWithinLimit
