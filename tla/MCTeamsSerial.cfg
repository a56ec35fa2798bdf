\* two users and an administrator, two teams, one request at a time
CONSTANTS
    Absent = Absent
    u1 = u1
    u2 = u2
    u3 = u3
    u4 = u4
    t1 = t1
    t2 = t2
    t3 = t3
    k1 = k1
    r1 = r1
    r2 = r2
    Users <- ThreeUsers
    Teams <- TwoTeams
    Tokens <- OneToken
    MembershipLimit = 1
    Requests <- OneRequest
    Kinds <- Everything
    Admins <- OneAdmin
    MaxRequests = 6
    MaxAborts = 0
SYMMETRY SymmetricUsersAndTeams
SPECIFICATION Spec
INVARIANTS
    TeamTypeOK
    TeamsKeepAnOwner
    PointersMirrorMembers
    DeletedTeamsLeaveNothing
