------------------------------- MODULE MCTeams -------------------------------
(***************************************************************************)
(* Small instances of TeamMembership.                                      *)
(***************************************************************************)
EXTENDS TeamMembership, TLC

CONSTANTS u1, u2, u3, u4, t1, t2, t3, k1, r1, r2

TwoUsers == {u1, u2}
ThreeUsers == {u1, u2, u3}

OneAdmin == {u3}
NoAdmin == {}
FourUsers == {u1, u2, u3, u4}

TwoTeams == {t1, t2}
ThreeTeams == {t1, t2, t3}

OneToken == {k1}

OneRequest == {r1}
TwoRequests == {r1, r2}

SymmetricUsersAndTeams == Permutations(TwoUsers) \cup Permutations(TwoTeams)
SymmetricAll == Permutations(Users) \cup Permutations(Teams) \cup Permutations(Requests)

\* the kinds of request that a run issues
Everything == {"create", "update", "change", "remove", "invite", "revoke", "accept", "delete", "view",
               "limits", "clear"}
Joining == {"create", "invite", "accept", "remove", "clear"}
Clearing == {"create", "clear"}
==============================================================================
