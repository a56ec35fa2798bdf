------------------------------ MODULE TeamStore ------------------------------
(***************************************************************************)
(* The blobs of the teams (app/repositories/team.py, app/schemas/team.py): *)
(*                                                                         *)
(*   teams/{tid}/team.json, account.json        team, pool                 *)
(*   teams/{tid}/members/{uid}.json             member, canonical          *)
(*   users/{uid}/teams/{tid}.json               pointer, its copy          *)
(*   teams/{tid}/invites/{token}.json           invite, canonical          *)
(*   invites/{token}.json                       index, its lookup          *)
(*                                                                         *)
(* A membership and an invite are two blobs each, written and deleted one  *)
(* after the other, and no two writes are ever atomic.                     *)
(***************************************************************************)
EXTENDS Naturals, FiniteSets

CONSTANTS
    Users,              \* user ids
    Teams,              \* team ids, drawn by uuid4
    Tokens,             \* invite tokens, drawn by token_urlsafe
    MembershipLimit,    \* Settings.default_team_membership_limit
    Absent              \* what reading a blob that does not exist gives

ASSUME MembershipLimitAssumption == MembershipLimit \in Nat

ASSUME TeamAbsentAssumption ==
    /\ Absent \notin Users
    /\ Absent \notin Teams
    /\ Absent \notin {"viewer", "editor", "owner"}

VARIABLES
    team,       \* team[t]: whether team.json exists
    pool,       \* pool[t]: whether the team's account.json exists
    member,     \* member[t][u]: the role on the canonical record, or Absent
    pointer,    \* pointer[u][t]: the role on the user's copy, or Absent
    invite,     \* invite[k]: the invite, or Absent
    index,      \* index[k]: the team that the token's index names, or Absent
    expired     \* expired[k]: whether expires_at has passed

teamVars == <<team, pool, member, pointer, invite, index, expired>>

TeamRole == {"viewer", "editor", "owner"}

\* what an invite may grant (_no_owner_invites)
InvitedRole == TeamRole \ {"owner"}

TeamInvite ==
    [team_id : Teams, role : InvitedRole, accepted_by : Users \cup {Absent}]

\* list_for_team, count_owners
Members(t) == {u \in Users : member[t][u] # Absent}

Owners(t) == {u \in Users : member[t][u] = "owner"}

\* list_for_user: it scans the copies, never the canonical records
TeamsOf(u) == {t \in Teams : pointer[u][t] # Absent}

\* require_team_role("owner")
IsOwner(t, u) == member[t][u] = "owner"

\* get_by_token: the index names the team, whose prefix holds the invite
ByToken(k) ==
    IF index[k] = Absent \/ invite[k] = Absent \/ invite[k].team_id # index[k]
    THEN Absent
    ELSE invite[k]

\* an invite that expires but is never used up
NeverUsedUp(k) == ~expired[k]

\* is_usable; nothing ever sets `revoked`, a revoked invite is deleted
IsUsable(k) == invite[k].accepted_by = Absent /\ ~expired[k]

(***************************************************************************)
(* The blobs of a team in the order its prefix lists them, hence in the    *)
(* order delete_prefix deletes them; uids and tokens come in any order.    *)
(***************************************************************************)
BlobsOf(t) ==
    {<<1, "account", t>> : x \in {y \in {t} : pool[y]}}
        \cup {<<2, "invite", k>> : k \in {i \in Tokens : invite[i] # Absent /\ invite[i].team_id = t}}
        \cup {<<3, "member", u>> : u \in Members(t)}
        \cup {<<4, "team", t>> : x \in {y \in {t} : team[y]}}

BlobExists(t, blob) ==
    CASE blob[2] = "account" -> pool[t]
      [] blob[2] = "invite"  -> invite[blob[3]] # Absent
      [] blob[2] = "member"  -> member[t][blob[3]] # Absent
      [] blob[2] = "team"    -> team[t]

DeleteBlob(t, blob) ==
    /\ pool'   = IF blob[2] = "account" THEN [pool EXCEPT ![t] = FALSE] ELSE pool
    /\ invite' = IF blob[2] = "invite" THEN [invite EXCEPT ![blob[3]] = Absent] ELSE invite
    /\ member' = IF blob[2] = "member" THEN [member EXCEPT ![t][blob[3]] = Absent] ELSE member
    /\ team'   = IF blob[2] = "team" THEN [team EXCEPT ![t] = FALSE] ELSE team

InitTeams ==
    /\ team = [t \in Teams |-> FALSE]
    /\ pool = [t \in Teams |-> FALSE]
    /\ member = [t \in Teams |-> [u \in Users |-> Absent]]
    /\ pointer = [u \in Users |-> [t \in Teams |-> Absent]]
    /\ invite = [k \in Tokens |-> Absent]
    /\ index = [k \in Tokens |-> Absent]
    /\ expired = [k \in Tokens |-> FALSE]

\* seven days pass: nothing else depends on the clock
Expire(k) ==
    /\ ~expired[k]
    /\ expired' = [expired EXCEPT ![k] = TRUE]
    /\ UNCHANGED <<team, pool, member, pointer, invite, index>>

StoredTypeOK ==
    /\ team \in [Teams -> BOOLEAN]
    /\ pool \in [Teams -> BOOLEAN]
    /\ member \in [Teams -> [Users -> TeamRole \cup {Absent}]]
    /\ pointer \in [Users -> [Teams -> TeamRole \cup {Absent}]]
    /\ invite \in [Tokens -> TeamInvite \cup {Absent}]
    /\ index \in [Tokens -> Teams \cup {Absent}]
    /\ expired \in [Tokens -> BOOLEAN]
==============================================================================
