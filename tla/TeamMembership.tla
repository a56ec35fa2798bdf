---------------------------- MODULE TeamMembership ----------------------------
(***************************************************************************)
(* The requests of app/routers/teams.py that change who is in a team.  As  *)
(* in SimulationApi, each `await` on the blob store is a step and `req`    *)
(* keeps what a request has read; the first access is part of its start.   *)
(*                                                                         *)
(* create:  save_team, save_member, save_pointer, read_account,            *)
(*          save_account                                                   *)
(* change:  target [-> owners], save_member, save_pointer                  *)
(* remove:  target [-> owners], erase_member, erase_pointer                *)
(* invite:  save_invite, save_index                                        *)
(* revoke:  invite_get, erase_invite, erase_index                          *)
(* accept:  existing, capacity, save_member, save_pointer, save_invite,    *)
(*          save_index                                                     *)
(* delete:  list_members, list_blobs, delete_next ..., sweep ...           *)
(* update:  team_get, save_team                                            *)
(* view:    read_account, save_account                                     *)
(* limits:  read_account, save_account                                     *)
(* clear:   list_pointers, clear_next ...                                  *)
(*                                                                         *)
(* The last one is what DELETE /users/{uid}/clear and the deletions of a   *)
(* user (app/routers/users.py) do to the blobs of the teams.               *)
(***************************************************************************)
EXTENDS TeamStore

CONSTANTS
    Requests,       \* the requests that may be in flight at once
    Kinds,          \* the kinds of request this instance issues
    Admins,         \* the users whose claim makes them administrators
    MaxRequests,    \* bound: how many requests are accepted
    MaxAborts       \* bound: how many of them die half way

ASSUME RequestsAreFinite == IsFiniteSet(Requests) /\ Requests # {}

VARIABLES
    req,            \* req[r]: where request r is, and what it remembers
    drawn,          \* history: the team ids and tokens drawn so far
    joins,          \* history: joins[k], members saved through invite k
    cleared,        \* history: the users whose own blobs a request has deleted
    requests,       \* history: for MaxRequests
    aborts,         \* history: for MaxAborts
    lost            \* history: the memberships, as <<u, t>>, that lost their copy

counters == <<drawn, joins, cleared, requests, aborts>>

vars == <<teamVars, req, counters, lost>>

NoRequest ==
    [at |-> "idle", kind |-> "none", team |-> Absent, user |-> Absent,
     token |-> Absent, role |-> Absent, blobs |-> {}, members |-> {}, pointers |-> {}]

Init ==
    /\ InitTeams
    /\ req = [r \in Requests |-> NoRequest]
    /\ drawn = {}
    /\ joins = [k \in Tokens |-> 0]
    /\ cleared = {}
    /\ requests = 0
    /\ aborts = 0
    /\ lost = {}

At(r, stage) == req[r].at = stage

Go(r, stage) == req' = [req EXCEPT ![r].at = stage]

Finish(r) == req' = [req EXCEPT ![r] = NoRequest]

\* a request is past its first access: `start` is what it remembers
Accept(r, kind, start) ==
    /\ kind \in Kinds
    /\ req[r] = NoRequest
    /\ requests < MaxRequests
    /\ requests' = requests + 1
    /\ req' = [req EXCEPT ![r] = start]
    /\ UNCHANGED <<teamVars, joins, cleared, aborts>>

On(kind, stage, t) == [NoRequest EXCEPT !.at = stage, !.kind = kind, !.team = t]
-----------------------------------------------------------------------------
\* _ensure_team_membership_capacity that lets a user reach one team too many
CapacityOffByOne(u) == u \in Admins \/ Cardinality(TeamsOf(u)) <= MembershipLimit

\* _ensure_team_membership_capacity
HasCapacity(u) == u \in Admins \/ Cardinality(TeamsOf(u)) < MembershipLimit

CreateTeam(r, u, t) ==
    /\ t \notin drawn
    /\ HasCapacity(u)
    /\ Accept(r, "create", [On("create", "save_team", t) EXCEPT !.user = u, !.role = "owner"])
    /\ drawn' = drawn \cup {t}

UpdateTeam(r, u, t) ==
    /\ IsOwner(t, u)
    /\ Accept(r, "update", On("update", "team_get", t))
    /\ UNCHANGED drawn

ChangeMemberRole(r, caller, t, u, role) ==
    /\ IsOwner(t, caller)
    /\ Accept(r, "change", [On("change", "target", t) EXCEPT !.user = u, !.role = role])
    /\ UNCHANGED drawn

\* an owner removes anyone, a member removes himself
RemoveMember(r, caller, t, u) ==
    /\ IF caller = u THEN member[t][caller] # Absent ELSE IsOwner(t, caller)
    /\ Accept(r, "remove", [On("remove", "target", t) EXCEPT !.user = u])
    /\ UNCHANGED drawn

\* an invite whose role nobody validates
CreateInviteUnvalidated(r, caller, t, k, role) ==
    /\ IsOwner(t, caller)
    /\ k \notin drawn
    /\ \E any \in TeamRole :
          Accept(r, "invite", [On("invite", "save_invite", t) EXCEPT !.token = k, !.role = any])
    /\ drawn' = drawn \cup {k}

CreateInvite(r, caller, t, k, role) ==
    /\ IsOwner(t, caller)
    /\ k \notin drawn
    /\ Accept(r, "invite", [On("invite", "save_invite", t) EXCEPT !.token = k, !.role = role])
    /\ drawn' = drawn \cup {k}

RevokeInvite(r, caller, t, k) ==
    /\ IsOwner(t, caller)
    /\ Accept(r, "revoke", [On("revoke", "invite_get", t) EXCEPT !.token = k])
    /\ UNCHANGED drawn

\* the 409 answers for an invite that is not usable
AcceptInvite(r, u, k) ==
    /\ ByToken(k) # Absent
    /\ IsUsable(k)
    /\ Accept(r, "accept", [On("accept", "existing", ByToken(k).team_id) EXCEPT
                                !.user = u, !.token = k, !.role = ByToken(k).role])
    /\ UNCHANGED drawn

\* by an owner, or by an administrator whatever the team
DeleteTeam(r, caller, t) ==
    /\ IsOwner(t, caller) \/ caller \in Admins
    /\ Accept(r, "delete", On("delete", "list_members", t))
    /\ UNCHANGED drawn

\* get_or_create of the team account on behalf of a viewer
ViewAccount(r, u, t) ==
    /\ member[t][u] # Absent
    /\ Accept(r, "view", On("view", "read_account", t))
    /\ UNCHANGED drawn

\* admin_update_team_limits: nothing asks whether the team exists
UpdateTeamLimits(r, caller, t) ==
    /\ caller \in Admins
    /\ Accept(r, "limits", On("limits", "read_account", t))
    /\ UNCHANGED drawn

\* users/{uid}/ goes, the canonical records under teams/ stay
ClearAccount(r, u) ==
    /\ Accept(r, "clear", [On("clear", "list_pointers", Absent) EXCEPT !.user = u])
    /\ UNCHANGED drawn

RequestStart(r) ==
    \E u \in Users :
        \/ ClearAccount(r, u)
        \/ \E t \in Teams :
              \/ CreateTeam(r, u, t) \/ UpdateTeam(r, u, t)
              \/ DeleteTeam(r, u, t) \/ ViewAccount(r, u, t) \/ UpdateTeamLimits(r, u, t)
              \/ \E v \in Users :
                    RemoveMember(r, u, t, v) \/ \E role \in TeamRole : ChangeMemberRole(r, u, t, v, role)
              \/ \E k \in Tokens :
                    RevokeInvite(r, u, t, k) \/ \E role \in InvitedRole : CreateInvite(r, u, t, k, role)
        \/ \E k \in Tokens : AcceptInvite(r, u, k)
-----------------------------------------------------------------------------
\* the membership that change_member_role and remove_member are about; an
\* owner may stay one, anything else needs the count
CheckTarget(r) ==
    /\ At(r, "target")
    /\ LET held == member[req[r].team][req[r].user]
           next == IF req[r].kind = "change" THEN "save_member" ELSE "erase_member"
       IN CASE held = Absent -> Finish(r)
            [] held = "owner" /\ req[r].role # "owner" -> Go(r, "owners")
            [] OTHER -> Go(r, next)
    /\ UNCHANGED <<teamVars, counters>>

\* a check of the owners that lets the last one go
CheckAnyOwner(r) ==
    /\ At(r, "owners")
    /\ IF Cardinality(Owners(req[r].team)) < 1
       THEN Finish(r)
       ELSE Go(r, IF req[r].kind = "change" THEN "save_member" ELSE "erase_member")
    /\ UNCHANGED <<teamVars, counters>>

\* count_owners: 409 for the last one
CheckOwners(r) ==
    /\ At(r, "owners")
    /\ IF Cardinality(Owners(req[r].team)) <= 1
       THEN Finish(r)
       ELSE Go(r, IF req[r].kind = "change" THEN "save_member" ELSE "erase_member")
    /\ UNCHANGED <<teamVars, counters>>

CheckExisting(r) ==
    /\ At(r, "existing")
    /\ IF member[req[r].team][req[r].user] # Absent THEN Finish(r) ELSE Go(r, "capacity")
    /\ UNCHANGED <<teamVars, counters>>

CheckCapacity(r) ==
    /\ At(r, "capacity")
    /\ IF HasCapacity(req[r].user) THEN Go(r, "save_member") ELSE Finish(r)
    /\ UNCHANGED <<teamVars, counters>>

CheckInvite(r) ==
    /\ At(r, "invite_get")
    /\ LET i == invite[req[r].token]
       IN IF i # Absent /\ i.team_id = req[r].team THEN Go(r, "erase_invite") ELSE Finish(r)
    /\ UNCHANGED <<teamVars, counters>>

CheckTeam(r) ==
    /\ At(r, "team_get")
    /\ IF team[req[r].team] THEN Go(r, "save_team") ELSE Finish(r)
    /\ UNCHANGED <<teamVars, counters>>
-----------------------------------------------------------------------------
SaveTeam(r) ==
    /\ At(r, "save_team")
    /\ team' = [team EXCEPT ![req[r].team] = TRUE]
    /\ IF req[r].kind = "create" THEN Go(r, "save_member") ELSE Finish(r)
    /\ UNCHANGED <<pool, member, pointer, invite, index, expired, counters>>

\* TeamMembershipRepository.save, its first write
SaveMember(r) ==
    /\ At(r, "save_member")
    /\ member' = [member EXCEPT ![req[r].team][req[r].user] = req[r].role]
    /\ joins' = IF req[r].kind = "accept" THEN [joins EXCEPT ![req[r].token] = @ + 1] ELSE joins
    /\ Go(r, "save_pointer")
    /\ UNCHANGED <<team, pool, pointer, invite, index, expired, drawn, cleared, requests, aborts>>

\* its second write left out
SavePointerSkipped(r) ==
    /\ At(r, "save_pointer")
    /\ CASE req[r].kind = "create" -> Go(r, "read_account")
         [] req[r].kind = "accept" -> Go(r, "save_invite")
         [] req[r].kind = "change" -> Finish(r)
    /\ UNCHANGED <<teamVars, counters>>

\* its second write
SavePointer(r) ==
    /\ At(r, "save_pointer")
    /\ pointer' = [pointer EXCEPT ![req[r].user][req[r].team] = req[r].role]
    /\ CASE req[r].kind = "create" -> Go(r, "read_account")
         [] req[r].kind = "accept" -> Go(r, "save_invite")
         [] req[r].kind = "change" -> Finish(r)
    /\ UNCHANGED <<team, pool, member, invite, index, expired, counters>>

\* TeamAccountRepository.get_or_create saves a document that it did not find,
\* or found to be of an earlier month; update_limits saves it anyway
ReadAccount(r) ==
    /\ At(r, "read_account")
    /\ \/ Go(r, "save_account")
       \/ pool[req[r].team] /\ req[r].kind # "limits" /\ Finish(r)
    /\ UNCHANGED <<teamVars, counters>>

SaveAccount(r) ==
    /\ At(r, "save_account")
    /\ pool' = [pool EXCEPT ![req[r].team] = TRUE]
    /\ Finish(r)
    /\ UNCHANGED <<team, member, pointer, invite, index, expired, counters>>

\* TeamInviteRepository.save, its first write: a new invite, or one accepted
SaveInvite(r) ==
    /\ At(r, "save_invite")
    /\ invite' = [invite EXCEPT ![req[r].token] =
                    [team_id     |-> req[r].team,
                     role        |-> req[r].role,
                     accepted_by |-> IF req[r].kind = "accept" THEN req[r].user ELSE Absent]]
    /\ Go(r, "save_index")
    /\ UNCHANGED <<team, pool, member, pointer, index, expired, counters>>

SaveIndex(r) ==
    /\ At(r, "save_index")
    /\ index' = [index EXCEPT ![req[r].token] = req[r].team]
    /\ Finish(r)
    /\ UNCHANGED <<team, pool, member, pointer, invite, expired, counters>>
-----------------------------------------------------------------------------
\* A prefix delete of one blob lists it, then deletes it.  A blob that is gone
\* was gone before the listing, or another request deleted it in between and
\* the delete raises.
Erased(r, exists, next) ==
    \/ next
    \/ ~exists /\ Requests # {r} /\ Finish(r)

EraseMember(r) ==
    /\ At(r, "erase_member")
    /\ Erased(r, member[req[r].team][req[r].user] # Absent, Go(r, "erase_pointer"))
    /\ member' = [member EXCEPT ![req[r].team][req[r].user] = Absent]
    /\ UNCHANGED <<team, pool, pointer, invite, index, expired, counters>>

ErasePointer(r) ==
    /\ At(r, "erase_pointer")
    /\ pointer' = [pointer EXCEPT ![req[r].user][req[r].team] = Absent]
    /\ Finish(r)
    /\ UNCHANGED <<team, pool, member, invite, index, expired, counters>>

EraseInvite(r) ==
    /\ At(r, "erase_invite")
    /\ Erased(r, invite[req[r].token] # Absent, Go(r, "erase_index"))
    /\ invite' = [invite EXCEPT ![req[r].token] = Absent]
    /\ UNCHANGED <<team, pool, member, pointer, index, expired, counters>>

EraseIndex(r) ==
    /\ At(r, "erase_index")
    /\ index' = [index EXCEPT ![req[r].token] = Absent]
    /\ Finish(r)
    /\ UNCHANGED <<team, pool, member, pointer, invite, expired, counters>>

ListMembers(r) ==
    /\ At(r, "list_members")
    /\ req' = [req EXCEPT ![r].at = "list_blobs", ![r].members = Members(req[r].team)]
    /\ UNCHANGED <<teamVars, counters>>

ListBlobs(r) ==
    /\ At(r, "list_blobs")
    /\ req' = [req EXCEPT ![r].at = "delete_next", ![r].blobs = BlobsOf(req[r].team)]
    /\ UNCHANGED <<teamVars, counters>>

\* TeamRepository.delete: one of the first blobs left, NotFound when it is gone
DeleteNext(r) ==
    /\ At(r, "delete_next")
    /\ \/ \E blob \in req[r].blobs :
             /\ \A other \in req[r].blobs : blob[1] <= other[1]
             /\ IF BlobExists(req[r].team, blob)
                THEN req' = [req EXCEPT ![r].blobs = @ \ {blob}]
                ELSE Finish(r)
             /\ DeleteBlob(req[r].team, blob)
       \/ /\ req[r].blobs = {}
          /\ Go(r, "sweep")
          /\ UNCHANGED <<team, pool, member, invite>>
    /\ UNCHANGED <<pointer, index, expired, counters>>

\* a cascade that forgets the copies under users/
SweepSkipped(r) ==
    /\ At(r, "sweep")
    /\ Finish(r)
    /\ UNCHANGED <<teamVars, counters>>

\* the reverse pointers of the members listed at the beginning
Sweep(r) ==
    /\ At(r, "sweep")
    /\ \/ \E u \in req[r].members :
             /\ Erased(r, pointer[u][req[r].team] # Absent,
                       req' = [req EXCEPT ![r].members = @ \ {u}])
             /\ pointer' = [pointer EXCEPT ![u][req[r].team] = Absent]
       \/ /\ req[r].members = {}
          /\ Finish(r)
          /\ UNCHANGED pointer
    /\ UNCHANGED <<team, pool, member, invite, index, expired, counters>>

ListPointers(r) ==
    /\ At(r, "list_pointers")
    /\ req' = [req EXCEPT ![r].at = "clear_next", ![r].pointers = TeamsOf(req[r].user)]
    /\ cleared' = cleared \cup {req[r].user}
    /\ UNCHANGED <<teamVars, drawn, joins, requests, aborts>>

ClearNext(r) ==
    /\ At(r, "clear_next")
    /\ \/ \E t \in req[r].pointers :
             /\ IF pointer[req[r].user][t] # Absent
                THEN req' = [req EXCEPT ![r].pointers = @ \ {t}]
                ELSE Finish(r)
             /\ pointer' = [pointer EXCEPT ![req[r].user][t] = Absent]
       \/ /\ req[r].pointers = {}
          /\ Finish(r)
          /\ UNCHANGED pointer
    /\ UNCHANGED <<team, pool, member, invite, index, expired, counters>>

\* the instance dies, or the blob store raises: what is written stays written
Abort(r) ==
    /\ req[r] # NoRequest
    /\ aborts < MaxAborts
    /\ aborts' = aborts + 1
    /\ Finish(r)
    /\ UNCHANGED <<teamVars, drawn, joins, cleared, requests>>

RequestStep(r) ==
    \/ CheckTarget(r) \/ CheckOwners(r) \/ CheckExisting(r) \/ CheckCapacity(r)
    \/ CheckInvite(r) \/ CheckTeam(r)
    \/ SaveTeam(r) \/ SaveMember(r) \/ SavePointer(r)
    \/ ReadAccount(r) \/ SaveAccount(r)
    \/ SaveInvite(r) \/ SaveIndex(r)
    \/ EraseMember(r) \/ ErasePointer(r) \/ EraseInvite(r) \/ EraseIndex(r)
    \/ ListMembers(r) \/ ListBlobs(r) \/ DeleteNext(r) \/ Sweep(r)
    \/ ListPointers(r) \/ ClearNext(r)

Quiescent == \A r \in Requests : req[r] = NoRequest

\* the requests that the bounds allow are all answered
AtRest ==
    /\ Quiescent
    /\ \A k \in Tokens : expired[k]
    /\ UNCHANGED vars

Step ==
    \/ \E r \in Requests : RequestStart(r) \/ RequestStep(r) \/ Abort(r)
    \/ \E k \in Tokens : Expire(k) /\ UNCHANGED <<req, counters>>
    \/ AtRest

\* request r is about to write the copy of u's membership of t
Copying(r, u, t) == At(r, "save_pointer") /\ req[r].user = u /\ req[r].team = t

\* the membership stands after the step without the copy that the step took
\* away, or that a request was about to write and will not
Loses(u, t) ==
    /\ member'[t][u] # Absent
    /\ pointer'[u][t] = Absent
    /\ pointer[u][t] # Absent \/ \E r \in Requests : Copying(r, u, t) /\ ~Copying(r, u, t)'

Next ==
    /\ Step
    /\ lost' = lost \cup {m \in Users \X Teams : Loses(m[1], m[2])}

Spec == Init /\ [][Next]_vars
-----------------------------------------------------------------------------
(***************************************************************************)
(* Types.                                                                  *)
(***************************************************************************)
TeamTypeOK ==
    /\ StoredTypeOK
    /\ \A r \in Requests :
          /\ req[r].team \in Teams \cup {Absent}
          /\ req[r].user \in Users \cup {Absent}
          /\ req[r].token \in Tokens \cup {Absent}
          /\ req[r].members \subseteq Users
          /\ req[r].pointers \subseteq Teams
    /\ cleared \subseteq Users
    /\ joins \in [Tokens -> Nat]

(***************************************************************************)
(* "Last-owner removal is blocked unconditionally": whenever no request is *)
(* under way, a team that exists has an owner (remove_member and           *)
(* change_member_role).                                                    *)
(***************************************************************************)
TeamsKeepAnOwner ==
    Quiescent => \A t \in Teams : team[t] => Owners(t) # {}

(***************************************************************************)
(* The copy of a membership under users/ says what the canonical record    *)
(* says, for every user and team, whenever no request is under way: what   *)
(* GET /teams shows and the membership cap counts is what auth/teams.py    *)
(* decides by.  Only a user who has cleared the account may lack a copy,   *)
(* and then lacks it for good, unless the membership is written again.     *)
(***************************************************************************)
PointersMirrorMembers ==
    Quiescent =>
        \A t \in Teams, u \in Users :
            \/ pointer[u][t] = member[t][u]
            \/ u \in cleared /\ pointer[u][t] = Absent

(***************************************************************************)
(* "Maximum number of teams a non-admin user can belong to (owned +        *)
(* joined)" (app/config.py): with one request at a time, a user who is not *)
(* an administrator is a member of no more teams than that, by the         *)
(* canonical records that the program calls its source of truth.           *)
(***************************************************************************)
MembershipsWithinLimit ==
    \A u \in Users \ Admins : Cardinality({t \in Teams : member[t][u] # Absent}) <= MembershipLimit

(***************************************************************************)
(* "Hard delete": a team whose team.json is gone has no member, no         *)
(* invite that can be accepted and no reverse pointer left once no request *)
(* is under way (delete_team).  Its account.json is left out: an           *)
(* administrator may give limits to a team that does not exist.            *)
(***************************************************************************)
DeletedTeamsLeaveNothing ==
    Quiescent =>
        \A t \in Teams : ~team[t] =>
            /\ Members(t) = {}
            /\ \A u \in Users : pointer[u][t] = Absent
            /\ \A k \in Tokens : ByToken(k) = Absent \/ ByToken(k).team_id # t

(***************************************************************************)
(* The check of the membership cap and the write it allows are apart, and  *)
(* the check counts the copies under users/, not the memberships: a user   *)
(* who is not an administrator is a member, by the canonical records, of   *)
(* at most one team too many for every further request that can be in      *)
(* flight at once, and of one more for every team whose copy his standing  *)
(* membership has lost -- to a request that died between its two writes,   *)
(* to a clear of his account, or to the second delete of a removal that    *)
(* found him back in the team.                                             *)
(***************************************************************************)
TeamsLost(u) == {t \in Teams : <<u, t>> \in lost}

CapOverrunIsBounded ==
    \A u \in Users \ Admins :
        Cardinality({t \in Teams : member[t][u] # Absent})
            < MembershipLimit + Cardinality(Requests) + Cardinality(TeamsLost(u))

(***************************************************************************)
(* An invite is marked used after the membership it grants is written: it  *)
(* admits at most one user per request that can be in flight at once, and  *)
(* one more per request that died in between, however it is accepted,      *)
(* revoked or its team deleted.                                            *)
(***************************************************************************)
InvitesAreUsedUp ==
    \A k \in Tokens : joins[k] <= Cardinality(Requests) + aborts
==============================================================================
