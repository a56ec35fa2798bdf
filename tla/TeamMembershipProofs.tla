------------------------ MODULE TeamMembershipProofs ------------------------
(***************************************************************************)
(* Proofs about TeamMembership, for any numbers of users, teams, tokens    *)
(* and requests: types, and how far requests in flight together may go     *)
(* past the membership cap and past the single use of an invite; then,     *)
(* under OneByOne, that every team keeps an owner, that both blobs of a    *)
(* membership agree and that a deleted team leaves nothing.                *)
(*                                                                         *)
(* Neither bound is inductive, because a check that has passed writes      *)
(* later.  What only an admission enlarges is the set of teams that a user *)
(* belongs to or is about to join, but for those whose copy was lost; what *)
(* an invite has admitted is bounded together with the requests that have  *)
(* found it usable.                                                        *)
(*                                                                         *)
(* What holds between two requests is inductive with what the one under    *)
(* way has left half done, and with what it relies on since its checks     *)
(* (SerialInv).                                                            *)
(***************************************************************************)
EXTENDS TeamMembership, FiniteSetTheorems, TLAPS

Stages ==
    {"idle", "target", "owners", "existing", "capacity", "invite_get", "team_get",
     "save_team", "save_member", "save_pointer", "read_account", "save_account",
     "save_invite", "save_index", "erase_member", "erase_pointer", "erase_invite",
     "erase_index", "list_members", "list_blobs", "delete_next", "sweep",
     "list_pointers", "clear_next"}

AnyKind ==
    {"none", "create", "update", "change", "remove", "invite", "revoke", "accept",
     "delete", "view", "limits", "clear"}

AnyBlob == (1..4) \X {"account", "invite", "member", "team"} \X (Teams \cup Tokens \cup Users)

ReqType ==
    [at : Stages, kind : AnyKind, team : Teams \cup {Absent}, user : Users \cup {Absent},
     token : Tokens \cup {Absent}, role : TeamRole \cup {Absent},
     blobs : SUBSET AnyBlob, members : SUBSET Users, pointers : SUBSET Teams]

\* which kinds of request pass the stages that several kinds share
Fits(stage, kind) ==
    /\ stage \in {"target", "owners"} => kind \in {"change", "remove"}
    /\ stage \in {"existing", "capacity"} => kind = "accept"
    /\ stage = "team_get" => kind = "update"
    /\ stage = "save_team" => kind \in {"create", "update"}
    /\ stage \in {"save_member", "save_pointer"} => kind \in {"create", "change", "accept"}
    /\ stage \in {"save_invite", "save_index"} => kind \in {"invite", "accept"}
    /\ stage \in {"list_members", "list_blobs", "delete_next", "sweep"} => kind = "delete"
    /\ stage \in {"list_pointers", "clear_next"} => kind = "clear"

\* what a request remembers from its start
Remembers(q) ==
    /\ q.kind \in Kinds \cup {"none"}
    /\ q.kind \in {"create", "accept", "clear"} => q.user \in Users
    /\ q.kind \in {"invite", "accept", "change", "delete"} => q.team \in Teams
    /\ q.kind \in {"invite", "accept"} => q.token \in Tokens /\ q.role \in InvitedRole

Shaped(q) == Fits(q.at, q.kind) /\ Remembers(q)

TeamInv ==
    /\ TeamTypeOK
    /\ aborts \in Nat
    /\ req \in [Requests -> ReqType]
    /\ \A r \in Requests : Shaped(req[r])

\* request r goes on, or begins, as new
Becomes(r, new) ==
    /\ new \in ReqType
    /\ Shaped(new)
    /\ req' = [req EXCEPT ![r] = new]

\* a request that goes on remembers what it began with
Continues(q, new) ==
    \/ new = NoRequest
    \/ /\ new.kind = q.kind /\ new.team = q.team /\ new.user = q.user
       /\ new.token = q.token /\ new.role = q.role

HistoryOK == cleared \subseteq Users /\ joins \in [Tokens -> Nat] /\ aborts \in Nat
-----------------------------------------------------------------------------
LEMMA NoRequestIsType == NoRequest \in ReqType /\ Shaped(NoRequest)
  BY DEF NoRequest, ReqType, Stages, AnyKind, Shaped, Fits, Remembers

LEMMA TypeFacts ==
    ASSUME TeamInv
    PROVE  StoredTypeOK /\ HistoryOK
  BY DEF TeamInv, TeamTypeOK, HistoryOK

LEMMA RequestFacts ==
    ASSUME TeamInv, NEW r \in Requests
    PROVE  req[r] \in ReqType /\ Shaped(req[r])
  BY DEF TeamInv

LEMMA TypeMove ==
    ASSUME TeamInv, NEW r \in Requests, NEW new, Becomes(r, new),
           StoredTypeOK', HistoryOK'
    PROVE  TeamInv'
  <1>1. req' \in [Requests -> ReqType]
    BY DEF TeamInv, Becomes
  <1>2. \A q \in Requests : Shaped(req'[q])
    BY DEF TeamInv, Becomes
  <1>3. \A q \in Requests :
          /\ req'[q].team \in Teams \cup {Absent}
          /\ req'[q].user \in Users \cup {Absent}
          /\ req'[q].token \in Tokens \cup {Absent}
          /\ req'[q].members \subseteq Users
          /\ req'[q].pointers \subseteq Teams
    BY <1>1 DEF ReqType
  <1> QED
    BY <1>1, <1>2, <1>3 DEF TeamInv, TeamTypeOK, HistoryOK

LEMMA GoMove ==
    ASSUME TeamInv, NEW r \in Requests, NEW stage \in Stages, Go(r, stage),
           Fits(stage, req[r].kind)
    PROVE  LET new == [req[r] EXCEPT !.at = stage]
           IN  Becomes(r, new) /\ Continues(req[r], new) /\ new.at = stage
  <1> DEFINE new == [req[r] EXCEPT !.at = stage]
  <1>1. new \in ReqType /\ new.at = stage /\ new.kind = req[r].kind
        /\ new.team = req[r].team /\ new.user = req[r].user
        /\ new.token = req[r].token /\ new.role = req[r].role
    BY RequestFacts DEF ReqType
  <1>2. Shaped(new)
    BY <1>1, RequestFacts DEF Shaped, Remembers
  <1>3. req' = [req EXCEPT ![r] = new]
    BY DEF Go, TeamInv
  <1> QED
    BY <1>1, <1>2, <1>3 DEF Becomes, Continues

LEMMA FinishMove ==
    ASSUME NEW r \in Requests, Finish(r)
    PROVE  Becomes(r, NoRequest) /\ Continues(req[r], NoRequest)
  BY NoRequestIsType DEF Finish, Becomes, Continues

LEMMA StoredStays == ASSUME StoredTypeOK, UNCHANGED teamVars PROVE StoredTypeOK'
  BY DEF StoredTypeOK, teamVars

LEMMA HistoryStays ==
    ASSUME HistoryOK, UNCHANGED <<cleared, joins, aborts>> PROVE HistoryOK'
  BY DEF HistoryOK
-----------------------------------------------------------------------------
(***************************************************************************)
(* The part about the membership cap.  The teams in a user's reach are     *)
(* those that the cap counts and those that a request is about to add.  A  *)
(* step brings another team into reach only where the cap has just been    *)
(* found to leave room, but for change_member_role, which saves anew a     *)
(* membership that it has found: the user's own teams come into reach      *)
(* unasked.                                                                *)
(***************************************************************************)
JoinStages == {"owners", "save_team", "save_member", "save_pointer"}

Joins(q, u) ==
    q.user = u /\ q.kind \in {"create", "accept", "change"} /\ q.at \in JoinStages

Joiners(u) == {r \in Requests : Joins(req[r], u)}

Joined(u) == {req[r].team : r \in Joiners(u)}

InReach(u) == TeamsOf(u) \cup Joined(u)

BelongsTo(u) == {t \in Teams : member[t][u] # Absent}

\* a step of a request that brings no other team into the reach of user u
CapQuiet(u, q, new) ==
    /\ TeamsOf(u)' \subseteq InReach(u)
    /\ Joins(new, u) => (Joins(q, u) /\ new.team = q.team) \/ new.team \in BelongsTo(u)

\* a step that has found room for user u
Admitted(u) == Cardinality(TeamsOf(u)) < MembershipLimit /\ pointer' = pointer

CapStep ==
    \A u \in Users \ Admins :
        InReach(u)' \subseteq InReach(u) \cup BelongsTo(u) \/ Admitted(u)

(***************************************************************************)
(* The part about the use of an invite: who has found it usable and not    *)
(* joined yet, who has joined and not marked it used yet, and who has yet  *)
(* to store it for the first time.                                         *)
(***************************************************************************)
Accepts(q, k) == q.kind = "accept" /\ q.token = k

Pending(q, k) == Accepts(q, k) /\ q.at \in {"existing", "capacity", "save_member"}

Marking(q, k) == Accepts(q, k) /\ q.at \in {"save_pointer", "save_invite"}

Issues(q, k) == q.kind = "invite" /\ q.token = k /\ q.at = "save_invite"

Pendings(k) == {r \in Requests : Pending(req[r], k)}

Markings(k) == {r \in Requests : Marking(req[r], k)}

Open(k) == invite[k] # Absent /\ invite[k].accepted_by = Absent

Unissued(k) == k \notin drawn \/ \E r \in Requests : Issues(req[r], k)

UseHolds(k) ==
    /\ joins[k] + Cardinality(Pendings(k)) <= Cardinality(Requests) + aborts
    /\ Open(k) => joins[k] <= Cardinality(Markings(k)) + aborts
    /\ Unissued(k) =>
          joins[k] = 0 /\ invite[k] = Absent /\ \A r \in Requests : ~Accepts(req[r], k)
    /\ \A r \in Requests : Issues(req[r], k) => k \in drawn
    /\ \A r, q \in Requests : Issues(req[r], k) /\ Issues(req[q], k) => r = q

UseInv == \A k \in Tokens : UseHolds(k)

\* a step that neither opens, issues nor uses invite k
UseQuiet(k, q, new) ==
    /\ joins'[k] = joins[k] /\ aborts' = aborts
    /\ invite'[k] = invite[k] \/ invite'[k] = Absent
    /\ drawn \subseteq drawn'
    /\ Pending(new, k) => Pending(q, k)
    /\ Marking(q, k) => Marking(new, k)
    /\ Issues(new, k) => Issues(q, k)
    /\ Accepts(new, k) => Accepts(q, k)

Quiet(q, new) ==
    /\ \A u \in Users \ Admins : CapQuiet(u, q, new)
    /\ \A k \in Tokens : UseQuiet(k, q, new)
-----------------------------------------------------------------------------
PendingStages == {"existing", "capacity", "save_member"}
MarkingStages == {"save_pointer", "save_invite"}

\* from one stage to the next without passing a check, nor marking an invite
Steady(kind, at, stage) ==
    /\ kind \in {"create", "accept"} /\ stage \in JoinStages => at \in JoinStages
    /\ kind = "change" /\ stage \in JoinStages => at \in JoinStages \cup {"target"}
    /\ kind = "accept" /\ stage \in PendingStages => at \in PendingStages
    /\ kind = "accept" /\ at \in MarkingStages => stage \in MarkingStages
    /\ kind = "invite" /\ stage = "save_invite" => at = "save_invite"

\* a role is changed only of a membership that was found
Targets(q) == q.at = "target" /\ q.kind = "change" => q.team \in BelongsTo(q.user)

\* the blobs that the bounds are about, when nothing is added to them
Frame ==
    /\ \A u \in Users : TeamsOf(u)' \subseteq TeamsOf(u)
    /\ \A k \in Tokens : invite'[k] = invite[k] \/ invite'[k] = Absent
    /\ UNCHANGED <<drawn, joins, aborts>>

StepQuiet(r) == \E new : Becomes(r, new) /\ Quiet(req[r], new)

LEMMA SteadyIsQuiet ==
    ASSUME TeamInv, NEW r \in Requests, NEW new, Continues(req[r], new), Frame,
           Steady(new.kind, req[r].at, new.at), new # NoRequest => Targets(req[r]),
           Marking(req[r], req[r].token) => new # NoRequest
    PROVE  Quiet(req[r], new)
  <1>1. ASSUME NEW u \in Users \ Admins
        PROVE  CapQuiet(u, req[r], new)
    <2>1. TeamsOf(u)' \subseteq InReach(u)
      BY DEF Frame, InReach
    <2>2. Joins(new, u) => \/ Joins(req[r], u) /\ new.team = req[r].team
                           \/ new.team \in BelongsTo(u)
      BY DEF Joins, Continues, NoRequest, Steady, JoinStages, Targets
    <2> QED
      BY <2>1, <2>2 DEF CapQuiet
  <1>2. ASSUME NEW k \in Tokens
        PROVE  UseQuiet(k, req[r], new)
    <2>1. Pending(new, k) => Pending(req[r], k)
      BY DEF Pending, Accepts, Continues, NoRequest, Steady, PendingStages
    <2>2. Marking(req[r], k) => Marking(new, k)
      BY DEF Marking, Accepts, Continues, Steady, MarkingStages
    <2>3. Issues(new, k) => Issues(req[r], k)
      BY DEF Issues, Continues, NoRequest, Steady
    <2>4. Accepts(new, k) => Accepts(req[r], k)
      BY DEF Accepts, Continues, NoRequest
    <2> QED
      BY <2>1, <2>2, <2>3, <2>4 DEF UseQuiet, Frame
  <1> QED
    BY <1>1, <1>2 DEF Quiet

LEMMA QuietGo ==
    ASSUME TeamInv, NEW r \in Requests, NEW stage \in Stages, Go(r, stage), Frame,
           Fits(stage, req[r].kind), Steady(req[r].kind, req[r].at, stage),
           stage # "idle", req[r].at # "target" \/ Targets(req[r])
    PROVE  StepQuiet(r)
  <1> DEFINE new == [req[r] EXCEPT !.at = stage]
  <1>1. Becomes(r, new) /\ Continues(req[r], new) /\ new.at = stage
    BY GoMove
  <1>2. new # NoRequest
    BY <1>1 DEF NoRequest
  <1>3. new.kind = req[r].kind
    BY <1>1, <1>2 DEF Continues
  <1> HIDE DEF new
  <1>a. Targets(req[r])
    BY DEF Targets
  <1>4. Quiet(req[r], new)
    BY <1>1, <1>2, <1>3, <1>a, SteadyIsQuiet
  <1> QED
    BY <1>1, <1>4 DEF StepQuiet

LEMMA QuietFinish ==
    ASSUME TeamInv, NEW r \in Requests, Finish(r), Frame, req[r].at \notin MarkingStages
    PROVE  StepQuiet(r)
  <1>1. Becomes(r, NoRequest) /\ Continues(req[r], NoRequest)
    BY FinishMove
  <1>2. Steady(NoRequest.kind, req[r].at, NoRequest.at)
    BY DEF Steady, NoRequest
  <1>3. ~Marking(req[r], req[r].token)
    BY DEF Marking, MarkingStages
  <1>4. Quiet(req[r], NoRequest)
    BY <1>1, <1>2, <1>3, SteadyIsQuiet
  <1> QED
    BY <1>1, <1>4 DEF StepQuiet

\* a step of a delete or a clear, which remember what they have listed
LEMMA QuietEdit ==
    ASSUME TeamInv, NEW r \in Requests, Frame, req[r].kind \in {"delete", "clear"},
           NEW stage \in Stages, stage # "idle", Fits(stage, req[r].kind),
           NEW b \in SUBSET AnyBlob, NEW m \in SUBSET Users, NEW p \in SUBSET Teams,
           req' = [req EXCEPT ![r] = [req[r] EXCEPT !.at = stage, !.blobs = b,
                                                    !.members = m, !.pointers = p]]
    PROVE  StepQuiet(r)
  <1> DEFINE new == [req[r] EXCEPT !.at = stage, !.blobs = b, !.members = m, !.pointers = p]
  <1>1. new \in ReqType /\ new.at = stage /\ new.kind = req[r].kind
        /\ new.team = req[r].team /\ new.user = req[r].user
        /\ new.token = req[r].token /\ new.role = req[r].role
    BY RequestFacts DEF ReqType
  <1>2. Shaped(new)
    BY <1>1, RequestFacts DEF Shaped, Remembers
  <1>3. Becomes(r, new)
    BY <1>1, <1>2 DEF Becomes
  <1>4. Continues(req[r], new)
    BY <1>1 DEF Continues
  <1>5. Steady(new.kind, req[r].at, new.at)
    BY <1>1 DEF Steady
  <1>6. ~Marking(req[r], req[r].token) /\ Targets(req[r])
    BY DEF Marking, Accepts, Targets
  <1> HIDE DEF new
  <1>7. Quiet(req[r], new)
    BY <1>4, <1>5, <1>6, SteadyIsQuiet
  <1> QED
    BY <1>3, <1>7 DEF StepQuiet

LEMMA FrameStays == ASSUME UNCHANGED <<pointer, invite, drawn, joins, aborts>> PROVE Frame
  BY DEF Frame, TeamsOf
-----------------------------------------------------------------------------
(***************************************************************************)
(* The checks: they read, and store nothing.                               *)
(***************************************************************************)
LEMMA ChecksAreQuiet ==
    ASSUME TeamInv, NEW r \in Requests,
           \/ CheckTarget(r) \/ CheckOwners(r) \/ CheckExisting(r)
           \/ CheckInvite(r) \/ CheckTeam(r)
    PROVE  StepQuiet(r) /\ StoredTypeOK' /\ HistoryOK'
  <1>1. UNCHANGED <<teamVars, counters>>
    BY DEF CheckTarget, CheckOwners, CheckExisting, CheckInvite, CheckTeam
  <1>2. StoredTypeOK' /\ HistoryOK' /\ Frame
    BY <1>1, TypeFacts, StoredStays, HistoryStays, FrameStays DEF teamVars, counters
  <1>3. req[r] \in ReqType /\ Shaped(req[r])
    BY RequestFacts
  <1>4. CASE CheckTarget(r)
    <2>1. /\ req[r].at = "target" /\ req[r].kind \in {"change", "remove"}
          /\ \/ Finish(r)
             \/ Go(r, "owners")
             \/ req[r].kind = "change" /\ Go(r, "save_member")
             \/ req[r].kind = "remove" /\ Go(r, "erase_member")
      BY <1>3, <1>4 DEF CheckTarget, At, Shaped, Fits
    <2>a. CASE Finish(r)
      BY <1>2, <2>1, <2>a, QuietFinish DEF MarkingStages
    <2>b. CASE ~Finish(r)
      <3>1. member[req[r].team][req[r].user] # Absent
        BY <1>4, <2>b, TeamAbsentAssumption DEF CheckTarget
      <3>2. req[r].kind = "change" => req[r].team \in Teams
        BY <1>3 DEF Shaped, Remembers
      <3>3. Targets(req[r])
        BY <3>1, <3>2 DEF Targets, BelongsTo
      <3> QED
        BY <1>2, <2>1, <2>b, <3>3, QuietGo
           DEF Stages, Fits, Steady, JoinStages, PendingStages, MarkingStages
    <2>2. StepQuiet(r)
      BY <2>a, <2>b
    <2> QED
      BY <1>2, <2>2
  <1>5. CASE CheckOwners(r)
    <2>1. /\ req[r].at = "owners" /\ req[r].kind \in {"change", "remove"}
          /\ \/ Finish(r)
             \/ req[r].kind = "change" /\ Go(r, "save_member")
             \/ req[r].kind = "remove" /\ Go(r, "erase_member")
      BY <1>3, <1>5 DEF CheckOwners, At, Shaped, Fits
    <2>2. StepQuiet(r)
      BY <1>2, <2>1, QuietGo, QuietFinish
         DEF Stages, Fits, Steady, JoinStages, PendingStages, MarkingStages
    <2> QED
      BY <1>2, <2>2
  <1>6. CASE CheckExisting(r)
    <2>1. /\ req[r].at = "existing" /\ req[r].kind = "accept"
          /\ Finish(r) \/ Go(r, "capacity")
      BY <1>3, <1>6 DEF CheckExisting, At, Shaped, Fits
    <2>2. StepQuiet(r)
      BY <1>2, <2>1, QuietGo, QuietFinish
         DEF Stages, Fits, Steady, JoinStages, PendingStages, MarkingStages
    <2> QED
      BY <1>2, <2>2
  <1>7. CASE CheckInvite(r)
    <2>1. req[r].at = "invite_get" /\ (Finish(r) \/ Go(r, "erase_invite"))
      BY <1>7 DEF CheckInvite, At
    <2>2. StepQuiet(r)
      BY <1>2, <2>1, QuietGo, QuietFinish
         DEF Stages, Fits, Steady, JoinStages, PendingStages, MarkingStages
    <2> QED
      BY <1>2, <2>2
  <1>8. CASE CheckTeam(r)
    <2>1. /\ req[r].at = "team_get" /\ req[r].kind = "update"
          /\ Finish(r) \/ Go(r, "save_team")
      BY <1>3, <1>8 DEF CheckTeam, At, Shaped, Fits
    <2>2. StepQuiet(r)
      BY <1>2, <2>1, QuietGo, QuietFinish
         DEF Stages, Fits, Steady, JoinStages, PendingStages, MarkingStages
    <2> QED
      BY <1>2, <2>2
  <1> QED
    BY <1>4, <1>5, <1>6, <1>7, <1>8
-----------------------------------------------------------------------------
(***************************************************************************)
(* The saves and erasures.                                                 *)
(***************************************************************************)
LEMMA SavesAreQuiet ==
    ASSUME TeamInv, NEW r \in Requests,
           \/ SaveTeam(r) \/ ReadAccount(r) \/ SaveAccount(r) \/ SaveIndex(r)
    PROVE  StepQuiet(r) /\ StoredTypeOK' /\ HistoryOK'
  <1>1. req[r] \in ReqType /\ Shaped(req[r]) /\ StoredTypeOK /\ HistoryOK
    BY RequestFacts, TypeFacts
  <1>2. UNCHANGED <<member, pointer, invite, expired, counters>>
    BY DEF SaveTeam, ReadAccount, SaveAccount, SaveIndex, teamVars
  <1>3. Frame /\ HistoryOK'
    BY <1>1, <1>2, FrameStays, HistoryStays DEF counters
  <1>4. CASE SaveTeam(r)
    <2>1. StoredTypeOK'
      BY <1>1, <1>4 DEF SaveTeam, StoredTypeOK
    <2>2. /\ req[r].at = "save_team" /\ req[r].kind \in {"create", "update"}
          /\ \/ req[r].kind = "create" /\ Go(r, "save_member")
             \/ Finish(r)
      BY <1>1, <1>4 DEF SaveTeam, At, Shaped, Fits
    <2>3. StepQuiet(r)
      BY <1>3, <2>2, QuietGo, QuietFinish
         DEF Stages, Fits, Steady, JoinStages, PendingStages, MarkingStages
    <2> QED
      BY <1>3, <2>1, <2>3
  <1>5. CASE ReadAccount(r)
    <2>1. StoredTypeOK'
      BY <1>1, <1>5, StoredStays DEF ReadAccount
    <2>2. req[r].at = "read_account" /\ (Finish(r) \/ Go(r, "save_account"))
      BY <1>5 DEF ReadAccount, At
    <2>3. StepQuiet(r)
      BY <1>3, <2>2, QuietGo, QuietFinish
         DEF Stages, Fits, Steady, JoinStages, PendingStages, MarkingStages
    <2> QED
      BY <1>3, <2>1, <2>3
  <1>6. CASE SaveAccount(r)
    <2>1. StoredTypeOK'
      BY <1>1, <1>6 DEF SaveAccount, StoredTypeOK
    <2>2. req[r].at = "save_account" /\ Finish(r)
      BY <1>6 DEF SaveAccount, At
    <2> QED
      BY <1>3, <2>1, <2>2, QuietFinish DEF MarkingStages
  <1>7. CASE SaveIndex(r)
    <2>1. req[r].team \in Teams \cup {Absent}
      BY <1>1 DEF ReqType
    <2>2. StoredTypeOK'
      BY <1>1, <1>7, <2>1 DEF SaveIndex, StoredTypeOK
    <2>3. req[r].at = "save_index" /\ Finish(r)
      BY <1>7 DEF SaveIndex, At
    <2> QED
      BY <1>3, <2>2, <2>3, QuietFinish DEF MarkingStages
  <1> QED
    BY <1>4, <1>5, <1>6, <1>7

LEMMA PointersShrink ==
    ASSUME StoredTypeOK, NEW u \in Users \cup {Absent}, NEW t \in Teams \cup {Absent},
           pointer' = [pointer EXCEPT ![u][t] = Absent]
    PROVE  \A v \in Users : TeamsOf(v)' \subseteq TeamsOf(v)
  BY DEF StoredTypeOK, TeamsOf

LEMMA ErasuresAreQuiet ==
    ASSUME TeamInv, NEW r \in Requests,
           EraseMember(r) \/ ErasePointer(r) \/ EraseInvite(r) \/ EraseIndex(r)
    PROVE  StepQuiet(r) /\ StoredTypeOK' /\ HistoryOK'
  <1>1. req[r] \in ReqType /\ Shaped(req[r]) /\ StoredTypeOK /\ HistoryOK
    BY RequestFacts, TypeFacts
  <1>2. UNCHANGED counters /\ HistoryOK'
    BY <1>1, HistoryStays DEF EraseMember, ErasePointer, EraseInvite, EraseIndex, counters
  <1>3. CASE EraseMember(r)
    <2>1. StoredTypeOK'
      BY <1>1, <1>3 DEF EraseMember, StoredTypeOK
    <2>2. Frame
      BY <1>2, <1>3, FrameStays DEF EraseMember, counters
    <2>3. req[r].at = "erase_member" /\ (Finish(r) \/ Go(r, "erase_pointer"))
      BY <1>3 DEF EraseMember, Erased, At
    <2>4. StepQuiet(r)
      BY <2>2, <2>3, QuietGo, QuietFinish
         DEF Stages, Fits, Steady, JoinStages, PendingStages, MarkingStages
    <2> QED
      BY <1>2, <2>1, <2>4
  <1>4. CASE ErasePointer(r)
    <2>1. StoredTypeOK'
      BY <1>1, <1>4 DEF ErasePointer, StoredTypeOK
    <2>2. \A v \in Users : TeamsOf(v)' \subseteq TeamsOf(v)
      <3>1. req[r].user \in Users \cup {Absent} /\ req[r].team \in Teams \cup {Absent}
        BY <1>1 DEF ReqType
      <3> QED
        BY <1>1, <1>4, <3>1, PointersShrink DEF ErasePointer
    <2>3. Frame
      BY <1>2, <1>4, <2>2 DEF Frame, ErasePointer, counters
    <2>4. req[r].at = "erase_pointer" /\ Finish(r)
      BY <1>4 DEF ErasePointer, At
    <2> QED
      BY <1>2, <2>1, <2>3, <2>4, QuietFinish DEF MarkingStages
  <1>5. CASE EraseInvite(r)
    <2>1. StoredTypeOK'
      BY <1>1, <1>5 DEF EraseInvite, StoredTypeOK
    <2>2. Frame
      BY <1>1, <1>2, <1>5 DEF EraseInvite, Frame, counters, StoredTypeOK, TeamsOf
    <2>3. req[r].at = "erase_invite" /\ (Finish(r) \/ Go(r, "erase_index"))
      BY <1>5 DEF EraseInvite, Erased, At
    <2>4. StepQuiet(r)
      BY <2>2, <2>3, QuietGo, QuietFinish
         DEF Stages, Fits, Steady, JoinStages, PendingStages, MarkingStages
    <2> QED
      BY <1>2, <2>1, <2>4
  <1>6. CASE EraseIndex(r)
    <2>1. StoredTypeOK'
      BY <1>1, <1>6 DEF EraseIndex, StoredTypeOK
    <2>2. Frame
      BY <1>2, <1>6, FrameStays DEF EraseIndex, counters
    <2>3. req[r].at = "erase_index" /\ Finish(r)
      BY <1>6 DEF EraseIndex, At
    <2> QED
      BY <1>2, <2>1, <2>2, <2>3, QuietFinish DEF MarkingStages
  <1> QED
    BY <1>3, <1>4, <1>5, <1>6

LEMMA BlobsAreBlobs ==
    ASSUME NEW t \in Teams
    PROVE  BlobsOf(t) \in SUBSET AnyBlob
  BY DEF BlobsOf, AnyBlob, Members

\* a deletion of team or account: one listing, or one blob at a time
LEMMA DeletesAreQuiet ==
    ASSUME TeamInv, NEW r \in Requests,
           \/ ListMembers(r) \/ ListBlobs(r) \/ DeleteNext(r) \/ Sweep(r)
           \/ ListPointers(r) \/ ClearNext(r)
    PROVE  StepQuiet(r) /\ StoredTypeOK' /\ HistoryOK'
  <1>1. req[r] \in ReqType /\ Shaped(req[r]) /\ StoredTypeOK /\ HistoryOK
        /\ req \in [Requests -> ReqType]
    BY RequestFacts, TypeFacts DEF TeamInv
  <1>2. /\ req[r].blobs \in SUBSET AnyBlob /\ req[r].members \in SUBSET Users
        /\ req[r].pointers \in SUBSET Teams /\ req[r].at \in Stages
        /\ req[r].team \in Teams \cup {Absent} /\ req[r].user \in Users \cup {Absent}
    BY <1>1 DEF ReqType
  <1>3. UNCHANGED <<drawn, joins, aborts>>
    BY DEF ListMembers, ListBlobs, DeleteNext, Sweep, ListPointers, ClearNext, counters
  <1>4. CASE ListMembers(r)
    <2>1. Frame /\ StoredTypeOK' /\ HistoryOK'
      BY <1>1, <1>4, FrameStays, StoredStays, HistoryStays DEF ListMembers, teamVars, counters
    <2>2. req' = [req EXCEPT ![r] = [req[r] EXCEPT !.at = "list_blobs", !.blobs = req[r].blobs,
                       !.members = Members(req[r].team), !.pointers = req[r].pointers]]
      BY <1>1, <1>4 DEF ListMembers, ReqType
    <2>3. Members(req[r].team) \in SUBSET Users /\ req[r].kind = "delete"
      BY <1>1, <1>4 DEF Members, ListMembers, At, Shaped, Fits
    <2> HIDE DEF Members
    <2>4. StepQuiet(r)
      BY <1>2, <2>1, <2>2, <2>3, QuietEdit DEF Stages, Fits
    <2> QED
      BY <2>1, <2>4
  <1>5. CASE ListBlobs(r)
    <2>1. Frame /\ StoredTypeOK' /\ HistoryOK'
      BY <1>1, <1>5, FrameStays, StoredStays, HistoryStays DEF ListBlobs, teamVars, counters
    <2>2. req' = [req EXCEPT ![r] = [req[r] EXCEPT !.at = "delete_next",
                       !.blobs = BlobsOf(req[r].team),
                       !.members = req[r].members, !.pointers = req[r].pointers]]
      BY <1>1, <1>5 DEF ListBlobs, ReqType
    <2>3. req[r].kind = "delete" /\ req[r].team \in Teams
      BY <1>1, <1>5 DEF ListBlobs, At, Shaped, Fits, Remembers
    <2>a. BlobsOf(req[r].team) \in SUBSET AnyBlob
      BY <2>3, BlobsAreBlobs
    <2> HIDE DEF BlobsOf
    <2>4. StepQuiet(r)
      BY <1>2, <2>1, <2>2, <2>3, <2>a, QuietEdit DEF Stages, Fits
    <2> QED
      BY <2>1, <2>4
  <1>6. CASE DeleteNext(r)
    <2>1. UNCHANGED <<pointer, index, expired, counters>> /\ req[r].at = "delete_next"
      BY <1>6 DEF DeleteNext, At
    <2>2. /\ StoredTypeOK'
          /\ \A k \in Tokens : invite'[k] = invite[k] \/ invite'[k] = Absent
      <3>1. CASE \E blob \in req[r].blobs : DeleteBlob(req[r].team, blob)
        <4>1. PICK blob \in req[r].blobs : DeleteBlob(req[r].team, blob)
          BY <3>1
        <4>2. team' \in [Teams -> BOOLEAN] /\ pool' \in [Teams -> BOOLEAN]
          BY <1>1, <4>1 DEF DeleteBlob, StoredTypeOK
        <4>3. member' \in [Teams -> [Users -> TeamRole \cup {Absent}]]
          BY <1>1, <4>1 DEF DeleteBlob, StoredTypeOK
        <4>4. /\ invite' \in [Tokens -> TeamInvite \cup {Absent}]
              /\ \A k \in Tokens : invite'[k] = invite[k] \/ invite'[k] = Absent
          BY <1>1, <4>1 DEF DeleteBlob, StoredTypeOK
        <4> QED
          BY <1>1, <2>1, <4>2, <4>3, <4>4 DEF StoredTypeOK
      <3>2. CASE UNCHANGED <<team, pool, member, invite>>
        BY <1>1, <2>1, <3>2 DEF StoredTypeOK
      <3> QED
        BY <1>6, <3>1, <3>2 DEF DeleteNext
    <2>3. Frame /\ HistoryOK'
      BY <1>1, <2>1, <2>2, HistoryStays DEF Frame, TeamsOf, counters
    <2>4. CASE Finish(r)
      BY <2>1, <2>2, <2>3, <2>4, QuietFinish DEF MarkingStages
    <2>5. CASE \E blob : req' = [req EXCEPT ![r].blobs = @ \ {blob}]
      <3>1. PICK blob : req' = [req EXCEPT ![r].blobs = @ \ {blob}]
        BY <2>5
      <3>2. req' = [req EXCEPT ![r] = [req[r] EXCEPT !.at = "delete_next",
                       !.blobs = req[r].blobs \ {blob},
                       !.members = req[r].members, !.pointers = req[r].pointers]]
        BY <1>1, <2>1, <3>1 DEF ReqType
      <3>3. req[r].blobs \ {blob} \in SUBSET AnyBlob /\ req[r].kind = "delete"
        BY <1>1, <1>2, <2>1 DEF Shaped, Fits
      <3>4. StepQuiet(r)
        BY <1>2, <2>3, <3>2, <3>3, QuietEdit DEF Stages, Fits
      <3> QED
        BY <2>2, <2>3, <3>4
    <2>6. CASE Go(r, "sweep")
      <3>1. req[r].kind = "delete"
        BY <1>1, <2>1 DEF Shaped, Fits
      <3>2. StepQuiet(r)
        BY <2>1, <2>3, <2>6, <3>1, QuietGo
           DEF Stages, Fits, Steady, JoinStages, PendingStages, MarkingStages
      <3> QED
        BY <2>2, <2>3, <3>2
    <2> QED
      BY <1>6, <2>4, <2>5, <2>6 DEF DeleteNext
  <1>7. CASE Sweep(r)
    <2>1. /\ UNCHANGED <<team, pool, member, invite, index, expired, counters>>
          /\ req[r].at = "sweep" /\ req[r].kind = "delete"
      BY <1>1, <1>7 DEF Sweep, At, Shaped, Fits
    <2>2. StoredTypeOK' /\ \A v \in Users : TeamsOf(v)' \subseteq TeamsOf(v)
      <3>1. CASE \E u \in req[r].members : pointer' = [pointer EXCEPT ![u][req[r].team] = Absent]
        <4>1. PICK u \in req[r].members : pointer' = [pointer EXCEPT ![u][req[r].team] = Absent]
          BY <3>1
        <4>2. \A v \in Users : TeamsOf(v)' \subseteq TeamsOf(v)
          BY <1>1, <1>2, <4>1, PointersShrink
        <4>3. pointer' \in [Users -> [Teams -> TeamRole \cup {Absent}]]
          BY <1>1, <4>1 DEF StoredTypeOK
        <4> QED
          BY <1>1, <2>1, <4>2, <4>3 DEF StoredTypeOK
      <3>2. CASE pointer' = pointer
        BY <1>1, <2>1, <3>2 DEF StoredTypeOK, TeamsOf
      <3> QED
        BY <1>7, <3>1, <3>2 DEF Sweep
    <2>3. Frame /\ HistoryOK'
      BY <1>1, <2>1, <2>2, HistoryStays DEF Frame, counters
    <2>4. CASE Finish(r)
      BY <2>1, <2>2, <2>3, <2>4, QuietFinish DEF MarkingStages
    <2>5. CASE \E u \in req[r].members : req' = [req EXCEPT ![r].members = @ \ {u}]
      <3>1. PICK u \in req[r].members : req' = [req EXCEPT ![r].members = @ \ {u}]
        BY <2>5
      <3>2. req' = [req EXCEPT ![r] = [req[r] EXCEPT !.at = "sweep", !.blobs = req[r].blobs,
                       !.members = req[r].members \ {u}, !.pointers = req[r].pointers]]
        BY <1>1, <2>1, <3>1 DEF ReqType
      <3>3. req[r].members \ {u} \in SUBSET Users
        BY <1>2
      <3>4. StepQuiet(r)
        BY <1>2, <2>1, <2>3, <3>2, <3>3, QuietEdit DEF Stages, Fits
      <3> QED
        BY <2>2, <2>3, <3>4
    <2> QED
      BY <1>7, <2>4, <2>5 DEF Sweep, Erased
  <1>8. CASE ListPointers(r)
    <2>1. Frame /\ StoredTypeOK' /\ req[r].at = "list_pointers" /\ req[r].kind = "clear"
      BY <1>1, <1>3, <1>8, FrameStays, StoredStays DEF ListPointers, teamVars, At, Shaped, Fits
    <2>2. HistoryOK'
      BY <1>1, <2>1, <1>8 DEF ListPointers, HistoryOK, Shaped, Remembers
    <2>3. req' = [req EXCEPT ![r] = [req[r] EXCEPT !.at = "clear_next", !.blobs = req[r].blobs,
                       !.members = req[r].members, !.pointers = TeamsOf(req[r].user)]]
      BY <1>1, <1>8 DEF ListPointers, ReqType
    <2>4. TeamsOf(req[r].user) \in SUBSET Teams
      BY DEF TeamsOf
    <2>5. StepQuiet(r)
      BY <1>2, <2>1, <2>3, <2>4, QuietEdit DEF Stages, Fits
    <2> QED
      BY <2>1, <2>2, <2>5
  <1>9. CASE ClearNext(r)
    <2>1. /\ UNCHANGED <<team, pool, member, invite, index, expired, counters>>
          /\ req[r].at = "clear_next" /\ req[r].kind = "clear"
      BY <1>1, <1>9 DEF ClearNext, At, Shaped, Fits
    <2>2. StoredTypeOK' /\ \A v \in Users : TeamsOf(v)' \subseteq TeamsOf(v)
      <3>1. CASE \E t \in req[r].pointers : pointer' = [pointer EXCEPT ![req[r].user][t] = Absent]
        <4>1. PICK t \in req[r].pointers : pointer' = [pointer EXCEPT ![req[r].user][t] = Absent]
          BY <3>1
        <4>2. \A v \in Users : TeamsOf(v)' \subseteq TeamsOf(v)
          BY <1>1, <1>2, <4>1, PointersShrink
        <4>3. pointer' \in [Users -> [Teams -> TeamRole \cup {Absent}]]
          BY <1>1, <4>1 DEF StoredTypeOK
        <4> QED
          BY <1>1, <2>1, <4>2, <4>3 DEF StoredTypeOK
      <3>2. CASE pointer' = pointer
        BY <1>1, <2>1, <3>2 DEF StoredTypeOK, TeamsOf
      <3> QED
        BY <1>9, <3>1, <3>2 DEF ClearNext
    <2>3. Frame /\ HistoryOK'
      BY <1>1, <2>1, <2>2, HistoryStays DEF Frame, counters
    <2>4. CASE Finish(r)
      BY <2>1, <2>2, <2>3, <2>4, QuietFinish DEF MarkingStages
    <2>5. CASE \E t \in req[r].pointers : req' = [req EXCEPT ![r].pointers = @ \ {t}]
      <3>1. PICK t \in req[r].pointers : req' = [req EXCEPT ![r].pointers = @ \ {t}]
        BY <2>5
      <3>2. req' = [req EXCEPT ![r] = [req[r] EXCEPT !.at = "clear_next", !.blobs = req[r].blobs,
                       !.members = req[r].members, !.pointers = req[r].pointers \ {t}]]
        BY <1>1, <2>1, <3>1 DEF ReqType
      <3>3. req[r].pointers \ {t} \in SUBSET Teams
        BY <1>2
      <3>4. StepQuiet(r)
        BY <1>2, <2>1, <2>3, <3>2, <3>3, QuietEdit DEF Stages, Fits
      <3> QED
        BY <2>2, <2>3, <3>4
    <2> QED
      BY <1>9, <2>4, <2>5 DEF ClearNext
  <1> QED
    BY <1>4, <1>5, <1>6, <1>7, <1>8, <1>9
-----------------------------------------------------------------------------
(***************************************************************************)
(* Two parts of a step keep the bounds: the cap of a user, the use of an   *)
(* invite.                                                                 *)
(***************************************************************************)
LEMMA Others ==
    ASSUME TeamInv, NEW r \in Requests, NEW new, Becomes(r, new)
    PROVE  req'[r] = new /\ \A q \in Requests : q # r => req'[q] = req[q]
  BY DEF TeamInv, Becomes

LEMMA CapQuietKeeps ==
    ASSUME TeamInv, NEW r \in Requests, NEW new, Becomes(r, new),
           NEW u \in Users \ Admins, CapQuiet(u, req[r], new)
    PROVE  InReach(u)' \subseteq InReach(u) \cup BelongsTo(u)
  <1>1. req'[r] = new /\ \A q \in Requests : q # r => req'[q] = req[q]
    BY Others
  <1>2. Joined(u)' \subseteq Joined(u) \cup BelongsTo(u)
    <2>1. ASSUME NEW q \in Requests, Joins(req'[q], u)
          PROVE  req'[q].team \in Joined(u) \cup BelongsTo(u)
      <3>1. \/ Joins(req[q], u) /\ req'[q].team = req[q].team
            \/ req'[q].team \in BelongsTo(u)
        BY <1>1, <2>1 DEF CapQuiet
      <3> QED
        BY <3>1 DEF Joined, Joiners
    <2> QED
      BY <2>1 DEF Joined, Joiners
  <1> QED
    BY <1>2 DEF CapQuiet, InReach

LEMMA UseQuietKeeps ==
    ASSUME TeamInv, TeamInv', NEW r \in Requests, NEW new, Becomes(r, new),
           NEW k \in Tokens, UseHolds(k), UseQuiet(k, req[r], new)
    PROVE  UseHolds(k)'
  <1>1. req'[r] = new /\ \A q \in Requests : q # r => req'[q] = req[q]
    BY Others
  <1>2. Pendings(k)' \subseteq Pendings(k) /\ Markings(k) \subseteq Markings(k)'
    BY <1>1 DEF UseQuiet, Pendings, Markings
  <1>3. /\ Cardinality(Pendings(k)') <= Cardinality(Pendings(k))
        /\ Cardinality(Markings(k)) <= Cardinality(Markings(k)')
        /\ Cardinality(Pendings(k)) \in Nat /\ Cardinality(Pendings(k)') \in Nat
        /\ Cardinality(Markings(k)) \in Nat /\ Cardinality(Markings(k)') \in Nat
        /\ Cardinality(Requests) \in Nat
    <2>1. /\ Pendings(k) \subseteq Requests /\ Pendings(k)' \subseteq Requests
          /\ Markings(k) \subseteq Requests /\ Markings(k)' \subseteq Requests
      BY DEF Pendings, Markings
    <2>2. /\ IsFiniteSet(Pendings(k)) /\ IsFiniteSet(Pendings(k)')
          /\ IsFiniteSet(Markings(k)) /\ IsFiniteSet(Markings(k)')
      BY <2>1, RequestsAreFinite, FS_Subset
    <2> HIDE DEF Pendings, Markings
    <2> QED
      BY <1>2, <2>2, RequestsAreFinite, FS_Subset, FS_CardinalityType
  <1>4. joins[k] \in Nat /\ joins'[k] = joins[k] /\ aborts \in Nat /\ aborts' = aborts
    BY TypeFacts DEF UseQuiet, HistoryOK
  <1>5. Open(k)' => Open(k)
    BY DEF Open, UseQuiet
  <1>6. \A q \in Requests : /\ Issues(req'[q], k) => Issues(req[q], k)
                            /\ Accepts(req'[q], k) => Accepts(req[q], k)
    BY <1>1 DEF UseQuiet
  <1>7. Unissued(k)' => Unissued(k)
    BY <1>6 DEF Unissued, UseQuiet
  <1>8. Unissued(k)' => joins'[k] = 0 /\ invite'[k] = Absent
                        /\ \A q \in Requests : ~Accepts(req'[q], k)
    BY <1>6, <1>7 DEF UseHolds, UseQuiet
  <1>9. /\ \A q \in Requests : Issues(req'[q], k) => k \in drawn'
        /\ \A p, q \in Requests : Issues(req'[p], k) /\ Issues(req'[q], k) => p = q
    BY <1>6 DEF UseHolds, UseQuiet
  <1>10. joins[k] + Cardinality(Pendings(k)') <= Cardinality(Requests) + aborts
    BY <1>3, <1>4 DEF UseHolds
  <1>11. Open(k)' => joins[k] <= Cardinality(Markings(k)') + aborts
    BY <1>3, <1>4, <1>5 DEF UseHolds
  <1> HIDE DEF Pendings, Markings, Open, Unissued, Issues, Accepts
  <1> QED
    BY <1>4, <1>8, <1>9, <1>10, <1>11 DEF UseHolds

BoundsInv == TeamInv /\ UseInv

BoundsKept == BoundsInv' /\ CapStep

\* a step of request r, invite by invite and user by user
LEMMA MoveKeepsBounds ==
    ASSUME BoundsInv, NEW r \in Requests, NEW new, Becomes(r, new), StoredTypeOK', HistoryOK',
           \A u \in Users \ Admins : CapQuiet(u, req[r], new) \/ Admitted(u),
           \A k \in Tokens : UseQuiet(k, req[r], new) \/ UseHolds(k)'
    PROVE  BoundsKept
  <1>1. TeamInv /\ TeamInv'
    BY TypeMove DEF BoundsInv
  <1>2. CapStep
    BY <1>1, CapQuietKeeps DEF CapStep
  <1>3. UseInv'
    BY <1>1, UseQuietKeeps DEF BoundsInv, UseInv
  <1> QED
    BY <1>1, <1>2, <1>3 DEF BoundsInv, BoundsKept

LEMMA QuietKeepsBounds ==
    ASSUME BoundsInv, NEW r \in Requests, StepQuiet(r), StoredTypeOK', HistoryOK'
    PROVE  BoundsKept
  <1>1. PICK new : Becomes(r, new) /\ Quiet(req[r], new)
    BY DEF StepQuiet
  <1> QED
    BY <1>1, MoveKeepsBounds DEF Quiet
-----------------------------------------------------------------------------
(***************************************************************************)
(* The steps that do enlarge something: a check of the cap that passes, an *)
(* invite that is issued, found usable, used and marked as used, and a     *)
(* request that dies.                                                      *)
(***************************************************************************)
LEMMA CheckCapacityKeepsBounds ==
    ASSUME BoundsInv, NEW r \in Requests, CheckCapacity(r)
    PROVE  BoundsKept
  <1>1. TeamInv /\ req[r] \in ReqType /\ Shaped(req[r])
    BY RequestFacts DEF BoundsInv
  <1>2. UNCHANGED <<teamVars, counters>> /\ req[r].at = "capacity" /\ req[r].kind = "accept"
    BY <1>1 DEF CheckCapacity, At, Shaped, Fits
  <1>3. StoredTypeOK' /\ HistoryOK' /\ Frame
    BY <1>1, <1>2, TypeFacts, StoredStays, HistoryStays, FrameStays DEF teamVars, counters
  <1>4. CASE Finish(r)
    BY <1>1, <1>2, <1>3, <1>4, QuietFinish, QuietKeepsBounds DEF MarkingStages
  <1>5. CASE HasCapacity(req[r].user) /\ Go(r, "save_member")
    <2> DEFINE new == [req[r] EXCEPT !.at = "save_member"]
    <2>1. Becomes(r, new) /\ Continues(req[r], new) /\ new.at = "save_member"
      <3>1. "save_member" \in Stages /\ Fits("save_member", req[r].kind)
        BY <1>2 DEF Stages, Fits
      <3> QED
        BY <1>1, <1>5, <3>1, GoMove
    <2>2. new.kind = "accept" /\ new.user = req[r].user /\ new.token = req[r].token
      BY <1>2, <2>1 DEF Continues, NoRequest
    <2> HIDE DEF new
    <2>3. ASSUME NEW u \in Users \ Admins
          PROVE  CapQuiet(u, req[r], new) \/ Admitted(u)
      <3>1. CASE u = req[r].user
        BY <1>2, <1>5, <3>1 DEF HasCapacity, Admitted, teamVars
      <3>2. CASE u # req[r].user
        BY <1>2, <2>2, <3>2 DEF CapQuiet, Joins, InReach, TeamsOf, teamVars
      <3> QED
        BY <3>1, <3>2
    <2>4. ASSUME NEW k \in Tokens
          PROVE  UseQuiet(k, req[r], new)
      BY <1>2, <2>1, <2>2
         DEF UseQuiet, Pending, Marking, Issues, Accepts, teamVars, counters
    <2> QED
      BY <1>3, <2>1, <2>3, <2>4, MoveKeepsBounds
  <1> QED
    BY <1>4, <1>5 DEF CheckCapacity

\* the cardinalities that the uses of invite k are counted with
LEMMA UseCounts ==
    ASSUME TeamInv, NEW k
    PROVE  /\ IsFiniteSet(Pendings(k)) /\ Cardinality(Pendings(k)) \in Nat
           /\ IsFiniteSet(Markings(k)) /\ Cardinality(Markings(k)) \in Nat
           /\ IsFiniteSet(Pendings(k)') /\ Cardinality(Pendings(k)') \in Nat
           /\ IsFiniteSet(Markings(k)') /\ Cardinality(Markings(k)') \in Nat
           /\ Cardinality(Requests) \in Nat
           /\ Cardinality(Pendings(k)') + Cardinality(Markings(k)') <= Cardinality(Requests)
  <1>1. /\ Pendings(k) \subseteq Requests /\ Pendings(k)' \subseteq Requests
        /\ Markings(k) \subseteq Requests /\ Markings(k)' \subseteq Requests
        /\ Pendings(k)' \cap Markings(k)' = {}
    BY DEF Pendings, Markings, Pending, Marking
  <1> HIDE DEF Pendings, Markings
  <1>2. /\ IsFiniteSet(Pendings(k)) /\ IsFiniteSet(Pendings(k)')
        /\ IsFiniteSet(Markings(k)) /\ IsFiniteSet(Markings(k)')
    BY <1>1, RequestsAreFinite, FS_Subset
  <1>3. /\ Cardinality(Pendings(k)) \in Nat /\ Cardinality(Pendings(k)') \in Nat
        /\ Cardinality(Markings(k)) \in Nat /\ Cardinality(Markings(k)') \in Nat
        /\ Cardinality(Requests) \in Nat
    BY <1>2, RequestsAreFinite, FS_CardinalityType
  <1>4. Cardinality(Pendings(k)' \cup Markings(k)') =
           Cardinality(Pendings(k)') + Cardinality(Markings(k)')
              - Cardinality(Pendings(k)' \cap Markings(k)')
    BY <1>2, FS_Union
  <1>5. Cardinality(Pendings(k)' \cap Markings(k)') = 0
    BY <1>1, FS_EmptySet
  <1>6. Cardinality(Pendings(k)' \cup Markings(k)') <= Cardinality(Requests)
    BY <1>1, RequestsAreFinite, FS_Subset
  <1>7. Cardinality(Pendings(k)') + Cardinality(Markings(k)') <= Cardinality(Requests)
    BY <1>3, <1>4, <1>5, <1>6
  <1> QED
    BY <1>2, <1>3, <1>7

\* request r uses invite k: from the check to the membership
LEMMA UseIsCounted ==
    ASSUME TeamInv, TeamInv', NEW r \in Requests, NEW k \in Tokens, UseHolds(k),
           NEW new, Becomes(r, new), req[r].at = "save_member", Accepts(req[r], k),
           new.at = "save_pointer", Accepts(new, k),
           joins' = [joins EXCEPT ![k] = @ + 1], UNCHANGED <<invite, drawn, aborts>>
    PROVE  UseHolds(k)'
  <1>1. req'[r] = new /\ \A q \in Requests : q # r => req'[q] = req[q]
    BY Others
  <1>2. joins[k] \in Nat /\ joins'[k] = joins[k] + 1 /\ aborts \in Nat
    BY TypeFacts DEF HistoryOK
  <1>3. Pending(req[r], k) /\ ~Marking(req[r], k) /\ ~Pending(new, k) /\ Marking(new, k)
    BY DEF Pending, Marking
  <1>4. /\ r \in Pendings(k) /\ Pendings(k)' = Pendings(k) \ {r}
        /\ r \notin Markings(k) /\ Markings(k)' = Markings(k) \cup {r}
    BY <1>1, <1>3 DEF Pendings, Markings
  <1>5. /\ Cardinality(Pendings(k)') = Cardinality(Pendings(k)) - 1
        /\ Cardinality(Markings(k)') = Cardinality(Markings(k)) + 1
    <2>1. /\ IsFiniteSet(Pendings(k)) /\ Cardinality(Pendings(k)) \in Nat
          /\ IsFiniteSet(Markings(k)) /\ Cardinality(Markings(k)) \in Nat
      BY UseCounts
    <2> HIDE DEF Pendings, Markings
    <2>2. Cardinality(Pendings(k) \ {r}) = Cardinality(Pendings(k)) - 1
      BY <1>4, <2>1, FS_RemoveElement
    <2>3. Cardinality(Markings(k) \cup {r}) = Cardinality(Markings(k)) + 1
      BY <1>4, <2>1, FS_AddElement
    <2> QED
      BY <1>4, <2>2, <2>3
  <1>6. ~Unissued(k)
    BY DEF UseHolds
  <1>7. \A q \in Requests : Issues(req'[q], k) => Issues(req[q], k)
    BY <1>1 DEF Issues, Accepts
  <1>8. ~Unissued(k)'
    BY <1>6, <1>7 DEF Unissued
  <1>9. joins'[k] + Cardinality(Pendings(k)') <= Cardinality(Requests) + aborts
    BY <1>2, <1>5, UseCounts DEF UseHolds
  <1>10. Open(k)' => joins'[k] <= Cardinality(Markings(k)') + aborts
    BY <1>2, <1>5, UseCounts DEF UseHolds, Open
  <1>11. /\ \A q \in Requests : Issues(req'[q], k) => k \in drawn'
         /\ \A p, q \in Requests : Issues(req'[p], k) /\ Issues(req'[q], k) => p = q
    BY <1>7 DEF UseHolds
  <1> HIDE DEF Pendings, Markings, Open, Unissued, Issues, Accepts
  <1> QED
    BY <1>8, <1>9, <1>10, <1>11 DEF UseHolds

LEMMA SaveMemberKeepsBounds ==
    ASSUME BoundsInv, NEW r \in Requests, SaveMember(r)
    PROVE  BoundsKept
  <1> DEFINE new == [req[r] EXCEPT !.at = "save_pointer"]
  <1>1. TeamInv /\ req[r] \in ReqType /\ Shaped(req[r]) /\ StoredTypeOK /\ HistoryOK
    BY RequestFacts, TypeFacts DEF BoundsInv
  <1>2. /\ req[r].at = "save_member" /\ req[r].kind \in {"create", "change", "accept"}
        /\ req[r].role \in TeamRole \cup {Absent}
    BY <1>1 DEF SaveMember, At, Shaped, Fits, ReqType
  <1>3. Becomes(r, new) /\ Continues(req[r], new) /\ new.at = "save_pointer"
    <2>1. /\ Go(r, "save_pointer") /\ "save_pointer" \in Stages
          /\ Fits("save_pointer", req[r].kind)
      BY <1>2 DEF SaveMember, Stages, Fits
    <2> QED
      BY <1>1, <2>1, GoMove
  <1>4. new.kind = req[r].kind /\ new.user = req[r].user /\ new.token = req[r].token
        /\ new.team = req[r].team
    BY <1>2, <1>3 DEF Continues, NoRequest
  <1> HIDE DEF new
  <1>5. StoredTypeOK'
    BY <1>1, <1>2 DEF SaveMember, StoredTypeOK
  <1>6. HistoryOK'
    <2>1. \/ joins' = joins
          \/ joins' = [joins EXCEPT ![req[r].token] = @ + 1]
      BY DEF SaveMember
    <2>2. joins' \in [Tokens -> Nat]
      BY <1>1, <2>1 DEF HistoryOK
    <2> QED
      BY <1>1, <2>2 DEF SaveMember, HistoryOK
  <1>7. TeamInv'
    BY <1>1, <1>3, <1>5, <1>6, TypeMove
  <1>8. \A u \in Users \ Admins : CapQuiet(u, req[r], new)
    BY <1>2, <1>4 DEF SaveMember, CapQuiet, Joins, JoinStages, InReach, TeamsOf
  <1>9. ASSUME NEW k \in Tokens
        PROVE  UseQuiet(k, req[r], new) \/ UseHolds(k)'
    <2>1. CASE Accepts(req[r], k)
      <3>1. Accepts(new, k)
        BY <1>4, <2>1 DEF Accepts
      <3>2. joins' = [joins EXCEPT ![k] = @ + 1] /\ UNCHANGED <<invite, drawn, aborts>>
        BY <2>1 DEF SaveMember, Accepts
      <3>3. UseHolds(k)
        BY DEF BoundsInv, UseInv
      <3> QED
        BY <1>1, <1>2, <1>3, <1>7, <2>1, <3>1, <3>2, <3>3, UseIsCounted
    <2>2. CASE ~Accepts(req[r], k)
      <3>1. ~Accepts(new, k) /\ new.at # "save_invite"
        BY <1>3, <1>4, <2>2 DEF Accepts
      <3>2. joins'[k] = joins[k] /\ UNCHANGED <<invite, drawn, aborts>>
        BY <1>1, <2>2 DEF SaveMember, Accepts, HistoryOK
      <3> QED
        BY <2>2, <3>1, <3>2 DEF UseQuiet, Pending, Marking, Issues
    <2> QED
      BY <2>1, <2>2
  <1> QED
    BY <1>3, <1>5, <1>6, <1>8, <1>9, MoveKeepsBounds

LEMMA SavePointerKeepsBounds ==
    ASSUME BoundsInv, NEW r \in Requests, SavePointer(r)
    PROVE  BoundsKept
  <1>1. TeamInv /\ req[r] \in ReqType /\ Shaped(req[r]) /\ StoredTypeOK /\ HistoryOK
    BY RequestFacts, TypeFacts DEF BoundsInv
  <1>2. /\ req[r].at = "save_pointer" /\ req[r].kind \in {"create", "change", "accept"}
        /\ req[r].role \in TeamRole \cup {Absent} /\ req[r].kind \in Kinds \cup {"none"}
    BY <1>1 DEF SavePointer, At, Shaped, Fits, Remembers, ReqType
  <1>3. \E new : /\ Becomes(r, new) /\ Continues(req[r], new)
                 /\ new.at \notin JoinStages /\ new.kind # "invite"
                 /\ Accepts(req[r], req[r].token) => new.at = "save_invite"
    <2>1. CASE req[r].kind = "create" /\ Go(r, "read_account")
      <3> DEFINE new == [req[r] EXCEPT !.at = "read_account"]
      <3>1. "read_account" \in Stages /\ Fits("read_account", req[r].kind)
        BY <2>1 DEF Stages, Fits
      <3>2. Becomes(r, new) /\ Continues(req[r], new) /\ new.at = "read_account"
        BY <1>1, <2>1, <3>1, GoMove
      <3> HIDE DEF new
      <3> QED
        BY <2>1, <3>2 DEF JoinStages, Accepts, Continues, NoRequest
    <2>2. CASE req[r].kind = "accept" /\ Go(r, "save_invite")
      <3> DEFINE new == [req[r] EXCEPT !.at = "save_invite"]
      <3>1. "save_invite" \in Stages /\ Fits("save_invite", req[r].kind)
        BY <2>2 DEF Stages, Fits
      <3>2. Becomes(r, new) /\ Continues(req[r], new) /\ new.at = "save_invite"
        BY <1>1, <2>2, <3>1, GoMove
      <3> HIDE DEF new
      <3> QED
        BY <2>2, <3>2 DEF JoinStages, Accepts, Continues, NoRequest
    <2>3. CASE req[r].kind = "change" /\ Finish(r)
      BY <2>3, FinishMove DEF JoinStages, Accepts, NoRequest
    <2> QED
      BY <1>2, <2>1, <2>2, <2>3 DEF SavePointer
  <1>4. PICK new : /\ Becomes(r, new) /\ Continues(req[r], new)
                   /\ new.at \notin JoinStages /\ new.kind # "invite"
                   /\ Accepts(req[r], req[r].token) => new.at = "save_invite"
    BY <1>3
  <1>5. StoredTypeOK' /\ HistoryOK'
    BY <1>1, <1>2 DEF SavePointer, StoredTypeOK, HistoryOK, counters
  <1>6. ASSUME NEW u \in Users \ Admins
        PROVE  CapQuiet(u, req[r], new)
    <2>2. TeamsOf(u)' \subseteq
             TeamsOf(u) \cup {t \in Teams : u = req[r].user /\ t = req[r].team}
      BY <1>1 DEF SavePointer, StoredTypeOK, TeamsOf
    <2>3. u = req[r].user => req[r].team \in Joined(u)
      BY <1>2 DEF Joined, Joiners, Joins, JoinStages
    <2>4. TeamsOf(u)' \subseteq InReach(u)
      <3> HIDE DEF TeamsOf, Joined
      <3> QED
        BY <2>2, <2>3 DEF InReach
    <2>5. ~Joins(new, u)
      BY <1>4 DEF Joins, JoinStages
    <2> QED
      BY <2>4, <2>5 DEF CapQuiet
  <1>7. ASSUME NEW k \in Tokens
        PROVE  UseQuiet(k, req[r], new)
    <2>1. Accepts(req[r], k) => Accepts(new, k) /\ new.at = "save_invite"
      BY <1>4 DEF Accepts, Continues, NoRequest
    <2>2. Accepts(new, k) => Accepts(req[r], k)
      BY <1>4 DEF Accepts, Continues, NoRequest
    <2>3. ~Issues(new, k)
      BY <1>4 DEF Issues
    <2>4. UNCHANGED <<invite, drawn, joins, aborts>>
      BY DEF SavePointer, counters
    <2>5. Pending(new, k) => Pending(req[r], k)
      BY <2>1, <2>2 DEF Pending
    <2>6. Marking(req[r], k) => Marking(new, k)
      BY <2>1 DEF Marking
    <2> QED
      BY <2>2, <2>3, <2>4, <2>5, <2>6 DEF UseQuiet
  <1> QED
    BY <1>4, <1>5, <1>6, <1>7, MoveKeepsBounds

\* what is known of an invite that a request has used, or issued, once it is stored
LEMMA UseIsMarked ==
    ASSUME TeamInv, TeamInv', NEW r \in Requests, NEW k \in Tokens, UseHolds(k),
           NEW new, Becomes(r, new), req[r].at = "save_invite", new.at = "save_index",
           new.kind = req[r].kind, new.token = req[r].token, req[r].token = k,
           \/ Accepts(req[r], k) /\ ~Open(k)'
           \/ Issues(req[r], k),
           UNCHANGED <<joins, drawn, aborts>>
    PROVE  UseHolds(k)'
  <1>1. req'[r] = new /\ \A q \in Requests : q # r => req'[q] = req[q]
    BY Others
  <1>2. joins[k] \in Nat /\ joins'[k] = joins[k] /\ aborts \in Nat
    BY TypeFacts DEF HistoryOK
  <1>3. ~Pending(new, k) /\ ~Pending(req[r], k) /\ ~Issues(new, k)
    BY DEF Pending, Issues
  <1>4. Pendings(k)' = Pendings(k)
    BY <1>1, <1>3 DEF Pendings
  <1>5. /\ \A q \in Requests : Issues(req'[q], k) => Issues(req[q], k) /\ q # r
        /\ Accepts(new, k) => Accepts(req[r], k)
    BY <1>1, <1>3 DEF Accepts
  <1>6. ~Unissued(k)'
    <2>1. CASE Accepts(req[r], k)
      <3>1. ~Unissued(k)
        BY <2>1 DEF UseHolds
      <3> QED
        BY <1>5, <3>1 DEF Unissued
    <2>2. CASE Issues(req[r], k)
      BY <1>5, <2>2 DEF Unissued, UseHolds
    <2> QED
      BY <2>1, <2>2
  <1>7. joins'[k] + Cardinality(Pendings(k)') <= Cardinality(Requests) + aborts
    BY <1>2, <1>4 DEF UseHolds
  <1>8. Open(k)' => joins'[k] <= Cardinality(Markings(k)') + aborts
    <2>1. Open(k)' => Unissued(k)
      BY DEF Unissued
    <2>2. Open(k)' => joins[k] = 0
      BY <2>1 DEF UseHolds
    <2> HIDE DEF Open
    <2> QED
      BY <1>2, <2>2, UseCounts
  <1>9. /\ \A q \in Requests : Issues(req'[q], k) => k \in drawn'
        /\ \A p, q \in Requests : Issues(req'[p], k) /\ Issues(req'[q], k) => p = q
    BY <1>5 DEF UseHolds
  <1> HIDE DEF Pendings, Markings, Open, Unissued, Issues, Accepts
  <1> QED
    BY <1>6, <1>7, <1>8, <1>9 DEF UseHolds

LEMMA SaveInviteKeepsBounds ==
    ASSUME BoundsInv, NEW r \in Requests, SaveInvite(r)
    PROVE  BoundsKept
  <1> DEFINE new == [req[r] EXCEPT !.at = "save_index"]
             stored == [team_id     |-> req[r].team,
                        role        |-> req[r].role,
                        accepted_by |-> IF req[r].kind = "accept" THEN req[r].user ELSE Absent]
  <1>1. TeamInv /\ req[r] \in ReqType /\ Shaped(req[r]) /\ StoredTypeOK /\ HistoryOK
    BY RequestFacts, TypeFacts DEF BoundsInv
  <1>2. /\ req[r].at = "save_invite" /\ req[r].kind \in {"invite", "accept"}
        /\ req[r].team \in Teams /\ req[r].role \in InvitedRole /\ req[r].token \in Tokens
        /\ req[r].kind = "accept" => req[r].user \in Users
    BY <1>1 DEF SaveInvite, At, Shaped, Fits, Remembers
  <1>3. Becomes(r, new) /\ Continues(req[r], new) /\ new.at = "save_index"
    <2>1. Go(r, "save_index") /\ "save_index" \in Stages /\ Fits("save_index", req[r].kind)
      BY <1>2 DEF SaveInvite, Stages, Fits
    <2> QED
      BY <1>1, <2>1, GoMove
  <1>4. new.kind = req[r].kind /\ new.user = req[r].user /\ new.token = req[r].token
    BY <1>2, <1>3 DEF Continues, NoRequest
  <1> HIDE DEF new
  <1>5. stored \in TeamInvite
    BY <1>2 DEF TeamInvite
  <1>6. invite' = [invite EXCEPT ![req[r].token] = stored]
    BY DEF SaveInvite
  <1>7. req[r].kind = "accept" => stored.accepted_by # Absent
    BY <1>2, TeamAbsentAssumption
  <1> HIDE DEF stored
  <1>8. StoredTypeOK' /\ HistoryOK'
    BY <1>1, <1>5, <1>6 DEF SaveInvite, StoredTypeOK, HistoryOK, counters
  <1>9. TeamInv'
    BY <1>1, <1>3, <1>8, TypeMove
  <1>10. UNCHANGED <<pointer, joins, drawn, aborts>>
    BY DEF SaveInvite, counters
  <1>11. \A u \in Users \ Admins : CapQuiet(u, req[r], new)
    BY <1>3, <1>10 DEF CapQuiet, Joins, JoinStages, InReach, TeamsOf
  <1>12. ASSUME NEW k \in Tokens
         PROVE  UseQuiet(k, req[r], new) \/ UseHolds(k)'
    <2>1. CASE k = req[r].token
      <3>1. invite'[k] = stored
        BY <1>1, <1>6, <2>1 DEF StoredTypeOK
      <3>2. \/ Accepts(req[r], k) /\ ~Open(k)'
            \/ Issues(req[r], k)
        BY <1>2, <1>7, <2>1, <3>1 DEF Accepts, Issues, Open
      <3>3. UseHolds(k)
        BY DEF BoundsInv, UseInv
      <3> QED
        BY <1>1, <1>2, <1>3, <1>4, <1>9, <1>10, <2>1, <3>2, <3>3, UseIsMarked
    <2>2. CASE k # req[r].token
      <3>1. invite'[k] = invite[k]
        BY <1>1, <1>6, <2>2 DEF StoredTypeOK
      <3> QED
        BY <1>4, <1>10, <2>2, <3>1 DEF UseQuiet, Pending, Marking, Issues, Accepts
    <2> QED
      BY <2>1, <2>2
  <1> QED
    BY <1>3, <1>8, <1>11, <1>12, MoveKeepsBounds

LEMMA AbortKeepsBounds ==
    ASSUME BoundsInv, NEW r \in Requests, Abort(r)
    PROVE  BoundsKept
  <1>1. TeamInv /\ StoredTypeOK /\ HistoryOK
    BY TypeFacts DEF BoundsInv
  <1>2. Becomes(r, NoRequest) /\ UNCHANGED <<teamVars, drawn, joins, cleared>>
        /\ aborts' = aborts + 1
    BY FinishMove DEF Abort
  <1>3. StoredTypeOK' /\ HistoryOK'
    BY <1>1, <1>2, StoredStays DEF HistoryOK
  <1>4. \A u \in Users \ Admins : CapQuiet(u, req[r], NoRequest)
    BY <1>2 DEF CapQuiet, Joins, JoinStages, NoRequest, InReach, TeamsOf, teamVars
  <1>5. req'[r] = NoRequest /\ \A q \in Requests : q # r => req'[q] = req[q]
    BY <1>1, <1>2, Others
  <1>6. ASSUME NEW k \in Tokens
        PROVE  UseHolds(k)'
    <2>1. UseHolds(k)
      BY DEF BoundsInv, UseInv
    <2>2. ~Accepts(NoRequest, k) /\ ~Issues(NoRequest, k)
      BY DEF Accepts, Issues, NoRequest
    <2>3. Pendings(k)' \subseteq Pendings(k) /\ Markings(k) \subseteq Markings(k)' \cup {r}
      BY <1>5, <2>2 DEF Pendings, Markings, Pending
    <2>4. /\ Cardinality(Pendings(k)') <= Cardinality(Pendings(k))
          /\ Cardinality(Markings(k)) <= Cardinality(Markings(k)') + 1
      <3>1. /\ IsFiniteSet(Markings(k)' \cup {r})
            /\ Cardinality(Markings(k)' \cup {r}) <= Cardinality(Markings(k)') + 1
        BY <1>1, UseCounts, FS_AddElement
      <3>2. Cardinality(Markings(k)' \cup {r}) \in Nat
        BY <3>1, FS_CardinalityType
      <3>3. /\ Cardinality(Pendings(k)') <= Cardinality(Pendings(k))
            /\ Cardinality(Markings(k)) <= Cardinality(Markings(k)' \cup {r})
        <4> HIDE DEF Pendings, Markings
        <4> QED
          BY <1>1, <2>3, <3>1, UseCounts, FS_Subset
      <3> HIDE DEF Pendings, Markings
      <3> QED
        BY <1>1, <3>1, <3>2, <3>3, UseCounts
    <2>5. joins[k] \in Nat /\ joins'[k] = joins[k] /\ aborts \in Nat /\ invite' = invite
      BY <1>1, <1>2 DEF HistoryOK, teamVars
    <2>6. \A q \in Requests : /\ Issues(req'[q], k) => Issues(req[q], k)
                              /\ Accepts(req'[q], k) => Accepts(req[q], k)
      BY <1>5, <2>2
    <2>7. Unissued(k)' => Unissued(k)
      BY <1>2, <2>6 DEF Unissued
    <2>8. Open(k)' => Open(k)
      BY <2>5 DEF Open
    <2>9. joins'[k] + Cardinality(Pendings(k)') <= Cardinality(Requests) + aborts'
      BY <1>1, <1>2, <2>1, <2>4, <2>5, UseCounts DEF UseHolds
    <2>10. Open(k)' => joins'[k] <= Cardinality(Markings(k)') + aborts'
      BY <1>1, <1>2, <2>1, <2>4, <2>5, <2>8, UseCounts DEF UseHolds
    <2>11. Unissued(k)' => joins'[k] = 0 /\ invite'[k] = Absent
                           /\ \A q \in Requests : ~Accepts(req'[q], k)
      BY <2>1, <2>5, <2>6, <2>7 DEF UseHolds
    <2>12. /\ \A q \in Requests : Issues(req'[q], k) => k \in drawn'
           /\ \A p, q \in Requests : Issues(req'[p], k) /\ Issues(req'[q], k) => p = q
      BY <1>2, <2>1, <2>6 DEF UseHolds
    <2> HIDE DEF Pendings, Markings, Open, Unissued, Issues, Accepts
    <2> QED
      BY <2>9, <2>10, <2>11, <2>12 DEF UseHolds
  <1> QED
    BY <1>2, <1>3, <1>4, <1>6, MoveKeepsBounds DEF BoundsInv
-----------------------------------------------------------------------------
(***************************************************************************)
(* The starts of requests.                                                 *)
(***************************************************************************)
LEMMA OnIsType ==
    ASSUME NEW kind \in AnyKind, NEW stage \in Stages, NEW t \in Teams \cup {Absent}
    PROVE  /\ On(kind, stage, t) \in ReqType
           /\ On(kind, stage, t).at = stage /\ On(kind, stage, t).kind = kind
           /\ On(kind, stage, t).team = t
  BY NoRequestIsType DEF On, ReqType

\* a request that is accepted as `new`
LEMMA AcceptMove ==
    ASSUME BoundsInv, NEW r \in Requests, NEW kind, NEW new \in ReqType,
           Accept(r, kind, new), new.kind = kind, Shaped(new), drawn \subseteq drawn',
           \A u \in Users \ Admins : Joins(new, u) => Admitted(u),
           \A k \in Tokens : Accepts(new, k) \/ Issues(new, k) => UseHolds(k)'
    PROVE  BoundsKept
  <1>1. TeamInv /\ StoredTypeOK /\ HistoryOK
    BY TypeFacts DEF BoundsInv
  <1>2. req[r] = NoRequest /\ UNCHANGED <<teamVars, joins, cleared, aborts>>
    BY DEF Accept
  <1>3. Becomes(r, new)
    BY DEF Accept, Becomes
  <1>4. StoredTypeOK' /\ HistoryOK'
    BY <1>1, <1>2, StoredStays, HistoryStays
  <1>5. \A u \in Users \ Admins : Joins(new, u) \/ CapQuiet(u, req[r], new)
    BY <1>2 DEF CapQuiet, InReach, TeamsOf, teamVars
  <1>6. ASSUME NEW k \in Tokens, ~Accepts(new, k), ~Issues(new, k)
        PROVE  UseQuiet(k, req[r], new)
    <2>1. ~Pending(new, k) /\ ~Marking(req[r], k)
      BY <1>2, <1>6 DEF Pending, Marking, Accepts, NoRequest
    <2> QED
      BY <1>2, <1>6, <2>1 DEF UseQuiet, teamVars
  <1> QED
    BY <1>3, <1>4, <1>5, <1>6, MoveKeepsBounds

\* a request that neither joins a team nor issues or accepts an invite
LEMMA PlainStart ==
    ASSUME BoundsInv, NEW r \in Requests,
           NEW kind \in AnyKind \ {"none", "create", "invite", "accept"},
           NEW new \in ReqType, Accept(r, kind, new), new.kind = kind, UNCHANGED drawn,
           Fits(new.at, kind), new.at \notin JoinStages, kind = "clear" => new.user \in Users,
           kind \in {"change", "delete"} => new.team \in Teams
    PROVE  BoundsKept
  <1>1. Shaped(new)
    BY DEF Shaped, Remembers, Accept
  <1>2. /\ \A u : ~Joins(new, u)
        /\ \A k : ~Accepts(new, k) /\ ~Issues(new, k)
    BY DEF Joins, Accepts, Issues
  <1> QED
    BY <1>1, <1>2, AcceptMove

LEMMA CreateTeamKeepsBounds ==
    ASSUME BoundsInv, NEW r \in Requests, NEW u \in Users, NEW t \in Teams, CreateTeam(r, u, t)
    PROVE  BoundsKept
  <1> DEFINE new == [On("create", "save_team", t) EXCEPT !.user = u, !.role = "owner"]
  <1>1. /\ new \in ReqType /\ new.kind = "create" /\ new.at = "save_team" /\ new.user = u
    <2>1. "create" \in AnyKind /\ "save_team" \in Stages
      BY DEF AnyKind, Stages
    <2>2. /\ On("create", "save_team", t) \in ReqType
          /\ On("create", "save_team", t).kind = "create"
          /\ On("create", "save_team", t).at = "save_team"
          /\ On("create", "save_team", t).team = t
      BY <2>1, OnIsType
    <2> QED
      BY <2>2 DEF ReqType, TeamRole
  <1> HIDE DEF new
  <1>2. Accept(r, "create", new) /\ drawn \subseteq drawn' /\ HasCapacity(u)
    BY DEF CreateTeam, new
  <1>3. Shaped(new)
    BY <1>1, <1>2 DEF Shaped, Fits, Remembers, Accept
  <1>4. ASSUME NEW v \in Users \ Admins, Joins(new, v)
        PROVE  Admitted(v)
    <2>1. v = u /\ Cardinality(TeamsOf(u)) < MembershipLimit
      BY <1>1, <1>2, <1>4 DEF Joins, HasCapacity
    <2> QED
      BY <1>2, <2>1 DEF Accept, teamVars, Admitted
  <1>5. \A k \in Tokens : ~Accepts(new, k) /\ ~Issues(new, k)
    BY <1>1 DEF Accepts, Issues
  <1> QED
    BY <1>1, <1>2, <1>3, <1>4, <1>5, AcceptMove

\* a token is drawn once: nothing is known of the invite before it is issued
LEMMA CreateInviteKeepsBounds ==
    ASSUME BoundsInv, NEW r \in Requests, NEW caller \in Users, NEW t \in Teams,
           NEW k \in Tokens, NEW role \in InvitedRole, CreateInvite(r, caller, t, k, role)
    PROVE  BoundsKept
  <1> DEFINE new == [On("invite", "save_invite", t) EXCEPT !.token = k, !.role = role]
  <1>1. /\ new \in ReqType /\ new.kind = "invite" /\ new.at = "save_invite"
        /\ new.token = k /\ new.role = role /\ new.team = t
    <2>1. "invite" \in AnyKind /\ "save_invite" \in Stages
      BY DEF AnyKind, Stages
    <2>2. /\ On("invite", "save_invite", t) \in ReqType
          /\ On("invite", "save_invite", t).kind = "invite"
          /\ On("invite", "save_invite", t).at = "save_invite"
          /\ On("invite", "save_invite", t).team = t
      BY <2>1, OnIsType
    <2> QED
      BY <2>2 DEF ReqType, InvitedRole
  <1> HIDE DEF new
  <1>2. /\ Accept(r, "invite", new) /\ k \notin drawn /\ drawn' = drawn \cup {k}
    BY DEF CreateInvite, new
  <1>3. Shaped(new)
    BY <1>1, <1>2 DEF Shaped, Fits, Remembers, Accept
  <1>4. \A u : ~Joins(new, u)
    BY <1>1 DEF Joins
  <1>5. ASSUME NEW j \in Tokens, Accepts(new, j) \/ Issues(new, j)
        PROVE  UseHolds(j)'
    <2>1. j = k /\ UseHolds(k) /\ TeamInv /\ Unissued(k)
      BY <1>1, <1>2, <1>5 DEF Accepts, Issues, BoundsInv, UseInv, Unissued
    <2>2. req'[r] = new /\ \A q \in Requests : q # r => req'[q] = req[q]
      BY <1>1, <1>2, <1>3, <2>1, Others DEF Becomes, Accept
    <2>3. ~Accepts(new, k)
      BY <1>1 DEF Accepts
    <2>4. \A q \in Requests : ~Accepts(req'[q], k)
      BY <2>1, <2>2, <2>3 DEF UseHolds
    <2>5. joins'[k] = 0 /\ invite'[k] = Absent /\ aborts' \in Nat
      BY <1>2, <2>1, TypeFacts DEF UseHolds, Accept, teamVars, HistoryOK
    <2>6. Pendings(k)' = {}
      BY <2>4 DEF Pendings, Pending
    <2>7. Cardinality(Pendings(k)') = 0 /\ Cardinality(Requests) \in Nat
      BY <2>1, <2>6, UseCounts, FS_EmptySet
    <2>8. \A q \in Requests : Issues(req'[q], k) => q = r
      BY <1>2, <2>1, <2>2 DEF UseHolds
    <2>9. ~Open(k)'
      BY <2>5 DEF Open
    <2>10. joins'[k] + Cardinality(Pendings(k)') <= Cardinality(Requests) + aborts'
      BY <2>5, <2>7
    <2> HIDE DEF Pendings, Markings, Open, Unissued, Issues, Accepts
    <2> QED
      BY <1>2, <2>1, <2>4, <2>5, <2>8, <2>9, <2>10 DEF UseHolds
  <1> QED
    BY <1>1, <1>2, <1>3, <1>4, <1>5, AcceptMove

\* the invite has been found usable
LEMMA AcceptInviteKeepsBounds ==
    ASSUME BoundsInv, NEW r \in Requests, NEW u \in Users, NEW k \in Tokens, AcceptInvite(r, u, k)
    PROVE  BoundsKept
  <1> DEFINE new == [On("accept", "existing", invite[k].team_id) EXCEPT
                        !.user = u, !.token = k, !.role = invite[k].role]
  <1>1. TeamInv /\ StoredTypeOK /\ HistoryOK /\ UseHolds(k)
    BY TypeFacts DEF BoundsInv, UseInv
  <1>2. /\ ByToken(k) = invite[k] /\ invite[k] # Absent /\ Open(k)
        /\ Accept(r, "accept", new) /\ drawn' = drawn
    BY DEF AcceptInvite, ByToken, IsUsable, Open
  <1>3. invite[k].team_id \in Teams /\ invite[k].role \in InvitedRole
    BY <1>1, <1>2 DEF StoredTypeOK, TeamInvite
  <1>4. /\ new \in ReqType /\ new.kind = "accept" /\ new.at = "existing" /\ new.user = u
        /\ new.token = k /\ new.role = invite[k].role /\ new.team = invite[k].team_id
    <2>1. "accept" \in AnyKind /\ "existing" \in Stages
      BY DEF AnyKind, Stages
    <2>2. /\ On("accept", "existing", invite[k].team_id) \in ReqType
          /\ On("accept", "existing", invite[k].team_id).kind = "accept"
          /\ On("accept", "existing", invite[k].team_id).at = "existing"
          /\ On("accept", "existing", invite[k].team_id).team = invite[k].team_id
      BY <1>3, <2>1, OnIsType
    <2> QED
      BY <1>3, <2>2 DEF ReqType, InvitedRole
  <1> HIDE DEF new
  <1>5. Shaped(new)
    BY <1>2, <1>3, <1>4 DEF Shaped, Fits, Remembers, Accept
  <1>6. \A v : ~Joins(new, v)
    BY <1>4 DEF Joins, JoinStages
  <1>7. ASSUME NEW j \in Tokens, Accepts(new, j) \/ Issues(new, j)
        PROVE  UseHolds(j)'
    <2>1. j = k
      BY <1>4, <1>7 DEF Accepts, Issues
    <2>2. req'[r] = new /\ \A q \in Requests : q # r => req'[q] = req[q]
      BY <1>1, <1>2, <1>4, <1>5, Others DEF Becomes, Accept
    <2>3. ~Marking(new, k) /\ ~Marking(req[r], k) /\ ~Issues(new, k)
      BY <1>2, <1>4 DEF Marking, Accepts, Issues, Accept, NoRequest
    <2>4. Markings(k)' = Markings(k)
      BY <2>2, <2>3 DEF Markings
    <2>5. UNCHANGED <<joins, aborts, invite>> /\ joins[k] \in Nat /\ aborts \in Nat
      BY <1>1, <1>2 DEF Accept, teamVars, HistoryOK
    <2>6. joins[k] <= Cardinality(Markings(k)) + aborts
      BY <1>1, <1>2 DEF UseHolds
    <2>7. joins'[k] + Cardinality(Pendings(k)') <= Cardinality(Requests) + aborts
      <3> HIDE DEF Pendings, Markings
      <3> QED
        BY <1>1, <2>4, <2>5, <2>6, UseCounts
    <2>8. \A q \in Requests : Issues(req'[q], k) => Issues(req[q], k)
      BY <2>2, <2>3
    <2>9. ~Unissued(k)'
      BY <1>1, <1>2, <2>8 DEF Unissued, UseHolds
    <2>10. /\ \A q \in Requests : Issues(req'[q], k) => k \in drawn'
           /\ \A p, q \in Requests : Issues(req'[p], k) /\ Issues(req'[q], k) => p = q
      BY <1>1, <1>2, <2>8 DEF UseHolds
    <2> HIDE DEF Pendings, Markings, Open, Unissued, Issues, Accepts
    <2> QED
      BY <2>1, <2>4, <2>5, <2>6, <2>7, <2>9, <2>10 DEF UseHolds
  <1> QED
    BY <1>2, <1>4, <1>5, <1>6, <1>7, AcceptMove

LEMMA ClearKeepsBounds ==
    ASSUME BoundsInv, NEW r \in Requests, NEW u \in Users,
           ClearAccount(r, u)
    PROVE  BoundsKept
  <1> DEFINE new == [On("clear", "list_pointers", Absent) EXCEPT !.user = u]
  <1>1. new \in ReqType /\ new.kind = "clear" /\ new.at = "list_pointers" /\ new.user \in Users
    <2>1. "clear" \in AnyKind /\ "list_pointers" \in Stages
      BY DEF AnyKind, Stages
    <2>2. /\ On("clear", "list_pointers", Absent) \in ReqType
          /\ On("clear", "list_pointers", Absent).kind = "clear"
          /\ On("clear", "list_pointers", Absent).at = "list_pointers"
          /\ On("clear", "list_pointers", Absent).team = Absent
      BY <2>1, OnIsType
    <2> QED
      BY <2>2 DEF ReqType
  <1> HIDE DEF new
  <1>2. Accept(r, "clear", new) /\ UNCHANGED drawn
    BY DEF ClearAccount, new
  <1>3. Fits("list_pointers", "clear") /\ "list_pointers" \notin JoinStages
    BY DEF Fits, JoinStages
  <1> QED
    BY <1>1, <1>2, <1>3, PlainStart DEF AnyKind

LEMMA TeamStartsKeepBounds ==
    ASSUME BoundsInv, NEW r \in Requests, NEW u \in Users, NEW t \in Teams,
           UpdateTeam(r, u, t) \/ DeleteTeam(r, u, t) \/ ViewAccount(r, u, t) \/ UpdateTeamLimits(r, u, t)
    PROVE  BoundsKept
  <1>1. CASE UpdateTeam(r, u, t)
    <2> DEFINE new == On("update", "team_get", t)
    <2>1. new \in ReqType /\ new.kind = "update" /\ new.at = "team_get"
      <3>1. "update" \in AnyKind /\ "team_get" \in Stages
        BY DEF AnyKind, Stages
      <3>2. /\ On("update", "team_get", t) \in ReqType
            /\ On("update", "team_get", t).kind = "update"
            /\ On("update", "team_get", t).at = "team_get"
            /\ On("update", "team_get", t).team = t
        BY <3>1, OnIsType
      <3> QED
        BY <3>2 DEF ReqType
    <2> HIDE DEF new
    <2>2. Accept(r, "update", new) /\ UNCHANGED drawn
      BY <1>1 DEF UpdateTeam, new
    <2>3. Fits("team_get", "update") /\ "team_get" \notin JoinStages
      BY DEF Fits, JoinStages
    <2> QED
      BY <2>1, <2>2, <2>3, PlainStart DEF AnyKind
  <1>2. CASE DeleteTeam(r, u, t)
    <2> DEFINE new == On("delete", "list_members", t)
    <2>1. new \in ReqType /\ new.kind = "delete" /\ new.at = "list_members" /\ new.team \in Teams
      <3>1. "delete" \in AnyKind /\ "list_members" \in Stages
        BY DEF AnyKind, Stages
      <3>2. /\ On("delete", "list_members", t) \in ReqType
            /\ On("delete", "list_members", t).kind = "delete"
            /\ On("delete", "list_members", t).at = "list_members"
            /\ On("delete", "list_members", t).team = t
        BY <3>1, OnIsType
      <3> QED
        BY <3>2 DEF ReqType
    <2> HIDE DEF new
    <2>2. Accept(r, "delete", new) /\ UNCHANGED drawn
      BY <1>2 DEF DeleteTeam, new
    <2>3. Fits("list_members", "delete") /\ "list_members" \notin JoinStages
      BY DEF Fits, JoinStages
    <2> QED
      BY <2>1, <2>2, <2>3, PlainStart DEF AnyKind
  <1>3. CASE ViewAccount(r, u, t)
    <2> DEFINE new == On("view", "read_account", t)
    <2>1. new \in ReqType /\ new.kind = "view" /\ new.at = "read_account"
      <3>1. "view" \in AnyKind /\ "read_account" \in Stages
        BY DEF AnyKind, Stages
      <3>2. /\ On("view", "read_account", t) \in ReqType
            /\ On("view", "read_account", t).kind = "view"
            /\ On("view", "read_account", t).at = "read_account"
            /\ On("view", "read_account", t).team = t
        BY <3>1, OnIsType
      <3> QED
        BY <3>2 DEF ReqType
    <2> HIDE DEF new
    <2>2. Accept(r, "view", new) /\ UNCHANGED drawn
      BY <1>3 DEF ViewAccount, new
    <2>3. Fits("read_account", "view") /\ "read_account" \notin JoinStages
      BY DEF Fits, JoinStages
    <2> QED
      BY <2>1, <2>2, <2>3, PlainStart DEF AnyKind
  <1>4. CASE UpdateTeamLimits(r, u, t)
    <2> DEFINE new == On("limits", "read_account", t)
    <2>1. new \in ReqType /\ new.kind = "limits" /\ new.at = "read_account"
      <3>1. "limits" \in AnyKind /\ "read_account" \in Stages
        BY DEF AnyKind, Stages
      <3>2. /\ On("limits", "read_account", t) \in ReqType
            /\ On("limits", "read_account", t).kind = "limits"
            /\ On("limits", "read_account", t).at = "read_account"
            /\ On("limits", "read_account", t).team = t
        BY <3>1, OnIsType
      <3> QED
        BY <3>2 DEF ReqType
    <2> HIDE DEF new
    <2>2. Accept(r, "limits", new) /\ UNCHANGED drawn
      BY <1>4 DEF UpdateTeamLimits, new
    <2>3. Fits("read_account", "limits") /\ "read_account" \notin JoinStages
      BY DEF Fits, JoinStages
    <2> QED
      BY <2>1, <2>2, <2>3, PlainStart DEF AnyKind
  <1> QED
    BY <1>1, <1>2, <1>3, <1>4

LEMMA RemoveKeepsBounds ==
    ASSUME BoundsInv, NEW r \in Requests, NEW u \in Users, NEW t \in Teams, NEW v \in Users,
           RemoveMember(r, u, t, v)
    PROVE  BoundsKept
  <1> DEFINE new == [On("remove", "target", t) EXCEPT !.user = v]
  <1>1. new \in ReqType /\ new.kind = "remove" /\ new.at = "target"
    <2>1. "remove" \in AnyKind /\ "target" \in Stages
      BY DEF AnyKind, Stages
    <2>2. /\ On("remove", "target", t) \in ReqType
          /\ On("remove", "target", t).kind = "remove"
          /\ On("remove", "target", t).at = "target"
          /\ On("remove", "target", t).team = t
      BY <2>1, OnIsType
    <2> QED
      BY <2>2 DEF ReqType
  <1> HIDE DEF new
  <1>2. Accept(r, "remove", new) /\ UNCHANGED drawn
    BY DEF RemoveMember, new
  <1>3. Fits("target", "remove") /\ "target" \notin JoinStages
    BY DEF Fits, JoinStages
  <1> QED
    BY <1>1, <1>2, <1>3, PlainStart DEF AnyKind

LEMMA ChangeKeepsBounds ==
    ASSUME BoundsInv, NEW r \in Requests, NEW u \in Users, NEW t \in Teams, NEW v \in Users,
           NEW role \in TeamRole,
           ChangeMemberRole(r, u, t, v, role)
    PROVE  BoundsKept
  <1> DEFINE new == [On("change", "target", t) EXCEPT !.user = v, !.role = role]
  <1>1. new \in ReqType /\ new.kind = "change" /\ new.at = "target" /\ new.team \in Teams
    <2>1. "change" \in AnyKind /\ "target" \in Stages
      BY DEF AnyKind, Stages
    <2>2. /\ On("change", "target", t) \in ReqType
          /\ On("change", "target", t).kind = "change"
          /\ On("change", "target", t).at = "target"
          /\ On("change", "target", t).team = t
      BY <2>1, OnIsType
    <2> QED
      BY <2>2 DEF ReqType
  <1> HIDE DEF new
  <1>2. Accept(r, "change", new) /\ UNCHANGED drawn
    BY DEF ChangeMemberRole, new
  <1>3. Fits("target", "change") /\ "target" \notin JoinStages
    BY DEF Fits, JoinStages
  <1> QED
    BY <1>1, <1>2, <1>3, PlainStart DEF AnyKind

LEMMA RevokeKeepsBounds ==
    ASSUME BoundsInv, NEW r \in Requests, NEW u \in Users, NEW t \in Teams, NEW k \in Tokens,
           RevokeInvite(r, u, t, k)
    PROVE  BoundsKept
  <1> DEFINE new == [On("revoke", "invite_get", t) EXCEPT !.token = k]
  <1>1. new \in ReqType /\ new.kind = "revoke" /\ new.at = "invite_get"
    <2>1. "revoke" \in AnyKind /\ "invite_get" \in Stages
      BY DEF AnyKind, Stages
    <2>2. /\ On("revoke", "invite_get", t) \in ReqType
          /\ On("revoke", "invite_get", t).kind = "revoke"
          /\ On("revoke", "invite_get", t).at = "invite_get"
          /\ On("revoke", "invite_get", t).team = t
      BY <2>1, OnIsType
    <2> QED
      BY <2>2 DEF ReqType
  <1> HIDE DEF new
  <1>2. Accept(r, "revoke", new) /\ UNCHANGED drawn
    BY DEF RevokeInvite, new
  <1>3. Fits("invite_get", "revoke") /\ "invite_get" \notin JoinStages
    BY DEF Fits, JoinStages
  <1> QED
    BY <1>1, <1>2, <1>3, PlainStart DEF AnyKind
-----------------------------------------------------------------------------
LEMMA StillKeepsBounds ==
    ASSUME BoundsInv, UNCHANGED <<team, pool, member, pointer, invite, index, req, counters>>,
           expired' \in [Tokens -> BOOLEAN]
    PROVE  BoundsKept
  <1>1. TeamInv'
    BY DEF BoundsInv, TeamInv, TeamTypeOK, StoredTypeOK, counters
  <1>2. CapStep
    BY DEF CapStep, InReach, TeamsOf, Joined, Joiners
  <1>3. UseInv'
    BY DEF BoundsInv, UseInv, UseHolds, Pendings, Markings, Open, Unissued, counters
  <1> QED
    BY <1>1, <1>2, <1>3 DEF BoundsInv, BoundsKept

LEMMA InitHasBounds == Init => BoundsInv
  <1> SUFFICES ASSUME Init PROVE BoundsInv
    OBVIOUS
  <1>1. TeamInv
    BY NoRequestIsType DEF Init, InitTeams, TeamInv, TeamTypeOK, StoredTypeOK, NoRequest
  <1>3. ASSUME NEW k \in Tokens
        PROVE  UseHolds(k)
    <2>1. \A r \in Requests : ~Accepts(req[r], k) /\ ~Issues(req[r], k)
      BY DEF Init, NoRequest, Accepts, Issues
    <2>2. Pendings(k) = {}
      BY <2>1 DEF Pendings, Pending
    <2>3. joins[k] = 0 /\ aborts = 0 /\ invite[k] = Absent
      BY DEF Init, InitTeams
    <2>4. Cardinality(Pendings(k)) = 0 /\ Cardinality(Requests) \in Nat
      BY <2>2, RequestsAreFinite, FS_EmptySet, FS_CardinalityType
    <2>5. joins[k] + Cardinality(Pendings(k)) <= Cardinality(Requests) + aborts
      BY <2>3, <2>4
    <2> HIDE DEF Pendings, Markings
    <2> QED
      BY <2>1, <2>3, <2>5 DEF UseHolds, Open
  <1> QED
    BY <1>1, <1>3 DEF BoundsInv, UseInv

LEMMA StartKeepsBounds ==
    ASSUME BoundsInv, NEW r \in Requests, RequestStart(r)
    PROVE  BoundsKept
  <1>1. PICK u \in Users :
           \/ ClearAccount(r, u)
           \/ \E t \in Teams :
                 \/ CreateTeam(r, u, t) \/ UpdateTeam(r, u, t)
                 \/ DeleteTeam(r, u, t) \/ ViewAccount(r, u, t) \/ UpdateTeamLimits(r, u, t)
                 \/ \E v \in Users :
                       \/ RemoveMember(r, u, t, v)
                       \/ \E role \in TeamRole : ChangeMemberRole(r, u, t, v, role)
                 \/ \E k \in Tokens :
                       \/ RevokeInvite(r, u, t, k)
                       \/ \E role \in InvitedRole : CreateInvite(r, u, t, k, role)
           \/ \E k \in Tokens : AcceptInvite(r, u, k)
    BY DEF RequestStart
  <1>2. CASE ClearAccount(r, u)
    BY <1>2, ClearKeepsBounds
  <1>3. CASE \E t \in Teams : CreateTeam(r, u, t)
    BY <1>3, CreateTeamKeepsBounds
  <1>4. CASE \E t \in Teams :
                \/ UpdateTeam(r, u, t) \/ DeleteTeam(r, u, t) \/ ViewAccount(r, u, t)
                \/ UpdateTeamLimits(r, u, t)
    BY <1>4, TeamStartsKeepBounds
  <1>5. CASE \E t \in Teams, v \in Users :
                \/ RemoveMember(r, u, t, v)
                \/ \E role \in TeamRole : ChangeMemberRole(r, u, t, v, role)
    BY <1>5, RemoveKeepsBounds, ChangeKeepsBounds
  <1>6. CASE \E t \in Teams, k \in Tokens : RevokeInvite(r, u, t, k)
    BY <1>6, RevokeKeepsBounds
  <1>7. CASE \E t \in Teams, k \in Tokens, role \in InvitedRole : CreateInvite(r, u, t, k, role)
    BY <1>7, CreateInviteKeepsBounds
  <1>8. CASE \E k \in Tokens : AcceptInvite(r, u, k)
    BY <1>8, AcceptInviteKeepsBounds
  <1> QED
    BY <1>1, <1>2, <1>3, <1>4, <1>5, <1>6, <1>7, <1>8

LEMMA NextKeepsBounds ==
    ASSUME BoundsInv, [Next]_vars
    PROVE  BoundsKept
  <1>1. CASE \E r \in Requests : RequestStart(r)
    BY <1>1, StartKeepsBounds
  <1>2. CASE \E r \in Requests : RequestStep(r)
    <2>1. PICK r \in Requests : RequestStep(r)
      BY <1>2
    <2>2. TeamInv
      BY DEF BoundsInv
    <2>3. CASE \/ CheckTarget(r) \/ CheckOwners(r) \/ CheckExisting(r)
               \/ CheckInvite(r) \/ CheckTeam(r)
      BY <2>2, <2>3, ChecksAreQuiet, QuietKeepsBounds
    <2>4. CASE SaveTeam(r) \/ ReadAccount(r) \/ SaveAccount(r) \/ SaveIndex(r)
      BY <2>2, <2>4, SavesAreQuiet, QuietKeepsBounds
    <2>5. CASE EraseMember(r) \/ ErasePointer(r) \/ EraseInvite(r) \/ EraseIndex(r)
      BY <2>2, <2>5, ErasuresAreQuiet, QuietKeepsBounds
    <2>6. CASE \/ ListMembers(r) \/ ListBlobs(r) \/ DeleteNext(r) \/ Sweep(r)
               \/ ListPointers(r) \/ ClearNext(r)
      BY <2>2, <2>6, DeletesAreQuiet, QuietKeepsBounds
    <2>7. CASE CheckCapacity(r) \/ SaveMember(r) \/ SavePointer(r) \/ SaveInvite(r)
      BY <2>7, CheckCapacityKeepsBounds, SaveMemberKeepsBounds, SavePointerKeepsBounds,
         SaveInviteKeepsBounds
    <2> QED
      BY <2>1, <2>3, <2>4, <2>5, <2>6, <2>7 DEF RequestStep
  <1>3. CASE \E r \in Requests : Abort(r)
    BY <1>3, AbortKeepsBounds
  <1>4. CASE \E k \in Tokens : Expire(k) /\ UNCHANGED <<req, counters>>
    <2>1. PICK k \in Tokens : Expire(k) /\ UNCHANGED <<req, counters>>
      BY <1>4
    <2>2. expired' \in [Tokens -> BOOLEAN]
      BY <2>1 DEF Expire, BoundsInv, TeamInv, TeamTypeOK, StoredTypeOK
    <2> QED
      BY <2>1, <2>2, StillKeepsBounds DEF Expire
  <1>5. CASE UNCHANGED vars
    <2>1. expired' \in [Tokens -> BOOLEAN]
      BY <1>5 DEF vars, teamVars, BoundsInv, TeamInv, TeamTypeOK, StoredTypeOK
    <2> QED
      BY <1>5, <2>1, StillKeepsBounds DEF vars, teamVars
  <1> QED
    BY <1>1, <1>2, <1>3, <1>4, <1>5 DEF Next, Step, AtRest

LEMMA BoundsHold == Spec => []BoundsInv
  <1>1. Init => BoundsInv
    BY InitHasBounds
  <1>2. BoundsInv /\ [Next]_vars => BoundsInv'
    BY NextKeepsBounds DEF BoundsKept
  <1> QED
    BY <1>1, <1>2, PTL DEF Spec

(***************************************************************************)
(* Every membership, pointer, invite and index stays well-formed, whatever *)
(* requests of routers/teams.py interleave, and wherever they are cut off. *)
(***************************************************************************)
THEOREM TeamTypesHold == Spec => []TeamTypeOK
  <1>1. BoundsInv => TeamTypeOK
    BY DEF BoundsInv, TeamInv
  <1> QED
    BY <1>1, BoundsHold, PTL

(***************************************************************************)
(* However an invite is accepted, revoked or deleted with its team, and by *)
(* however many requests, it admits no more of them than can be in flight  *)
(* at once, and one more for each that died before marking it used         *)
(* (accept_invite, TeamInviteRepository.save).                             *)
(***************************************************************************)
THEOREM InviteUseBounded == Spec => []InvitesAreUsedUp
  <1>1. ASSUME BoundsInv, NEW k \in Tokens
        PROVE  joins[k] <= Cardinality(Requests) + aborts
    <2>1. /\ joins[k] + Cardinality(Pendings(k)) <= Cardinality(Requests) + aborts
          /\ TeamInv
      BY <1>1 DEF BoundsInv, UseInv, UseHolds
    <2>2. joins[k] \in Nat /\ aborts \in Nat
      BY <2>1, TypeFacts DEF HistoryOK
    <2>3. Cardinality(Pendings(k)) \in Nat /\ Cardinality(Requests) \in Nat
      BY <2>1, UseCounts
    <2> HIDE DEF Pendings
    <2> QED
      BY <2>1, <2>2, <2>3
  <1>2. BoundsInv => InvitesAreUsedUp
    BY <1>1 DEF InvitesAreUsedUp
  <1> QED
    BY <1>2, BoundsHold, PTL
-----------------------------------------------------------------------------
(***************************************************************************)
(* The membership cap.  A membership has its copy, or a request that is    *)
(* about to write it, or has lost it; of the teams in a user's reach, those *)
(* with no lost copy are fewer than the cap and the requests that can be   *)
(* in flight.                                                              *)
(***************************************************************************)
Copied(u) == {t \in Teams : \E r \in Requests : Copying(r, u, t)}

Covered(u) == BelongsTo(u) \subseteq TeamsOf(u) \cup Copied(u) \cup TeamsLost(u)

CapHolds(u) ==
    /\ IsFiniteSet(InReach(u)) /\ IsFiniteSet(TeamsLost(u))
    /\ Cardinality(InReach(u) \ TeamsLost(u)) < MembershipLimit + Cardinality(Requests)

CapInv == \A u \in Users \ Admins : Covered(u) /\ CapHolds(u)

\* what a step does to the memberships that have lost their copy
LostStep ==
    \A u \in Users, t \in Teams : <<u, t>> \in lost' <=> <<u, t>> \in lost \/ Loses(u, t)

\* a membership that a step begins, a request is about to copy
MembersStep ==
    \A u \in Users : BelongsTo(u)' \subseteq BelongsTo(u) \cup Copied(u)'

LEMMA CopiedAreJoined ==
    ASSUME TeamInv, NEW u \in Users
    PROVE  Copied(u) \subseteq Joined(u)
  <1>1. ASSUME NEW t \in Teams, NEW r \in Requests, Copying(r, u, t)
        PROVE  r \in Joiners(u) /\ req[r].team = t
    BY <1>1, RequestFacts DEF Copying, At, Joiners, Joins, JoinStages, Shaped, Fits
  <1> QED
    BY <1>1 DEF Copied, Joined

LEMMA NextLoses ==
    ASSUME [Next]_vars
    PROVE  LostStep
  <1>1. CASE Next
    BY <1>1 DEF Next, LostStep
  <1>2. CASE UNCHANGED vars
    <2>1. UNCHANGED <<lost, pointer, req>>
      BY <1>2 DEF vars, teamVars
    <2>2. \A u \in Users, t \in Teams : ~Loses(u, t)
      BY <2>1 DEF Loses, Copying, At
    <2> QED
      BY <2>1, <2>2 DEF LostStep
  <1> QED
    BY <1>1, <1>2

\* SaveMember alone writes a membership
LEMMA NextBeginsMemberships ==
    ASSUME BoundsInv, [Next]_vars
    PROVE  MembersStep
  <1>1. TeamInv /\ StoredTypeOK /\ req \in [Requests -> ReqType]
    BY TypeFacts DEF BoundsInv, TeamInv
  <1>2. CASE member' = member
    BY <1>2 DEF MembersStep, BelongsTo
  <1>3. ASSUME NEW r \in Requests, SaveMember(r)
        PROVE  MembersStep
    <2>1. /\ member' = [member EXCEPT ![req[r].team][req[r].user] = req[r].role]
          /\ req'[r].at = "save_pointer" /\ req'[r].user = req[r].user
          /\ req'[r].team = req[r].team
      BY <1>1, <1>3 DEF SaveMember, Go, ReqType
    <2>2. ASSUME NEW u \in Users, NEW t \in Teams, member'[t][u] # member[t][u]
          PROVE  req[r].user = u /\ req[r].team = t
      BY <1>1, <2>1, <2>2 DEF StoredTypeOK
    <2>3. ASSUME NEW u \in Users, NEW t \in Teams, member'[t][u] # member[t][u]
          PROVE  t \in Copied(u)'
      BY <2>1, <2>2, <2>3 DEF Copied, Copying, At
    <2> QED
      BY <2>3 DEF MembersStep, BelongsTo
  <1>4. ASSUME NEW t, NEW u, member' = [member EXCEPT ![t][u] = Absent]
        PROVE  MembersStep
    BY <1>1, <1>4 DEF MembersStep, BelongsTo, StoredTypeOK
  <1>5. ASSUME NEW r \in Requests, RequestStart(r) \/ Abort(r)
        PROVE  MembersStep
    <2>1. ASSUME NEW kind, NEW start, Accept(r, kind, start)
          PROVE  member' = member
      BY <2>1 DEF Accept, teamVars
    <2>2. ASSUME RequestStart(r)
          PROVE  \E kind, start : Accept(r, kind, start)
      BY <2>2, Zenon
         DEF RequestStart, ClearAccount, CreateTeam, UpdateTeam, DeleteTeam, ViewAccount,
             UpdateTeamLimits, RemoveMember, ChangeMemberRole, RevokeInvite, CreateInvite,
             AcceptInvite
    <2>3. Abort(r) => member' = member
      BY DEF Abort, teamVars
    <2> QED
      BY <1>2, <1>5, <2>1, <2>2, <2>3
  <1>6. ASSUME NEW r \in Requests, RequestStep(r)
        PROVE  MembersStep
    <2>1. CASE \/ CheckTarget(r) \/ CheckOwners(r) \/ CheckExisting(r) \/ CheckCapacity(r)
               \/ CheckInvite(r) \/ CheckTeam(r) \/ ReadAccount(r) \/ ListMembers(r)
               \/ ListBlobs(r) \/ ListPointers(r)
      BY <1>2, <2>1 DEF CheckTarget, CheckOwners, CheckExisting, CheckCapacity, CheckInvite,
                        CheckTeam, ReadAccount, ListMembers, ListBlobs, ListPointers, teamVars
    <2>2. CASE \/ SaveTeam(r) \/ SavePointer(r) \/ SaveAccount(r) \/ SaveInvite(r)
               \/ SaveIndex(r) \/ ErasePointer(r) \/ EraseInvite(r) \/ EraseIndex(r)
               \/ Sweep(r) \/ ClearNext(r)
      BY <1>2, <2>2 DEF SaveTeam, SavePointer, SaveAccount, SaveInvite, SaveIndex, ErasePointer,
                        EraseInvite, EraseIndex, Sweep, ClearNext
    <2>3. CASE EraseMember(r)
      BY <1>4, <2>3 DEF EraseMember
    <2>4. CASE DeleteNext(r)
      <3>1. \/ member' = member
            \/ \E u : member' = [member EXCEPT ![req[r].team][u] = Absent]
        BY <2>4 DEF DeleteNext, DeleteBlob
      <3> QED
        BY <1>2, <1>4, <3>1
    <2> QED
      BY <1>3, <1>6, <2>1, <2>2, <2>3, <2>4 DEF RequestStep
  <1> QED
    BY <1>2, <1>5, <1>6 DEF Next, Step, AtRest, Expire, vars, teamVars

LEMMA CoverStays ==
    ASSUME NEW u \in Users, Covered(u), LostStep, MembersStep
    PROVE  Covered(u)'
  <1>1. ASSUME NEW t \in Teams, member'[t][u] # Absent
        PROVE  t \in TeamsOf(u)' \/ t \in Copied(u)' \/ t \in TeamsLost(u)'
    <2>1. CASE t \in Copied(u)'
      BY <2>1
    <2>2. CASE t \in BelongsTo(u)
      <3>1. pointer[u][t] # Absent \/ (\E r \in Requests : Copying(r, u, t)) \/ <<u, t>> \in lost
        BY <2>2 DEF Covered, TeamsOf, Copied, TeamsLost
      <3>2. Loses(u, t) \/ pointer'[u][t] # Absent \/ (\E r \in Requests : Copying(r, u, t)')
            \/ <<u, t>> \in lost
        BY <1>1, <3>1 DEF Loses
      <3> QED
        BY <3>2 DEF LostStep, TeamsOf, Copied, TeamsLost
    <2> QED
      BY <1>1, <2>1, <2>2 DEF MembersStep, BelongsTo
  <1> QED
    BY <1>1 DEF Covered, BelongsTo

\* one request, one team that it is about to add
LEMMA JoinedAreFew ==
    ASSUME NEW u
    PROVE  /\ IsFiniteSet(Joined(u)') /\ Cardinality(Joined(u)') <= Cardinality(Requests)
           /\ Cardinality(Joined(u)') \in Nat /\ Cardinality(Requests) \in Nat
  <1> DEFINE J == Joiners(u)'
             f == [r \in J |-> req'[r].team]
  <1>1. IsFiniteSet(J) /\ Cardinality(J) <= Cardinality(Requests)
    <2>1. J \in SUBSET Requests
      BY DEF Joiners
    <2> HIDE DEF J
    <2> QED
      BY <2>1, RequestsAreFinite, FS_Subset
  <1>2. f \in Surjection(J, Joined(u)')
    BY DEF Surjection, Joined
  <1>3. IsFiniteSet(Joined(u)') /\ Cardinality(Joined(u)') <= Cardinality(J)
    <2> HIDE DEF f, J
    <2> QED
      BY <1>1, <1>2, FS_Surjection
  <1>4. Cardinality(Joined(u)') \in Nat /\ Cardinality(Requests) \in Nat /\ Cardinality(J) \in Nat
    BY <1>1, <1>3, RequestsAreFinite, FS_CardinalityType
  <1> HIDE DEF J, Joined
  <1> QED
    BY <1>1, <1>3, <1>4

LEMMA CapStays ==
    ASSUME TeamInv, NEW u \in Users \ Admins, Covered(u), CapHolds(u), LostStep, CapStep
    PROVE  CapHolds(u)'
  <1>1. TeamsLost(u) \subseteq TeamsLost(u)'
    BY DEF LostStep, TeamsLost
  <1>2. TeamsLost(u)' \subseteq TeamsLost(u) \cup InReach(u)
    <2>1. \A t \in Teams : Loses(u, t) => t \in TeamsOf(u) \cup Copied(u)
      BY DEF Loses, TeamsOf, Copied
    <2> QED
      BY <2>1, CopiedAreJoined DEF LostStep, TeamsLost, InReach
  <1>3. IsFiniteSet(TeamsLost(u)')
    BY <1>2, FS_Union, FS_Subset DEF CapHolds
  <1>4. MembershipLimit \in Nat /\ Cardinality(Requests) \in Nat
    BY RequestsAreFinite, MembershipLimitAssumption, FS_CardinalityType
  <1>5. CASE InReach(u)' \subseteq InReach(u) \cup BelongsTo(u)
    <2>1. BelongsTo(u) \subseteq InReach(u) \cup TeamsLost(u)
      BY CopiedAreJoined DEF Covered, InReach
    <2>2. InReach(u)' \subseteq InReach(u) \cup TeamsLost(u)
      BY <1>5, <2>1
    <2>3. IsFiniteSet(InReach(u)')
      BY <2>2, FS_Union, FS_Subset DEF CapHolds
    <2>4. InReach(u)' \ TeamsLost(u)' \subseteq InReach(u) \ TeamsLost(u)
      BY <1>1, <2>2
    <2>5. IsFiniteSet(InReach(u) \ TeamsLost(u))
      BY FS_Subset DEF CapHolds
    <2>6. /\ Cardinality(InReach(u)' \ TeamsLost(u)') <= Cardinality(InReach(u) \ TeamsLost(u))
          /\ Cardinality(InReach(u)' \ TeamsLost(u)') \in Nat
          /\ Cardinality(InReach(u) \ TeamsLost(u)) \in Nat
      <3> HIDE DEF InReach, TeamsLost
      <3> QED
        BY <2>4, <2>5, FS_Subset, FS_CardinalityType
    <2> HIDE DEF InReach, TeamsLost
    <2> QED
      BY <1>3, <1>4, <2>3, <2>6 DEF CapHolds
  <1>6. CASE Admitted(u)
    <2>1. TeamsOf(u)' = TeamsOf(u) /\ IsFiniteSet(TeamsOf(u))
          /\ Cardinality(TeamsOf(u)) < MembershipLimit
      BY <1>6, FS_Subset DEF CapHolds, InReach, TeamsOf, Admitted
    <2>2. /\ IsFiniteSet(TeamsOf(u) \cup Joined(u)')
          /\ Cardinality(TeamsOf(u) \cup Joined(u)') =
                Cardinality(TeamsOf(u)) + Cardinality(Joined(u)')
                   - Cardinality(TeamsOf(u) \cap Joined(u)')
          /\ IsFiniteSet(TeamsOf(u) \cap Joined(u)')
      BY <2>1, JoinedAreFew, FS_Union, FS_Intersection
    <2>3. /\ Cardinality(TeamsOf(u)) \in Nat
          /\ Cardinality(TeamsOf(u) \cap Joined(u)') \in Nat
      BY <2>1, <2>2, FS_CardinalityType
    <2>4. InReach(u)' = TeamsOf(u) \cup Joined(u)'
      BY <2>1 DEF InReach
    <2>5. /\ Cardinality(InReach(u)' \ TeamsLost(u)') <= Cardinality(InReach(u)')
          /\ Cardinality(InReach(u)' \ TeamsLost(u)') \in Nat
          /\ IsFiniteSet(InReach(u)')
      <3> HIDE DEF InReach, TeamsLost
      <3> QED
        BY <2>2, <2>4, FS_Subset, FS_CardinalityType
    <2>6. Cardinality(InReach(u)') < MembershipLimit + Cardinality(Requests)
      <3> HIDE DEF TeamsOf, Joined
      <3> QED
        BY <1>4, <2>1, <2>2, <2>3, <2>4, JoinedAreFew
    <2>7. Cardinality(InReach(u)') \in Nat
      BY <2>5, FS_CardinalityType
    <2> HIDE DEF InReach, TeamsLost
    <2> QED
      BY <1>3, <1>4, <2>5, <2>6, <2>7 DEF CapHolds
  <1> QED
    BY <1>5, <1>6 DEF CapStep

LEMMA InitHasRoom == Init => CapInv
  <1> SUFFICES ASSUME Init, NEW u \in Users \ Admins PROVE Covered(u) /\ CapHolds(u)
    BY DEF CapInv
  <1>1. InReach(u) = {} /\ TeamsLost(u) = {} /\ BelongsTo(u) = {}
    BY DEF Init, InitTeams, InReach, TeamsOf, Joined, Joiners, Joins, JoinStages, NoRequest,
           TeamsLost, BelongsTo
  <1>2. Cardinality(Requests) \in Nat /\ Cardinality(Requests) # 0
    BY RequestsAreFinite, FS_CardinalityType, FS_EmptySet
  <1>3. InReach(u) \ TeamsLost(u) = {}
    BY <1>1
  <1> QED
    BY <1>1, <1>2, <1>3, FS_EmptySet, MembershipLimitAssumption DEF CapHolds, Covered

LEMMA RoomIsKept ==
    ASSUME BoundsInv, CapInv, [Next]_vars
    PROVE  CapInv'
  <1>1. TeamInv /\ LostStep /\ MembersStep /\ CapStep
    BY NextLoses, NextBeginsMemberships, NextKeepsBounds DEF BoundsInv, BoundsKept
  <1>2. ASSUME NEW u \in Users \ Admins
        PROVE  Covered(u)' /\ CapHolds(u)'
    <2>1. Covered(u) /\ CapHolds(u)
      BY DEF CapInv
    <2> QED
      BY <1>1, <2>1, CoverStays, CapStays
  <1> QED
    BY <1>2 DEF CapInv

LEMMA RoomHolds == Spec => [](BoundsInv /\ CapInv)
  <1>1. Init => CapInv
    BY InitHasRoom
  <1>2. BoundsInv /\ CapInv /\ [Next]_vars => CapInv'
    BY RoomIsKept
  <1> QED
    BY <1>1, <1>2, BoundsHold, PTL DEF Spec

(***************************************************************************)
(* Requests in flight together -- creations and acceptances that all found *)
(* room (create_team, accept_invite), role changes that save a membership  *)
(* removed meanwhile (change_member_role) -- make no user a member of more *)
(* teams than the cap by more than one each, but for one more per team     *)
(* whose copy the standing membership has lost, which the cap no longer    *)
(* counts.  It holds for every kind of request, clears of the account      *)
(* among them, and however many die between two writes.                    *)
(***************************************************************************)
THEOREM CapOverrunBounded == Spec => []CapOverrunIsBounded
  <1>1. ASSUME BoundsInv, CapInv, NEW u \in Users \ Admins
        PROVE  Cardinality(BelongsTo(u))
                  < MembershipLimit + Cardinality(Requests) + Cardinality(TeamsLost(u))
    <2>1. Covered(u) /\ CapHolds(u) /\ TeamInv
      BY <1>1 DEF BoundsInv, CapInv
    <2> DEFINE R == InReach(u) \ TeamsLost(u)
               L == TeamsLost(u)
    <2>2. BelongsTo(u) \subseteq R \cup L
      BY <2>1, CopiedAreJoined DEF Covered, InReach
    <2>3. IsFiniteSet(R) /\ IsFiniteSet(L)
          /\ Cardinality(R) < MembershipLimit + Cardinality(Requests)
      BY <2>1, FS_Subset DEF CapHolds
    <2> HIDE DEF R, L
    <2>4. /\ IsFiniteSet(R \cup L) /\ IsFiniteSet(R \cap L)
          /\ Cardinality(R \cup L) = Cardinality(R) + Cardinality(L) - Cardinality(R \cap L)
      BY <2>3, FS_Union, FS_Intersection
    <2>5. IsFiniteSet(BelongsTo(u)) /\ Cardinality(BelongsTo(u)) <= Cardinality(R \cup L)
      BY <2>2, <2>4, FS_Subset
    <2>6. /\ Cardinality(BelongsTo(u)) \in Nat /\ Cardinality(R) \in Nat
          /\ Cardinality(L) \in Nat /\ Cardinality(R \cap L) \in Nat
          /\ Cardinality(R \cup L) \in Nat
          /\ Cardinality(Requests) \in Nat /\ MembershipLimit \in Nat
      BY <2>3, <2>4, <2>5, RequestsAreFinite, MembershipLimitAssumption, FS_CardinalityType
    <2>7. Cardinality(BelongsTo(u))
             < MembershipLimit + Cardinality(Requests) + Cardinality(L)
      BY <2>3, <2>4, <2>5, <2>6
    <2> QED
      BY <2>7 DEF L
  <1>2. BoundsInv /\ CapInv => CapOverrunIsBounded
    BY <1>1 DEF CapOverrunIsBounded, BelongsTo
  <1> QED
    BY <1>2, RoomHolds, PTL

-----------------------------------------------------------------------------
(***************************************************************************)
(* One request at a time, and none that dies: the two blobs of every       *)
(* membership agree again when it is answered.                             *)
(***************************************************************************)
OneByOne == (\A r, q \in Requests : r = q) /\ MaxAborts = 0

\* the stages of a request that its team has to exist for
OnTeam ==
    {"target", "owners", "existing", "capacity", "save_member", "save_pointer",
     "erase_member", "erase_pointer", "save_invite"}

\* how request q may have left its team, or one membership of it
Forming(q, t) == q.kind = "create" /\ q.at = "save_member" /\ q.team = t

Deleting(q, t) == q.at \in {"delete_next", "sweep"} /\ q.team = t

Halfway(q, t, u) == q.at \in {"save_pointer", "erase_pointer"} /\ q.team = t /\ q.user = u

Unswept(q, t, u) == Deleting(q, t) /\ u \in q.members

\* what request q can rely on
Serves(q) ==
    /\ q.kind \in {"create", "change", "remove"} => q.team \in Teams /\ q.user \in Users
    /\ q.kind = "create" => q.role = "owner"
    /\ q.kind = "change" => q.role \in TeamRole
    /\ q.kind = "remove" => q.role = Absent
    /\ q.at \in OnTeam \/ (q.at = "save_team" /\ q.kind = "update") => team[q.team]
    /\ q.at = "erase_member" => q.kind = "remove"
    /\ q.at = "erase_member" \/ (q.at = "save_member" /\ q.kind = "change") =>
          q.role = "owner" \/ Owners(q.team) \ {q.user} # {}
    /\ q.at = "capacity" \/ (q.at = "save_member" /\ q.kind = "accept") =>
          member[q.team][q.user] = Absent
    /\ q.at = "save_pointer" => member[q.team][q.user] = q.role
    /\ q.at = "erase_pointer" => q.kind = "remove" /\ member[q.team][q.user] = Absent
    /\ q.at = "list_blobs" => q.members = Members(q.team)
    /\ q.at = "delete_next" => q.blobs = BlobsOf(q.team) /\ Members(q.team) \subseteq q.members
    /\ q.at = "sweep" => ~team[q.team]
    /\ q.at = "clear_next" => q.user \in cleared /\ q.pointers \subseteq TeamsOf(q.user)

Owned(q, t) == team[t] => Owners(t) # {} \/ Forming(q, t) \/ Deleting(q, t)

Gone(t) ==
    ~team[t] =>
        /\ Members(t) = {}
        /\ \A k \in Tokens : invite[k] # Absent => invite[k].team_id # t

Mirrors(q, t, u) ==
    \/ pointer[u][t] = member[t][u]
    \/ u \in cleared /\ pointer[u][t] = Absent
    \/ Halfway(q, t, u)
    \/ Unswept(q, t, u)

\* the teams are whole, but for what request q has left half done
Whole(q) ==
    /\ Serves(q)
    /\ \A t \in Teams :
          /\ Owned(q, t)
          /\ Gone(t)
          /\ \A u \in Users : Mirrors(q, t, u)

SerialInv == BoundsInv /\ \A r \in Requests : Whole(req[r])

\* nothing is half done
Between(q) ==
    /\ q.at \notin {"save_pointer", "erase_pointer", "delete_next", "sweep"}
    /\ ~(q.kind = "create" /\ q.at = "save_member")

LEMMA SerialFacts ==
    ASSUME SerialInv, NEW r \in Requests
    PROVE  /\ TeamInv /\ StoredTypeOK /\ aborts \in Nat
           /\ req \in [Requests -> ReqType] /\ req[r] \in ReqType /\ Shaped(req[r])
           /\ Whole(req[r]) /\ Serves(req[r])
  BY RequestFacts, TypeFacts DEF SerialInv, BoundsInv, TeamInv, HistoryOK, Whole

LEMMA SerialStep ==
    ASSUME OneByOne, BoundsInv', NEW r \in Requests, Whole(req[r])'
    PROVE  SerialInv'
  <1>1. \A q \in Requests : Whole(req[q])'
    BY DEF OneByOne
  <1> QED
    BY <1>1 DEF SerialInv

LEMMA NoRequestServes == Serves(NoRequest) /\ Between(NoRequest)
  <1>1. NoRequest.at = "idle" /\ NoRequest.kind = "none"
    BY DEF NoRequest
  <1> HIDE DEF NoRequest
  <1> QED
    BY <1>1 DEF Serves, Between, OnTeam

\* a step between two writes, or one that writes what the teams do not need
LEMMA WholeQuiet ==
    ASSUME OneByOne, SerialInv, BoundsInv', NEW r \in Requests,
           UNCHANGED <<team, member, pointer, invite, cleared>>,
           Between(req[r]), Serves(req[r])'
    PROVE  SerialInv'
  <1>1. \A t \in Teams :
          /\ team[t] => Owners(t) # {}
          /\ Gone(t)
          /\ \A u \in Users : \/ pointer[u][t] = member[t][u]
                              \/ u \in cleared /\ pointer[u][t] = Absent
    BY SerialFacts
    DEF Whole, Owned, Mirrors, Between, Forming, Deleting, Halfway, Unswept
  <1>2. Whole(req[r])'
    BY <1>1 DEF Whole, Owned, Owners, Gone, Members, Mirrors
  <1> QED
    BY <1>2, SerialStep

LEMMA WholeEnd ==
    ASSUME OneByOne, SerialInv, BoundsInv', NEW r \in Requests,
           UNCHANGED <<team, member, pointer, invite, cleared>>,
           Between(req[r]), Finish(r)
    PROVE  SerialInv'
  <1>1. req'[r] = NoRequest
    BY SerialFacts DEF Finish
  <1>2. NoRequest.at = "idle" /\ NoRequest.kind = "none"
    BY DEF NoRequest
  <1> HIDE DEF NoRequest
  <1>3. Serves(req[r])'
    BY <1>1, <1>2 DEF Serves, OnTeam
  <1> QED
    BY <1>3, WholeQuiet

\* what a request remembers when it goes on to another stage
LEMMA GoFacts ==
    ASSUME SerialInv, NEW r \in Requests, NEW stage, Go(r, stage)
    PROVE  /\ req'[r].at = stage /\ req'[r].kind = req[r].kind
           /\ req'[r].team = req[r].team /\ req'[r].user = req[r].user
           /\ req'[r].role = req[r].role /\ req'[r].token = req[r].token
           /\ req'[r].members = req[r].members
  BY SerialFacts DEF Go, ReqType

\* a check that lets the request go on
LEMMA WholeGo ==
    ASSUME OneByOne, SerialInv, BoundsInv', NEW r \in Requests, UNCHANGED <<teamVars, counters>>,
           NEW stage, Go(r, stage), Between(req[r]),
           stage \in {"owners", "capacity", "save_member", "erase_member", "erase_invite",
                      "save_team", "save_account"},
           stage \in OnTeam \/ (stage = "save_team" /\ req[r].kind = "update") =>
               team[req[r].team],
           stage = "erase_member" => req[r].kind = "remove",
           stage = "erase_member" \/ (stage = "save_member" /\ req[r].kind = "change") =>
               req[r].role = "owner" \/ Owners(req[r].team) \ {req[r].user} # {},
           stage = "capacity" \/ (stage = "save_member" /\ req[r].kind = "accept") =>
               member[req[r].team][req[r].user] = Absent
    PROVE  SerialInv'
  <1>1. UNCHANGED <<team, member, pointer, invite, cleared>>
    BY DEF teamVars, counters
  <1>2. Serves(req[r])'
    BY <1>1, SerialFacts, GoFacts DEF Serves, Owners
  <1> QED
    BY <1>1, <1>2, WholeQuiet

-----------------------------------------------------------------------------
(***************************************************************************)
(* A request begins between two others, at a team that is whole.           *)
(***************************************************************************)
LEMMA MembersHaveATeam ==
    ASSUME SerialInv, NEW r \in Requests, NEW t \in Teams, NEW u \in Users,
           member[t][u] # Absent
    PROVE  team[t]
  BY SerialFacts DEF Whole, Gone, Members

LEMMA OwnersAreMembers ==
    ASSUME SerialInv, NEW r \in Requests, NEW t \in Teams, NEW u \in Users, IsOwner(t, u)
    PROVE  team[t]
  BY MembersHaveATeam, TeamAbsentAssumption DEF IsOwner

LEMMA StartFacts ==
    ASSUME SerialInv, NEW r \in Requests, NEW kind, NEW start, Accept(r, kind, start)
    PROVE  /\ req'[r] = start /\ req[r] = NoRequest
           /\ UNCHANGED <<team, member, pointer, invite, cleared>>
  BY SerialFacts DEF Accept, teamVars

LEMMA StartIsWhole ==
    ASSUME OneByOne, SerialInv, BoundsInv', NEW r \in Requests, req[r] = NoRequest,
           UNCHANGED <<team, member, pointer, invite, cleared>>, Serves(req[r])'
    PROVE  SerialInv'
  BY NoRequestServes, WholeQuiet

LEMMA ManagementStartsAreWhole ==
    ASSUME OneByOne, SerialInv, BoundsInv', NEW r \in Requests,
           NEW u \in Users, NEW t \in Teams, NEW v \in Users,
           \/ CreateTeam(r, u, t) \/ UpdateTeam(r, u, t) \/ RemoveMember(r, u, t, v)
           \/ \E role \in TeamRole : ChangeMemberRole(r, u, t, v, role)
    PROVE  SerialInv'
  <1>1. /\ req[r] = NoRequest
        /\ UNCHANGED <<team, member, pointer, invite, cleared>>
    BY StartFacts DEF CreateTeam, UpdateTeam, RemoveMember, ChangeMemberRole
  <1>2. CASE CreateTeam(r, u, t)
    <2>a. req'[r] = [On("create", "save_team", t) EXCEPT !.user = u, !.role = "owner"]
      BY <1>2, StartFacts DEF CreateTeam
    <2>1. /\ req'[r].at = "save_team" /\ req'[r].kind = "create" /\ req'[r].team = t
          /\ req'[r].user = u /\ req'[r].role = "owner"
      BY <2>a DEF On, NoRequest
    <2>2. Serves(req[r])'
      BY <2>1 DEF Serves, OnTeam
    <2> QED
      BY <1>1, <2>2, StartIsWhole
  <1>3. CASE UpdateTeam(r, u, t)
    <2>a. req'[r] = On("update", "team_get", t)
      BY <1>3, StartFacts DEF UpdateTeam
    <2>1. req'[r].at = "team_get" /\ req'[r].kind = "update"
      BY <2>a DEF On, NoRequest
    <2>2. Serves(req[r])'
      BY <2>1 DEF Serves, OnTeam
    <2> QED
      BY <1>1, <2>2, StartIsWhole
  <1>4. CASE RemoveMember(r, u, t, v)
    <2>a. req'[r] = [On("remove", "target", t) EXCEPT !.user = v]
      BY <1>4, StartFacts DEF RemoveMember
    <2>1. /\ req'[r].at = "target" /\ req'[r].kind = "remove" /\ req'[r].team = t
          /\ req'[r].user = v /\ req'[r].role = Absent
      BY <2>a DEF On, NoRequest
    <2>2. team[t]
      BY <1>4, MembersHaveATeam, OwnersAreMembers DEF RemoveMember
    <2>3. Serves(req[r])'
      BY <1>1, <2>1, <2>2 DEF Serves, OnTeam
    <2> QED
      BY <1>1, <2>3, StartIsWhole
  <1>5. CASE \E role \in TeamRole : ChangeMemberRole(r, u, t, v, role)
    <2>1. PICK role \in TeamRole : ChangeMemberRole(r, u, t, v, role)
      BY <1>5
    <2>a. req'[r] = [On("change", "target", t) EXCEPT !.user = v, !.role = role]
      BY <2>1, StartFacts DEF ChangeMemberRole
    <2>2. /\ req'[r].at = "target" /\ req'[r].kind = "change" /\ req'[r].team = t
          /\ req'[r].user = v /\ req'[r].role = role
      BY <2>a DEF On, NoRequest
    <2>3. team[t]
      BY <2>1, OwnersAreMembers DEF ChangeMemberRole
    <2>4. Serves(req[r])'
      BY <1>1, <2>2, <2>3 DEF Serves, OnTeam
    <2> QED
      BY <1>1, <2>4, StartIsWhole
  <1> QED
    BY <1>2, <1>3, <1>4, <1>5

LEMMA InviteStartsAreWhole ==
    ASSUME OneByOne, SerialInv, BoundsInv', NEW r \in Requests,
           NEW u \in Users, NEW t \in Teams, NEW k \in Tokens,
           \/ RevokeInvite(r, u, t, k) \/ AcceptInvite(r, u, k)
           \/ \E role \in InvitedRole : CreateInvite(r, u, t, k, role)
    PROVE  SerialInv'
  <1>1. /\ req[r] = NoRequest
        /\ UNCHANGED <<team, member, pointer, invite, cleared>>
    BY StartFacts DEF RevokeInvite, AcceptInvite, CreateInvite
  <1>2. CASE RevokeInvite(r, u, t, k)
    <2>a. req'[r] = [On("revoke", "invite_get", t) EXCEPT !.token = k]
      BY <1>2, StartFacts DEF RevokeInvite
    <2>1. req'[r].at = "invite_get" /\ req'[r].kind = "revoke"
      BY <2>a DEF On, NoRequest
    <2>2. Serves(req[r])'
      BY <2>1 DEF Serves, OnTeam
    <2> QED
      BY <1>1, <2>2, StartIsWhole
  <1>3. CASE AcceptInvite(r, u, k)
    <2>a. req'[r] = [On("accept", "existing", ByToken(k).team_id) EXCEPT
                        !.user = u, !.token = k, !.role = ByToken(k).role]
      BY <1>3, StartFacts DEF AcceptInvite
    <2>1. /\ req'[r].at = "existing" /\ req'[r].kind = "accept"
          /\ req'[r].team = ByToken(k).team_id
      BY <2>a DEF On, NoRequest
    <2>2. /\ ByToken(k) # Absent /\ invite[k] # Absent /\ invite[k] \in TeamInvite
          /\ ByToken(k) = invite[k]
      BY <1>3, SerialFacts DEF AcceptInvite, ByToken, StoredTypeOK
    <2>3. invite[k].team_id \in Teams
      BY <2>2 DEF TeamInvite
    <2>4. team[invite[k].team_id]
      BY <2>2, <2>3, SerialFacts DEF Whole, Gone
    <2>5. Serves(req[r])'
      BY <1>1, <2>1, <2>2, <2>4 DEF Serves, OnTeam
    <2> QED
      BY <1>1, <2>5, StartIsWhole
  <1>4. CASE \E role \in InvitedRole : CreateInvite(r, u, t, k, role)
    <2>1. PICK role \in InvitedRole : CreateInvite(r, u, t, k, role)
      BY <1>4
    <2>a. req'[r] = [On("invite", "save_invite", t) EXCEPT !.token = k, !.role = role]
      BY <2>1, StartFacts DEF CreateInvite
    <2>2. req'[r].at = "save_invite" /\ req'[r].kind = "invite" /\ req'[r].team = t
      BY <2>a DEF On, NoRequest
    <2>3. team[t]
      BY <2>1, OwnersAreMembers DEF CreateInvite
    <2>4. Serves(req[r])'
      BY <1>1, <2>2, <2>3 DEF Serves, OnTeam
    <2> QED
      BY <1>1, <2>4, StartIsWhole
  <1> QED
    BY <1>2, <1>3, <1>4

LEMMA OtherStartsAreWhole ==
    ASSUME OneByOne, SerialInv, BoundsInv', NEW r \in Requests,
           NEW u \in Users, NEW t \in Teams,
           DeleteTeam(r, u, t) \/ ViewAccount(r, u, t) \/ UpdateTeamLimits(r, u, t)
    PROVE  SerialInv'
  <1>1. /\ req[r] = NoRequest
        /\ UNCHANGED <<team, member, pointer, invite, cleared>>
    BY StartFacts DEF DeleteTeam, ViewAccount, UpdateTeamLimits
  <1>2. /\ req'[r].at \in {"list_members", "read_account"}
        /\ req'[r].kind \in {"delete", "view", "limits"}
    <2>1. \/ req'[r] = On("delete", "list_members", t)
          \/ req'[r] = On("view", "read_account", t)
          \/ req'[r] = On("limits", "read_account", t)
      BY StartFacts DEF DeleteTeam, ViewAccount, UpdateTeamLimits
    <2> QED
      BY <2>1 DEF On, NoRequest
  <1>3. Serves(req[r])'
    BY <1>2 DEF Serves, OnTeam
  <1> QED
    BY <1>1, <1>3, StartIsWhole

LEMMA StartsAreWhole ==
    ASSUME OneByOne, SerialInv, BoundsInv', NEW r \in Requests, RequestStart(r)
    PROVE  SerialInv'
  <1>1. PICK u \in Users :
           \/ ClearAccount(r, u)
           \/ \E t \in Teams :
                 \/ CreateTeam(r, u, t) \/ UpdateTeam(r, u, t)
                 \/ DeleteTeam(r, u, t) \/ ViewAccount(r, u, t) \/ UpdateTeamLimits(r, u, t)
                 \/ \E v \in Users :
                       \/ RemoveMember(r, u, t, v)
                       \/ \E role \in TeamRole : ChangeMemberRole(r, u, t, v, role)
                 \/ \E k \in Tokens :
                       \/ RevokeInvite(r, u, t, k)
                       \/ \E role \in InvitedRole : CreateInvite(r, u, t, k, role)
           \/ \E k \in Tokens : AcceptInvite(r, u, k)
    BY DEF RequestStart
  <1>2. CASE ClearAccount(r, u)
    <2>1. req[r] = NoRequest /\ UNCHANGED <<team, member, pointer, invite, cleared>>
      BY <1>2, StartFacts DEF ClearAccount
    <2>a. req'[r] = [On("clear", "list_pointers", Absent) EXCEPT !.user = u]
      BY <1>2, StartFacts DEF ClearAccount
    <2>2. req'[r].at = "list_pointers" /\ req'[r].kind = "clear"
      BY <2>a DEF On, NoRequest
    <2>3. Serves(req[r])'
      BY <2>2 DEF Serves, OnTeam
    <2> QED
      BY <2>1, <2>3, StartIsWhole
  <1>3. CASE \E t \in Teams :
                \/ DeleteTeam(r, u, t) \/ ViewAccount(r, u, t) \/ UpdateTeamLimits(r, u, t)
    BY <1>3, OtherStartsAreWhole
  <1>4. CASE \E t \in Teams, v \in Users :
                \/ CreateTeam(r, u, t) \/ UpdateTeam(r, u, t) \/ RemoveMember(r, u, t, v)
                \/ \E role \in TeamRole : ChangeMemberRole(r, u, t, v, role)
    BY <1>4, ManagementStartsAreWhole
  <1>5. CASE \E t \in Teams, k \in Tokens :
                \/ RevokeInvite(r, u, t, k)
                \/ \E role \in InvitedRole : CreateInvite(r, u, t, k, role)
    BY <1>5, InviteStartsAreWhole
  <1>6. CASE \E k \in Tokens : AcceptInvite(r, u, k)
    <2>1. PICK k \in Tokens : AcceptInvite(r, u, k)
      BY <1>6
    <2>2. ByToken(k).team_id \in Teams
      BY <2>1, SerialFacts DEF AcceptInvite, ByToken, StoredTypeOK, TeamInvite
    <2> QED
      BY <2>1, <2>2, InviteStartsAreWhole
  <1> QED
    BY <1>1, <1>2, <1>3, <1>4, <1>5, <1>6

-----------------------------------------------------------------------------
(***************************************************************************)
(* What a request reads, it may rely on: no other one writes in between.   *)
(***************************************************************************)
LEMMA BetweenOwned ==
    ASSUME SerialInv, NEW r \in Requests, Between(req[r]), NEW t \in Teams, team[t]
    PROVE  Owners(t) # {}
  BY SerialFacts DEF Whole, Owned, Between, Forming, Deleting

LEMMA TwoOwners ==
    ASSUME NEW t \in Teams, NEW u \in Users, ~(Cardinality(Owners(t)) <= 1)
    PROVE  Owners(t) \ {u} # {}
  <1>1. SUFFICES ASSUME Owners(t) \subseteq {u} PROVE Cardinality(Owners(t)) <= 1
    OBVIOUS
  <1>2. IsFiniteSet({u}) /\ Cardinality({u}) = 1
    BY FS_Singleton
  <1> HIDE DEF Owners
  <1> QED
    BY <1>1, <1>2, FS_Subset

LEMMA ChecksAreWhole ==
    ASSUME OneByOne, SerialInv, BoundsInv', NEW r \in Requests,
           \/ CheckTarget(r) \/ CheckOwners(r) \/ CheckExisting(r) \/ CheckCapacity(r)
           \/ CheckInvite(r) \/ CheckTeam(r)
    PROVE  SerialInv'
  <1>1. UNCHANGED <<teamVars, counters>> /\ UNCHANGED <<team, member, pointer, invite, cleared>>
    BY DEF CheckTarget, CheckOwners, CheckExisting, CheckCapacity, CheckInvite, CheckTeam,
           teamVars, counters
  <1>2. /\ req[r].at \in {"target", "owners", "existing", "capacity", "invite_get", "team_get"}
        /\ Serves(req[r]) /\ Shaped(req[r])
    BY SerialFacts
    DEF CheckTarget, CheckOwners, CheckExisting, CheckCapacity, CheckInvite, CheckTeam, At
  <1>3. Between(req[r])
    BY <1>2 DEF Between
  <1>4. CASE Finish(r)
    BY <1>1, <1>3, <1>4, WholeEnd
  <1>5. req[r].at \in OnTeam => team[req[r].team]
    BY <1>2 DEF Serves
  <1>6. CASE CheckTarget(r) /\ ~Finish(r)
    <2> DEFINE t == req[r].team
               u == req[r].user
    <2>1. /\ req[r].at = "target" /\ req[r].kind \in {"change", "remove"}
          /\ t \in Teams /\ u \in Users /\ team[t]
          /\ req[r].kind = "remove" => req[r].role = Absent
      BY <1>2, <1>6 DEF CheckTarget, At, Shaped, Fits, Serves, OnTeam
    <2>2. CASE Go(r, "owners")
      BY <1>1, <1>3, <2>1, <2>2, WholeGo
    <2>3. CASE ~Go(r, "owners")
      <3>1. /\ ~(member[t][u] = "owner" /\ req[r].role # "owner")
            /\ Go(r, IF req[r].kind = "change" THEN "save_member" ELSE "erase_member")
        BY <1>6, <2>3 DEF CheckTarget
      <3>2. Owners(t) # {}
        BY <1>3, <2>1, BetweenOwned
      <3>3. req[r].role = "owner" \/ Owners(t) \ {u} # {}
        BY <2>1, <3>1, <3>2, TeamAbsentAssumption DEF Owners
      <3>4. CASE req[r].kind = "change"
        BY <1>1, <1>3, <2>1, <3>1, <3>3, <3>4, WholeGo
      <3>5. CASE req[r].kind = "remove"
        BY <1>1, <1>3, <2>1, <3>1, <3>3, <3>5, WholeGo
      <3> QED
        BY <2>1, <3>4, <3>5
    <2> QED
      BY <2>2, <2>3
  <1>7. CASE CheckOwners(r) /\ ~Finish(r)
    <2>1. /\ req[r].at = "owners" /\ req[r].kind \in {"change", "remove"}
          /\ req[r].team \in Teams /\ req[r].user \in Users /\ team[req[r].team]
          /\ ~(Cardinality(Owners(req[r].team)) <= 1)
          /\ Go(r, IF req[r].kind = "change" THEN "save_member" ELSE "erase_member")
      BY <1>2, <1>7 DEF CheckOwners, At, Shaped, Fits, Serves, OnTeam
    <2>2. Owners(req[r].team) \ {req[r].user} # {}
      BY <2>1, TwoOwners
    <2>3. CASE req[r].kind = "change"
      BY <1>1, <1>3, <2>1, <2>2, <2>3, WholeGo
    <2>4. CASE req[r].kind = "remove"
      BY <1>1, <1>3, <2>1, <2>2, <2>4, WholeGo
    <2> QED
      BY <2>1, <2>3, <2>4
  <1>8. CASE (CheckExisting(r) \/ CheckCapacity(r)) /\ ~Finish(r)
    <2>1. /\ req[r].kind = "accept" /\ team[req[r].team]
          /\ member[req[r].team][req[r].user] = Absent
          /\ Go(r, "capacity") \/ Go(r, "save_member")
      BY <1>2, <1>8 DEF CheckExisting, CheckCapacity, At, Shaped, Fits, Serves, OnTeam
    <2> QED
      BY <1>1, <1>3, <2>1, WholeGo
  <1>9. CASE (CheckInvite(r) \/ CheckTeam(r)) /\ ~Finish(r)
    <2>1. Go(r, "erase_invite") \/ (Go(r, "save_team") /\ team[req[r].team])
      BY <1>9 DEF CheckInvite, CheckTeam
    <2>2. "erase_invite" \notin OnTeam /\ "save_team" \notin OnTeam
      BY DEF OnTeam
    <2> QED
      BY <1>1, <1>3, <2>1, <2>2, WholeGo
  <1> QED
    BY <1>4, <1>6, <1>7, <1>8, <1>9

LEMMA AccountsAreWhole ==
    ASSUME OneByOne, SerialInv, BoundsInv', NEW r \in Requests,
           ReadAccount(r) \/ SaveAccount(r) \/ SaveIndex(r) \/ EraseIndex(r)
    PROVE  SerialInv'
  <1>1. UNCHANGED <<team, member, pointer, invite, cleared>>
    BY DEF ReadAccount, SaveAccount, SaveIndex, EraseIndex, teamVars, counters
  <1>2. req[r].at \in {"read_account", "save_account", "save_index", "erase_index"}
    BY DEF ReadAccount, SaveAccount, SaveIndex, EraseIndex, At
  <1>3. Between(req[r])
    BY <1>2 DEF Between
  <1>4. CASE Finish(r)
    BY <1>1, <1>3, <1>4, WholeEnd
  <1>5. CASE Go(r, "save_account") /\ UNCHANGED <<teamVars, counters>>
    <2>1. "save_account" \notin OnTeam
      BY DEF OnTeam
    <2> QED
      BY <1>3, <1>5, <2>1, WholeGo
  <1> QED
    BY <1>4, <1>5 DEF ReadAccount, SaveAccount, SaveIndex, EraseIndex

LEMMA ListingsAreWhole ==
    ASSUME OneByOne, SerialInv, BoundsInv', NEW r \in Requests,
           ListMembers(r) \/ ListBlobs(r)
    PROVE  SerialInv'
  <1>1. UNCHANGED <<team, pool, member, pointer, invite, cleared>>
    BY DEF ListMembers, ListBlobs, teamVars, counters
  <1>2. /\ req[r].at \in {"list_members", "list_blobs"} /\ req[r].kind = "delete"
        /\ Serves(req[r])
    BY SerialFacts DEF ListMembers, ListBlobs, At, Shaped, Fits
  <1>3. Between(req[r])
    BY <1>2 DEF Between
  <1>4. CASE ListMembers(r)
    <2>1. /\ req'[r].at = "list_blobs" /\ req'[r].kind = "delete"
          /\ req'[r].team = req[r].team /\ req'[r].members = Members(req[r].team)
      BY <1>2, <1>4, SerialFacts DEF ListMembers, ReqType
    <2>2. Serves(req[r])'
      BY <1>1, <2>1 DEF Serves, OnTeam, Members
    <2> QED
      BY <1>1, <1>3, <2>2, WholeQuiet
  <1>5. CASE ListBlobs(r)
    <2>1. /\ req'[r].at = "delete_next" /\ req'[r].kind = "delete"
          /\ req'[r].team = req[r].team /\ req'[r].members = req[r].members
          /\ req'[r].blobs = BlobsOf(req[r].team) /\ req[r].at = "list_blobs"
      BY <1>2, <1>5, SerialFacts DEF ListBlobs, ReqType, At
    <2>2. req[r].members = Members(req[r].team)
      BY <1>2, <2>1 DEF Serves
    <2>3. Serves(req[r])'
      BY <1>1, <2>1, <2>2 DEF Serves, OnTeam, Members, BlobsOf
    <2> QED
      BY <1>1, <1>3, <2>3, WholeQuiet
  <1> QED
    BY <1>4, <1>5

-----------------------------------------------------------------------------
(***************************************************************************)
(* The writes, each of which leaves at most its own team half done.        *)
(***************************************************************************)
LEMMA NobodyElseErases ==
    ASSUME OneByOne, NEW r \in Requests
    PROVE  Requests = {r}
  BY DEF OneByOne

LEMMA SaveTeamIsWhole ==
    ASSUME OneByOne, SerialInv, BoundsInv', NEW r \in Requests, SaveTeam(r)
    PROVE  SerialInv'
  <1>1. /\ req[r].at = "save_team" /\ req[r].kind \in {"create", "update"}
        /\ Serves(req[r]) /\ Whole(req[r]) /\ StoredTypeOK
        /\ UNCHANGED <<member, pointer, invite, cleared>>
        /\ team' = [team EXCEPT ![req[r].team] = TRUE]
    BY SerialFacts DEF SaveTeam, At, Shaped, Fits, counters
  <1>2. Between(req[r])
    BY <1>1 DEF Between
  <1>3. CASE req[r].kind = "update"
    <2>1. team[req[r].team] = TRUE
      BY <1>1, <1>3 DEF Serves, StoredTypeOK
    <2>2. team' = team
      BY <1>1, <2>1 DEF StoredTypeOK
    <2>3. Finish(r)
      BY <1>3 DEF SaveTeam
    <2> QED
      BY <1>1, <1>2, <2>2, <2>3, WholeEnd
  <1>4. CASE req[r].kind = "create"
    <2>1. Go(r, "save_member") /\ req[r].team \in Teams /\ req[r].user \in Users
          /\ req[r].role = "owner"
      BY <1>1, <1>4 DEF SaveTeam, Serves
    <2>2. /\ req'[r].at = "save_member" /\ req'[r].kind = "create"
          /\ req'[r].team = req[r].team /\ req'[r].user = req[r].user
          /\ req'[r].role = "owner"
      BY <1>4, <2>1, GoFacts
    <2>3. team'[req[r].team] /\ \A t \in Teams : t # req[r].team => team'[t] = team[t]
      BY <1>1, <2>1 DEF StoredTypeOK
    <2>4. Serves(req[r])'
      BY <2>1, <2>2, <2>3 DEF Serves, OnTeam
    <2>5. ASSUME NEW t \in Teams
          PROVE  Owned(req[r], t)' /\ Gone(t)'
      <3>1. Owned(req[r], t) /\ Gone(t) /\ ~Forming(req[r], t) /\ ~Deleting(req[r], t)
        BY <1>1 DEF Whole, Forming, Deleting
      <3>2. Owned(req[r], t)'
        BY <1>1, <2>2, <2>3, <3>1 DEF Owned, Owners, Forming
      <3>3. Gone(t)'
        BY <1>1, <2>3, <3>1 DEF Gone, Members
      <3> QED
        BY <3>2, <3>3
    <2>6. ASSUME NEW t \in Teams, NEW u \in Users
          PROVE  Mirrors(req[r], t, u)'
      <3>1. Mirrors(req[r], t, u) /\ ~Halfway(req[r], t, u) /\ ~Unswept(req[r], t, u)
        BY <1>1 DEF Whole, Halfway, Unswept, Deleting
      <3> QED
        BY <1>1, <3>1 DEF Mirrors
    <2>7. Whole(req[r])'
      BY <2>4, <2>5, <2>6 DEF Whole
    <2> QED
      BY <2>7, SerialStep
  <1> QED
    BY <1>1, <1>3, <1>4

LEMMA SaveMemberIsWhole ==
    ASSUME OneByOne, SerialInv, BoundsInv', NEW r \in Requests, SaveMember(r)
    PROVE  SerialInv'
  <1>1. /\ req[r].at = "save_member" /\ req[r].kind \in {"create", "change", "accept"}
        /\ Serves(req[r]) /\ Whole(req[r]) /\ StoredTypeOK /\ Remembers(req[r])
        /\ UNCHANGED <<team, pointer, invite, cleared>>
        /\ Go(r, "save_pointer")
    BY SerialFacts DEF SaveMember, At, Shaped, Fits
  <1>2. /\ req[r].team \in Teams /\ req[r].user \in Users /\ req[r].role \in TeamRole
        /\ team[req[r].team]
    <2>1. req[r].kind = "accept" =>
             req[r].user \in Users /\ req[r].role \in TeamRole
      BY <1>1 DEF Remembers, InvitedRole
    <2>2. req[r].team \in Teams \cup {Absent} /\ team[req[r].team]
      BY <1>1, SerialFacts DEF ReqType, Serves, OnTeam
    <2>3. req[r].kind = "accept" => req[r].team \in Teams
      BY <1>1 DEF Remembers
    <2> QED
      BY <1>1, <2>1, <2>2, <2>3 DEF Serves, TeamRole
  <1>3. /\ req'[r].at = "save_pointer" /\ req'[r].kind = req[r].kind
        /\ req'[r].team = req[r].team /\ req'[r].user = req[r].user
        /\ req'[r].role = req[r].role
    BY <1>1, GoFacts
  <1>4. /\ member'[req[r].team][req[r].user] = req[r].role
        /\ \A t \in Teams, u \in Users :
              t # req[r].team \/ u # req[r].user => member'[t][u] = member[t][u]
    BY <1>1, <1>2 DEF SaveMember, StoredTypeOK
  <1>5. Serves(req[r])'
    BY <1>1, <1>2, <1>3, <1>4 DEF Serves
  <1>6. Owned(req[r], req[r].team)'
    <2>1. CASE req[r].role = "owner"
      BY <1>2, <1>3, <1>4, <2>1 DEF Owned, Owners
    <2>2. CASE req[r].kind = "change" /\ req[r].role # "owner"
      <3>1. Owners(req[r].team) \ {req[r].user} # {}
        BY <1>1, <2>2 DEF Serves
      <3> QED
        BY <1>2, <1>3, <1>4, <3>1 DEF Owned, Owners
    <2>3. CASE req[r].kind = "accept"
      <3>1. member[req[r].team][req[r].user] = Absent
        BY <1>1, <2>3 DEF Serves
      <3>2. Owners(req[r].team) # {}
        BY <1>1, <1>2, <2>3 DEF Whole, Owned, Forming, Deleting
      <3>3. Owners(req[r].team) \ {req[r].user} # {}
        BY <3>1, <3>2, TeamAbsentAssumption DEF Owners
      <3> QED
        BY <1>2, <1>3, <1>4, <3>3 DEF Owned, Owners
    <2> QED
      BY <1>1, <2>1, <2>2, <2>3 DEF Serves
  <1>7. ASSUME NEW t \in Teams
        PROVE  Owned(req[r], t)' /\ Gone(t)'
    <2>1. CASE t = req[r].team
      BY <1>1, <1>2, <1>6, <2>1, <1>3 DEF Gone
    <2>2. CASE t # req[r].team
      <3>1. Owned(req[r], t) /\ Gone(t) /\ ~Forming(req[r], t) /\ ~Deleting(req[r], t)
        BY <1>1, <2>2 DEF Whole, Forming, Deleting
      <3>2. Members(t)' = Members(t) /\ Owners(t)' = Owners(t)
        BY <1>4, <2>2 DEF Members, Owners
      <3> HIDE DEF Members, Owners
      <3> QED
        BY <1>1, <3>1, <3>2 DEF Owned, Gone
    <2> QED
      BY <2>1, <2>2
  <1>8. ASSUME NEW t \in Teams, NEW u \in Users
        PROVE  Mirrors(req[r], t, u)'
    <2>1. Mirrors(req[r], t, u) /\ ~Halfway(req[r], t, u) /\ ~Unswept(req[r], t, u)
      BY <1>1 DEF Whole, Halfway, Unswept, Deleting
    <2> QED
      BY <1>1, <1>3, <1>4, <2>1 DEF Mirrors, Halfway
  <1>9. Whole(req[r])'
    BY <1>5, <1>7, <1>8 DEF Whole
  <1> QED
    BY <1>9, SerialStep

LEMMA SavePointerIsWhole ==
    ASSUME OneByOne, SerialInv, BoundsInv', NEW r \in Requests, SavePointer(r)
    PROVE  SerialInv'
  <1>1. /\ req[r].at = "save_pointer" /\ req[r].kind \in {"create", "change", "accept"}
        /\ Serves(req[r]) /\ Whole(req[r]) /\ StoredTypeOK /\ Remembers(req[r])
        /\ UNCHANGED <<team, member, invite, cleared>>
    BY SerialFacts DEF SavePointer, At, Shaped, Fits, counters
  <1>2. /\ req[r].team \in Teams /\ req[r].user \in Users /\ team[req[r].team]
        /\ member[req[r].team][req[r].user] = req[r].role
    BY <1>1 DEF Serves, OnTeam, Remembers
  <1>3. /\ pointer'[req[r].user][req[r].team] = req[r].role
        /\ \A t \in Teams, u \in Users :
              t # req[r].team \/ u # req[r].user => pointer'[u][t] = pointer[u][t]
    BY <1>1, <1>2 DEF SavePointer, StoredTypeOK
  <1>4. Serves(req[r])'
    <2>1. CASE req[r].kind = "change"
      <3>1. req'[r] = NoRequest
        BY <2>1, SerialFacts DEF SavePointer, Finish
      <3>2. req'[r].at = "idle" /\ req'[r].kind = "none"
        BY <3>1 DEF NoRequest
      <3> QED
        BY <3>2 DEF Serves, OnTeam
    <2>2. CASE req[r].kind # "change"
      <3>1. PICK stage \in {"read_account", "save_invite"} : Go(r, stage)
        BY <1>1, <2>2 DEF SavePointer
      <3>2. /\ req'[r].at = stage /\ req'[r].kind = req[r].kind
            /\ req'[r].team = req[r].team /\ req'[r].user = req[r].user
            /\ req'[r].role = req[r].role
        BY <3>1, GoFacts
      <3> QED
        BY <1>1, <1>2, <3>1, <3>2 DEF Serves
    <2> QED
      BY <2>1, <2>2
  <1>5. ASSUME NEW t \in Teams
        PROVE  Owned(req[r], t)' /\ Gone(t)'
    <2>1. Owned(req[r], t) /\ Gone(t) /\ ~Forming(req[r], t) /\ ~Deleting(req[r], t)
      BY <1>1 DEF Whole, Forming, Deleting
    <2> QED
      BY <1>1, <2>1 DEF Owned, Gone, Owners, Members
  <1>6. ASSUME NEW t \in Teams, NEW u \in Users
        PROVE  Mirrors(req[r], t, u)'
    <2>1. CASE t = req[r].team /\ u = req[r].user
      BY <1>1, <1>2, <1>3, <2>1 DEF Mirrors
    <2>2. CASE ~(t = req[r].team /\ u = req[r].user)
      <3>1. Mirrors(req[r], t, u) /\ ~Halfway(req[r], t, u) /\ ~Unswept(req[r], t, u)
        BY <1>1, <2>2 DEF Whole, Halfway, Unswept, Deleting
      <3> QED
        BY <1>1, <1>3, <2>2, <3>1 DEF Mirrors
    <2> QED
      BY <2>1, <2>2
  <1>7. Whole(req[r])'
    BY <1>4, <1>5, <1>6 DEF Whole
  <1> QED
    BY <1>7, SerialStep

LEMMA SaveInviteIsWhole ==
    ASSUME OneByOne, SerialInv, BoundsInv', NEW r \in Requests, SaveInvite(r)
    PROVE  SerialInv'
  <1>1. /\ req[r].at = "save_invite" /\ req[r].kind \in {"invite", "accept"}
        /\ Serves(req[r]) /\ Whole(req[r]) /\ StoredTypeOK /\ Remembers(req[r])
        /\ UNCHANGED <<team, member, pointer, cleared>>
        /\ Go(r, "save_index")
    BY SerialFacts DEF SaveInvite, At, Shaped, Fits, counters
  <1>2. req[r].team \in Teams /\ req[r].token \in Tokens /\ team[req[r].team]
    BY <1>1 DEF Serves, OnTeam, Remembers
  <1>3. req'[r].at = "save_index" /\ req'[r].kind = req[r].kind
    BY <1>1, GoFacts
  <1>4. Serves(req[r])'
    BY <1>1, <1>3 DEF Serves, OnTeam
  <1>5. ASSUME NEW k \in Tokens
        PROVE  invite'[k] = invite[k] \/ invite'[k].team_id = req[r].team
    BY <1>1, <1>2 DEF SaveInvite, StoredTypeOK
  <1>6. ASSUME NEW t \in Teams
        PROVE  Owned(req[r], t)' /\ Gone(t)'
    <2>1. Owned(req[r], t) /\ Gone(t) /\ ~Forming(req[r], t) /\ ~Deleting(req[r], t)
      BY <1>1 DEF Whole, Forming, Deleting
    <2>2. Owned(req[r], t)'
      BY <1>1, <2>1 DEF Owned, Owners
    <2>3. ASSUME ~team[t], NEW k \in Tokens, invite'[k] # Absent
          PROVE  invite'[k].team_id # t
      BY <1>2, <1>5, <2>1, <2>3 DEF Gone
    <2>4. Gone(t)'
      BY <1>1, <2>1, <2>3 DEF Gone, Members
    <2> QED
      BY <2>2, <2>4
  <1>7. ASSUME NEW t \in Teams, NEW u \in Users
        PROVE  Mirrors(req[r], t, u)'
    <2>1. Mirrors(req[r], t, u) /\ ~Halfway(req[r], t, u) /\ ~Unswept(req[r], t, u)
      BY <1>1 DEF Whole, Halfway, Unswept, Deleting
    <2> QED
      BY <1>1, <2>1 DEF Mirrors
  <1>8. Whole(req[r])'
    BY <1>4, <1>6, <1>7 DEF Whole
  <1> QED
    BY <1>8, SerialStep

LEMMA EraseInviteIsWhole ==
    ASSUME OneByOne, SerialInv, BoundsInv', NEW r \in Requests, EraseInvite(r)
    PROVE  SerialInv'
  <1>1. /\ req[r].at = "erase_invite" /\ Serves(req[r]) /\ Whole(req[r]) /\ StoredTypeOK
        /\ UNCHANGED <<team, member, pointer, cleared>>
        /\ Go(r, "erase_index")
    BY SerialFacts, NobodyElseErases DEF EraseInvite, Erased, At, counters
  <1>2. req'[r].at = "erase_index" /\ req'[r].kind = req[r].kind
        /\ req'[r].team = req[r].team /\ req'[r].user = req[r].user
        /\ req'[r].role = req[r].role
    BY <1>1, GoFacts
  <1>3. Serves(req[r])'
    BY <1>1, <1>2 DEF Serves, OnTeam
  <1>4. \A k \in Tokens : invite'[k] = invite[k] \/ invite'[k] = Absent
    BY <1>1 DEF EraseInvite, StoredTypeOK
  <1>5. ASSUME NEW t \in Teams
        PROVE  Owned(req[r], t)' /\ Gone(t)'
    <2>1. Owned(req[r], t) /\ Gone(t) /\ ~Forming(req[r], t) /\ ~Deleting(req[r], t)
      BY <1>1 DEF Whole, Forming, Deleting
    <2> QED
      BY <1>1, <1>4, <2>1 DEF Owned, Owners, Gone, Members
  <1>6. ASSUME NEW t \in Teams, NEW u \in Users
        PROVE  Mirrors(req[r], t, u)'
    <2>1. Mirrors(req[r], t, u) /\ ~Halfway(req[r], t, u) /\ ~Unswept(req[r], t, u)
      BY <1>1 DEF Whole, Halfway, Unswept, Deleting
    <2> QED
      BY <1>1, <2>1 DEF Mirrors
  <1>7. Whole(req[r])'
    BY <1>3, <1>5, <1>6 DEF Whole
  <1> QED
    BY <1>7, SerialStep

LEMMA EraseMemberIsWhole ==
    ASSUME OneByOne, SerialInv, BoundsInv', NEW r \in Requests, EraseMember(r)
    PROVE  SerialInv'
  <1>1. /\ req[r].at = "erase_member" /\ req[r].kind = "remove"
        /\ Serves(req[r]) /\ Whole(req[r]) /\ StoredTypeOK
        /\ UNCHANGED <<team, pointer, invite, cleared>>
        /\ Go(r, "erase_pointer")
    BY SerialFacts, NobodyElseErases DEF EraseMember, Erased, At, Serves, counters
  <1>2. /\ req[r].team \in Teams /\ req[r].user \in Users /\ req[r].role = Absent
        /\ team[req[r].team] /\ Owners(req[r].team) \ {req[r].user} # {}
    BY <1>1, TeamAbsentAssumption DEF Serves, OnTeam
  <1>3. /\ req'[r].at = "erase_pointer" /\ req'[r].kind = "remove"
        /\ req'[r].team = req[r].team /\ req'[r].user = req[r].user
        /\ req'[r].role = Absent
    BY <1>1, <1>2, GoFacts
  <1>4. /\ member'[req[r].team][req[r].user] = Absent
        /\ \A t \in Teams, u \in Users :
              t # req[r].team \/ u # req[r].user => member'[t][u] = member[t][u]
    BY <1>1, <1>2 DEF EraseMember, StoredTypeOK
  <1>5. Serves(req[r])'
    BY <1>1, <1>2, <1>3, <1>4 DEF Serves
  <1>6. ASSUME NEW t \in Teams
        PROVE  Owned(req[r], t)' /\ Gone(t)'
    <2>1. CASE t = req[r].team
      BY <1>1, <1>2, <1>4, <2>1 DEF Owned, Owners, Gone
    <2>2. CASE t # req[r].team
      <3>1. Owned(req[r], t) /\ Gone(t) /\ ~Forming(req[r], t) /\ ~Deleting(req[r], t)
        BY <1>1, <2>2 DEF Whole, Forming, Deleting
      <3>2. Members(t)' = Members(t) /\ Owners(t)' = Owners(t)
        BY <1>4, <2>2 DEF Members, Owners
      <3> HIDE DEF Members, Owners
      <3> QED
        BY <1>1, <3>1, <3>2 DEF Owned, Gone
    <2> QED
      BY <2>1, <2>2
  <1>7. ASSUME NEW t \in Teams, NEW u \in Users
        PROVE  Mirrors(req[r], t, u)'
    <2>1. Mirrors(req[r], t, u) /\ ~Halfway(req[r], t, u) /\ ~Unswept(req[r], t, u)
      BY <1>1 DEF Whole, Halfway, Unswept, Deleting
    <2> QED
      BY <1>1, <1>3, <1>4, <2>1 DEF Mirrors, Halfway
  <1>8. Whole(req[r])'
    BY <1>5, <1>6, <1>7 DEF Whole
  <1> QED
    BY <1>8, SerialStep

LEMMA ErasePointerIsWhole ==
    ASSUME OneByOne, SerialInv, BoundsInv', NEW r \in Requests, ErasePointer(r)
    PROVE  SerialInv'
  <1>1. /\ req[r].at = "erase_pointer" /\ req[r].kind = "remove"
        /\ Serves(req[r]) /\ Whole(req[r]) /\ StoredTypeOK
        /\ UNCHANGED <<team, member, invite, cleared>> /\ Finish(r)
    BY SerialFacts DEF ErasePointer, At, Serves, counters
  <1>2. /\ req[r].team \in Teams /\ req[r].user \in Users
        /\ member[req[r].team][req[r].user] = Absent
    BY <1>1 DEF Serves
  <1>3. /\ pointer'[req[r].user][req[r].team] = Absent
        /\ \A t \in Teams, u \in Users :
              t # req[r].team \/ u # req[r].user => pointer'[u][t] = pointer[u][t]
    BY <1>1, <1>2 DEF ErasePointer, StoredTypeOK
  <1>4. Serves(req[r])'
    <2>1. req'[r] = NoRequest
      BY <1>1, SerialFacts DEF Finish
    <2>2. req'[r].at = "idle" /\ req'[r].kind = "none"
      BY <2>1 DEF NoRequest
    <2> QED
      BY <2>2 DEF Serves, OnTeam
  <1>5. ASSUME NEW t \in Teams
        PROVE  Owned(req[r], t)' /\ Gone(t)'
    <2>1. Owned(req[r], t) /\ Gone(t) /\ ~Forming(req[r], t) /\ ~Deleting(req[r], t)
      BY <1>1 DEF Whole, Forming, Deleting
    <2> QED
      BY <1>1, <2>1 DEF Owned, Gone, Owners, Members
  <1>6. ASSUME NEW t \in Teams, NEW u \in Users
        PROVE  Mirrors(req[r], t, u)'
    <2>1. CASE t = req[r].team /\ u = req[r].user
      BY <1>1, <1>2, <1>3, <2>1 DEF Mirrors
    <2>2. CASE ~(t = req[r].team /\ u = req[r].user)
      <3>1. Mirrors(req[r], t, u) /\ ~Halfway(req[r], t, u) /\ ~Unswept(req[r], t, u)
        BY <1>1, <2>2 DEF Whole, Halfway, Unswept, Deleting
      <3> QED
        BY <1>1, <1>3, <2>2, <3>1 DEF Mirrors
    <2> QED
      BY <2>1, <2>2
  <1>7. Whole(req[r])'
    BY <1>4, <1>5, <1>6 DEF Whole
  <1> QED
    BY <1>7, SerialStep

-----------------------------------------------------------------------------
(***************************************************************************)
(* The hard delete takes the blobs of a team in their order, team.json the *)
(* last one, and sweeps the pointers of the members it had.                *)
(***************************************************************************)
LEMMA BlobShape ==
    ASSUME NEW t \in Teams, NEW blob \in BlobsOf(t)
    PROVE  \/ blob = <<1, "account", t>> /\ pool[t]
           \/ \E k \in Tokens :
                 blob = <<2, "invite", k>> /\ invite[k] # Absent /\ invite[k].team_id = t
           \/ \E u \in Users : blob = <<3, "member", u>> /\ member[t][u] # Absent
           \/ blob = <<4, "team", t>> /\ team[t]
  BY DEF BlobsOf, Members

LEMMA BlobIsThere ==
    ASSUME NEW t \in Teams, NEW blob \in BlobsOf(t)
    PROVE  BlobExists(t, blob)
  <1>1. CASE blob = <<1, "account", t>> /\ pool[t]
    BY <1>1 DEF BlobExists
  <1>2. ASSUME NEW k \in Tokens, blob = <<2, "invite", k>>, invite[k] # Absent
        PROVE  BlobExists(t, blob)
    BY <1>2 DEF BlobExists
  <1>3. ASSUME NEW u \in Users, blob = <<3, "member", u>>, member[t][u] # Absent
        PROVE  BlobExists(t, blob)
    BY <1>3 DEF BlobExists
  <1>4. CASE blob = <<4, "team", t>> /\ team[t]
    BY <1>4 DEF BlobExists
  <1> QED
    BY <1>1, <1>2, <1>3, <1>4, BlobShape

\* what the deletion of one blob of team t leaves
LEMMA BlobGoes ==
    ASSUME StoredTypeOK, NEW t \in Teams, NEW blob \in BlobsOf(t), DeleteBlob(t, blob)
    PROVE  /\ BlobsOf(t)' = BlobsOf(t) \ {blob}
           /\ \A s \in Teams : s # t => team'[s] = team[s] /\ member'[s] = member[s]
           /\ \A u \in Users : member'[t][u] = member[t][u] \/ member'[t][u] = Absent
           /\ \A k \in Tokens : invite'[k] = invite[k] \/ invite'[k] = Absent
           /\ blob = <<4, "team", t>> \/ team'[t] = team[t]
  <1>1. CASE blob = <<1, "account", t>> /\ pool[t]
    <2>1. /\ pool' = [pool EXCEPT ![t] = FALSE]
          /\ UNCHANGED <<invite, member, team>>
      BY <1>1 DEF DeleteBlob
    <2>2. pool'[t] = FALSE
      BY <2>1 DEF StoredTypeOK
    <2>3. BlobsOf(t)' = BlobsOf(t) \ {blob}
      BY <1>1, <2>1, <2>2 DEF BlobsOf, Members
    <2> QED
      BY <2>1, <2>3
  <1>2. ASSUME NEW k \in Tokens, blob = <<2, "invite", k>>,
               invite[k] # Absent, invite[k].team_id = t
        PROVE  /\ BlobsOf(t)' = BlobsOf(t) \ {blob}
               /\ UNCHANGED <<team, member>>
               /\ \A i \in Tokens : invite'[i] = invite[i] \/ invite'[i] = Absent
    <2>1. /\ invite' = [invite EXCEPT ![k] = Absent]
          /\ UNCHANGED <<pool, member, team>>
      BY <1>2 DEF DeleteBlob
    <2>2. invite'[k] = Absent /\ \A i \in Tokens : i # k => invite'[i] = invite[i]
      BY <2>1 DEF StoredTypeOK
    <2>3. BlobsOf(t)' = BlobsOf(t) \ {blob}
      BY <1>2, <2>1, <2>2 DEF BlobsOf, Members
    <2> QED
      BY <2>1, <2>2, <2>3
  <1>3. ASSUME NEW u \in Users, blob = <<3, "member", u>>, member[t][u] # Absent
        PROVE  /\ BlobsOf(t)' = BlobsOf(t) \ {blob}
               /\ UNCHANGED <<team, invite>>
               /\ \A s \in Teams : s # t => member'[s] = member[s]
               /\ \A v \in Users : member'[t][v] = member[t][v] \/ member'[t][v] = Absent
    <2>1. /\ member' = [member EXCEPT ![t][u] = Absent]
          /\ UNCHANGED <<pool, invite, team>>
      BY <1>3 DEF DeleteBlob
    <2>2. /\ member'[t][u] = Absent /\ \A v \in Users : v # u => member'[t][v] = member[t][v]
          /\ \A s \in Teams : s # t => member'[s] = member[s]
      BY <2>1 DEF StoredTypeOK
    <2>3. BlobsOf(t)' = BlobsOf(t) \ {blob}
      BY <1>3, <2>1, <2>2 DEF BlobsOf, Members
    <2> QED
      BY <2>1, <2>2, <2>3
  <1>4. CASE blob = <<4, "team", t>> /\ team[t]
    <2>1. /\ team' = [team EXCEPT ![t] = FALSE]
          /\ UNCHANGED <<pool, invite, member>>
      BY <1>4 DEF DeleteBlob
    <2>2. team'[t] = FALSE /\ \A s \in Teams : s # t => team'[s] = team[s]
      BY <2>1 DEF StoredTypeOK
    <2>3. BlobsOf(t)' = BlobsOf(t) \ {blob}
      BY <1>4, <2>1, <2>2 DEF BlobsOf, Members
    <2> QED
      BY <1>4, <2>1, <2>2, <2>3
  <1> QED
    BY <1>1, <1>2, <1>3, <1>4, BlobShape

\* team.json is deleted when nothing else is left
LEMMA TeamGoesLast ==
    ASSUME NEW t \in Teams, \A other \in BlobsOf(t) : 4 <= other[1]
    PROVE  Members(t) = {} /\ \A k \in Tokens : invite[k] # Absent => invite[k].team_id # t
  <1>1. ASSUME NEW u \in Members(t) PROVE FALSE
    <2>1. <<3, "member", u>> \in BlobsOf(t)
      BY DEF BlobsOf
    <2> QED
      BY <2>1
  <1>2. ASSUME NEW k \in Tokens, invite[k] # Absent, invite[k].team_id = t PROVE FALSE
    <2>1. <<2, "invite", k>> \in BlobsOf(t)
      BY <1>2 DEF BlobsOf
    <2> QED
      BY <2>1
  <1> QED
    BY <1>1, <1>2

LEMMA DeleteOneIsWhole ==
    ASSUME OneByOne, SerialInv, BoundsInv', NEW r \in Requests, NEW t, t = req[r].team,
           req[r].at = "delete_next", UNCHANGED <<pointer, cleared>>,
           NEW blob \in req[r].blobs, \A other \in req[r].blobs : blob[1] <= other[1],
           IF BlobExists(t, blob)
           THEN req' = [req EXCEPT ![r].blobs = @ \ {blob}]
           ELSE Finish(r),
           DeleteBlob(t, blob)
    PROVE  SerialInv'
  <1>1. /\ req[r].kind = "delete" /\ t \in Teams
        /\ Serves(req[r]) /\ Whole(req[r]) /\ StoredTypeOK
        /\ req[r].blobs = BlobsOf(t) /\ Members(t) \subseteq req[r].members
    BY SerialFacts DEF Serves, Shaped, Fits, Remembers
  <1>2. /\ BlobsOf(t)' = BlobsOf(t) \ {blob}
        /\ \A s \in Teams : s # t => team'[s] = team[s] /\ member'[s] = member[s]
        /\ \A u \in Users : member'[t][u] = member[t][u] \/ member'[t][u] = Absent
        /\ \A k \in Tokens : invite'[k] = invite[k] \/ invite'[k] = Absent
        /\ blob = <<4, "team", t>> \/ team'[t] = team[t]
    BY <1>1, BlobGoes
  <1>3. BlobExists(t, blob)
    BY <1>1, BlobIsThere
  <1>4. /\ req'[r].at = "delete_next" /\ req'[r].kind = "delete"
        /\ req'[r].team = t /\ req'[r].members = req[r].members
        /\ req'[r].blobs = BlobsOf(t)'
    BY <1>1, <1>2, <1>3, SerialFacts DEF ReqType
  <1>5. Members(t)' \subseteq Members(t)
    BY <1>2 DEF Members
  <1>6. Serves(req[r])'
    BY <1>1, <1>4, <1>5 DEF Serves, OnTeam
  <1>7. Owned(req[r], t)' /\ Gone(t)'
    <2>1. CASE team'[t] = team[t]
      BY <1>1, <1>2, <1>4, <1>5, <2>1 DEF Whole, Gone, Owned, Deleting
    <2>2. CASE blob = <<4, "team", t>>
      <3>1. Members(t) = {} /\ \A k \in Tokens : invite[k] # Absent => invite[k].team_id # t
        BY <1>1, <2>2, TeamGoesLast
      <3> QED
        BY <1>2, <1>4, <1>5, <3>1 DEF Owned, Deleting, Gone
    <2> QED
      BY <1>2, <2>1, <2>2
  <1>8. ASSUME NEW s \in Teams, s # t
        PROVE  Owned(req[r], s)' /\ Gone(s)'
    <2>1. Owned(req[r], s) /\ Gone(s) /\ ~Forming(req[r], s) /\ ~Deleting(req[r], s)
      BY <1>1, <1>8 DEF Whole, Forming, Deleting
    <2>2. Members(s)' = Members(s) /\ Owners(s)' = Owners(s)
      BY <1>2, <1>8 DEF Members, Owners
    <2> HIDE DEF Members, Owners
    <2> QED
      BY <1>2, <1>8, <2>1, <2>2 DEF Owned, Gone
  <1>9. ASSUME NEW u \in Users
        PROVE  Mirrors(req[r], t, u)'
    <2>1. CASE u \in req[r].members
      BY <1>4, <2>1 DEF Mirrors, Unswept, Deleting
    <2>2. CASE u \notin req[r].members
      <3>1. Mirrors(req[r], t, u) /\ ~Halfway(req[r], t, u) /\ ~Unswept(req[r], t, u)
        BY <1>1, <2>2 DEF Whole, Halfway, Unswept
      <3>2. member[t][u] = Absent /\ member'[t][u] = Absent
        BY <1>1, <1>2, <2>2 DEF Members
      <3> QED
        BY <3>1, <3>2 DEF Mirrors
    <2> QED
      BY <2>1, <2>2
  <1>10. ASSUME NEW s \in Teams, s # t, NEW u \in Users
         PROVE  Mirrors(req[r], s, u)'
    <2>1. Mirrors(req[r], s, u) /\ ~Halfway(req[r], s, u) /\ ~Unswept(req[r], s, u)
      BY <1>1, <1>10 DEF Whole, Halfway, Unswept, Deleting
    <2> QED
      BY <1>2, <1>10, <2>1 DEF Mirrors
  <1>11. Whole(req[r])'
    BY <1>6, <1>7, <1>8, <1>9, <1>10 DEF Whole
  <1> QED
    BY <1>11, SerialStep

LEMMA DeleteNextIsWhole ==
    ASSUME OneByOne, SerialInv, BoundsInv', NEW r \in Requests, DeleteNext(r)
    PROVE  SerialInv'
  <1>1. /\ req[r].at = "delete_next" /\ req[r].kind = "delete" /\ req[r].team \in Teams
        /\ Serves(req[r]) /\ Whole(req[r]) /\ StoredTypeOK
        /\ req[r].blobs = BlobsOf(req[r].team) /\ Members(req[r].team) \subseteq req[r].members
        /\ UNCHANGED <<pointer, cleared>>
    BY SerialFacts DEF DeleteNext, At, Serves, Shaped, Fits, Remembers, counters
  <1>2. CASE req[r].blobs = {} /\ Go(r, "sweep") /\ UNCHANGED <<team, pool, member, invite>>
    <2>1. /\ req'[r].at = "sweep" /\ req'[r].kind = "delete"
          /\ req'[r].team = req[r].team /\ req'[r].members = req[r].members
      BY <1>1, <1>2, GoFacts
    <2>2. ~team[req[r].team]
      BY <1>1, <1>2 DEF BlobsOf
    <2>3. Serves(req[r])'
      BY <1>2, <2>1, <2>2 DEF Serves, OnTeam
    <2>4. ASSUME NEW t \in Teams
          PROVE  Owned(req[r], t)' /\ Gone(t)'
      <3>1. Owned(req[r], t) /\ Gone(t) /\ ~Forming(req[r], t)
        BY <1>1 DEF Whole, Forming
      <3> QED
        BY <1>1, <1>2, <2>1, <3>1 DEF Owned, Owners, Gone, Members, Deleting
    <2>5. ASSUME NEW t \in Teams, NEW u \in Users
          PROVE  Mirrors(req[r], t, u)'
      <3>1. Mirrors(req[r], t, u) /\ ~Halfway(req[r], t, u)
        BY <1>1 DEF Whole, Halfway
      <3> QED
        BY <1>1, <1>2, <2>1, <3>1 DEF Mirrors, Unswept, Deleting
    <2>6. Whole(req[r])'
      BY <2>3, <2>4, <2>5 DEF Whole
    <2> QED
      BY <2>6, SerialStep
  <1>3. ASSUME NEW blob \in req[r].blobs, \A other \in req[r].blobs : blob[1] <= other[1],
               IF BlobExists(req[r].team, blob)
               THEN req' = [req EXCEPT ![r].blobs = @ \ {blob}]
               ELSE Finish(r),
               DeleteBlob(req[r].team, blob)
        PROVE  SerialInv'
    <2>1. PICK t : t = req[r].team
      OBVIOUS
    <2> QED
      BY <1>1, <1>3, <2>1, DeleteOneIsWhole
  <1> QED
    BY <1>1, <1>2, <1>3 DEF DeleteNext

LEMMA SweepIsWhole ==
    ASSUME OneByOne, SerialInv, BoundsInv', NEW r \in Requests, Sweep(r)
    PROVE  SerialInv'
  <1>1. /\ req[r].at = "sweep" /\ req[r].kind = "delete" /\ req[r].team \in Teams
        /\ Serves(req[r]) /\ Whole(req[r]) /\ StoredTypeOK /\ req[r].members \subseteq Users
        /\ ~team[req[r].team]
        /\ UNCHANGED <<team, member, invite, cleared>>
    BY SerialFacts DEF Sweep, At, Serves, Shaped, Fits, Remembers, ReqType, counters
  <1>2. \A u \in Users : member[req[r].team][u] = Absent
    BY <1>1 DEF Whole, Gone, Members
  <1>3. CASE req[r].members = {} /\ Finish(r) /\ UNCHANGED pointer
    <2>1. req'[r] = NoRequest
      BY <1>3, SerialFacts DEF Finish
    <2>2. req'[r].at = "idle" /\ req'[r].kind = "none"
      BY <2>1 DEF NoRequest
    <2>3. Serves(req[r])'
      BY <2>2 DEF Serves, OnTeam
    <2>4. ASSUME NEW t \in Teams
          PROVE  Owned(req[r], t)' /\ Gone(t)'
      <3>1. Owned(req[r], t) /\ Gone(t) /\ ~Forming(req[r], t)
            /\ (Deleting(req[r], t) => ~team[t])
        BY <1>1 DEF Whole, Forming, Deleting
      <3> QED
        BY <1>1, <3>1 DEF Owned, Owners, Gone, Members
    <2>5. ASSUME NEW t \in Teams, NEW u \in Users
          PROVE  Mirrors(req[r], t, u)'
      <3>1. Mirrors(req[r], t, u) /\ ~Halfway(req[r], t, u) /\ ~Unswept(req[r], t, u)
        BY <1>1, <1>3 DEF Whole, Halfway, Unswept
      <3> QED
        BY <1>1, <1>3, <3>1 DEF Mirrors
    <2>6. Whole(req[r])'
      BY <2>3, <2>4, <2>5 DEF Whole
    <2> QED
      BY <2>6, SerialStep
  <1>4. ASSUME NEW v \in req[r].members, req' = [req EXCEPT ![r].members = @ \ {v}],
               pointer' = [pointer EXCEPT ![v][req[r].team] = Absent]
        PROVE  SerialInv'
    <2>1. /\ req'[r].at = "sweep" /\ req'[r].kind = "delete"
          /\ req'[r].team = req[r].team /\ req'[r].members = req[r].members \ {v}
      BY <1>1, <1>4, SerialFacts DEF ReqType
    <2>2. /\ pointer'[v][req[r].team] = Absent
          /\ \A t \in Teams, u \in Users :
                t # req[r].team \/ u # v => pointer'[u][t] = pointer[u][t]
      BY <1>1, <1>4 DEF StoredTypeOK
    <2>3. Serves(req[r])'
      BY <1>1, <2>1 DEF Serves, OnTeam
    <2>4. ASSUME NEW t \in Teams
          PROVE  Owned(req[r], t)' /\ Gone(t)'
      <3>1. Owned(req[r], t) /\ Gone(t) /\ ~Forming(req[r], t)
        BY <1>1 DEF Whole, Forming
      <3> QED
        BY <1>1, <2>1, <3>1 DEF Owned, Owners, Gone, Members, Deleting
    <2>5. ASSUME NEW t \in Teams, NEW u \in Users
          PROVE  Mirrors(req[r], t, u)'
      <3>1. CASE t = req[r].team /\ u = v
        BY <1>1, <1>2, <2>2, <3>1 DEF Mirrors
      <3>2. CASE ~(t = req[r].team /\ u = v)
        <4>1. Mirrors(req[r], t, u) /\ ~Halfway(req[r], t, u)
          BY <1>1 DEF Whole, Halfway
        <4> QED
          BY <1>1, <2>1, <2>2, <3>2, <4>1 DEF Mirrors, Unswept, Deleting
      <3> QED
        BY <3>1, <3>2
    <2>6. Whole(req[r])'
      BY <2>3, <2>4, <2>5 DEF Whole
    <2> QED
      BY <2>6, SerialStep
  <1> QED
    BY <1>3, <1>4, NobodyElseErases DEF Sweep, Erased
-----------------------------------------------------------------------------
(***************************************************************************)
(* The deletion of a user's own blobs takes the copies one by one.         *)
(***************************************************************************)
LEMMA ListPointersIsWhole ==
    ASSUME OneByOne, SerialInv, BoundsInv', NEW r \in Requests, ListPointers(r)
    PROVE  SerialInv'
  <1>1. /\ req[r].at = "list_pointers" /\ req[r].kind = "clear"
        /\ Serves(req[r]) /\ Whole(req[r])
        /\ UNCHANGED <<team, member, pointer, invite>>
        /\ cleared' = cleared \cup {req[r].user}
    BY SerialFacts DEF ListPointers, At, Shaped, Fits, teamVars
  <1>2. /\ req'[r].at = "clear_next" /\ req'[r].kind = "clear"
        /\ req'[r].user = req[r].user /\ req'[r].pointers = TeamsOf(req[r].user)
    BY <1>1, SerialFacts DEF ListPointers, ReqType
  <1>3. Serves(req[r])'
    BY <1>1, <1>2 DEF Serves, OnTeam, TeamsOf
  <1>4. ASSUME NEW t \in Teams
        PROVE  Owned(req[r], t)' /\ Gone(t)'
    <2>1. Owned(req[r], t) /\ Gone(t) /\ ~Forming(req[r], t) /\ ~Deleting(req[r], t)
      BY <1>1 DEF Whole, Forming, Deleting
    <2> QED
      BY <1>1, <2>1 DEF Owned, Owners, Gone, Members
  <1>5. ASSUME NEW t \in Teams, NEW u \in Users
        PROVE  Mirrors(req[r], t, u)'
    <2>1. Mirrors(req[r], t, u) /\ ~Halfway(req[r], t, u) /\ ~Unswept(req[r], t, u)
      BY <1>1 DEF Whole, Halfway, Unswept, Deleting
    <2> QED
      BY <1>1, <2>1 DEF Mirrors
  <1>6. Whole(req[r])'
    BY <1>3, <1>4, <1>5 DEF Whole
  <1> QED
    BY <1>6, SerialStep

LEMMA ClearNextIsWhole ==
    ASSUME OneByOne, SerialInv, BoundsInv', NEW r \in Requests, ClearNext(r)
    PROVE  SerialInv'
  <1>1. /\ req[r].at = "clear_next" /\ req[r].kind = "clear" /\ req[r].user \in Users
        /\ Serves(req[r]) /\ Whole(req[r]) /\ StoredTypeOK /\ req[r].pointers \subseteq Teams
        /\ req[r].user \in cleared /\ req[r].pointers \subseteq TeamsOf(req[r].user)
        /\ UNCHANGED <<team, member, invite, cleared>>
    BY SerialFacts DEF ClearNext, At, Serves, Shaped, Fits, Remembers, ReqType, counters
  <1>2. Between(req[r])
    BY <1>1 DEF Between
  <1>3. CASE Finish(r) /\ UNCHANGED pointer
    BY <1>1, <1>2, <1>3, WholeEnd
  <1>4. ASSUME NEW s \in req[r].pointers,
               IF pointer[req[r].user][s] # Absent
               THEN req' = [req EXCEPT ![r].pointers = @ \ {s}]
               ELSE Finish(r),
               pointer' = [pointer EXCEPT ![req[r].user][s] = Absent]
        PROVE  SerialInv'
    <2>1. req' = [req EXCEPT ![r].pointers = @ \ {s}]
      BY <1>1, <1>4 DEF TeamsOf
    <2>2. /\ req'[r].at = "clear_next" /\ req'[r].kind = "clear"
          /\ req'[r].user = req[r].user /\ req'[r].pointers = req[r].pointers \ {s}
      BY <1>1, <2>1, SerialFacts DEF ReqType
    <2>3. /\ pointer'[req[r].user][s] = Absent
          /\ \A t \in Teams, u \in Users :
                t # s \/ u # req[r].user => pointer'[u][t] = pointer[u][t]
      BY <1>1, <1>4 DEF StoredTypeOK
    <2>4. Serves(req[r])'
      BY <1>1, <2>2, <2>3 DEF Serves, OnTeam, TeamsOf
    <2>5. ASSUME NEW t \in Teams
          PROVE  Owned(req[r], t)' /\ Gone(t)'
      <3>1. Owned(req[r], t) /\ Gone(t) /\ ~Forming(req[r], t) /\ ~Deleting(req[r], t)
        BY <1>1 DEF Whole, Forming, Deleting
      <3> QED
        BY <1>1, <3>1 DEF Owned, Owners, Gone, Members
    <2>6. ASSUME NEW t \in Teams, NEW u \in Users
          PROVE  Mirrors(req[r], t, u)'
      <3>1. Mirrors(req[r], t, u) /\ ~Halfway(req[r], t, u) /\ ~Unswept(req[r], t, u)
        BY <1>1 DEF Whole, Halfway, Unswept, Deleting
      <3> QED
        BY <1>1, <2>3, <3>1 DEF Mirrors
    <2>7. Whole(req[r])'
      BY <2>4, <2>5, <2>6 DEF Whole
    <2> QED
      BY <2>7, SerialStep
  <1> QED
    BY <1>3, <1>4 DEF ClearNext

-----------------------------------------------------------------------------
LEMMA StillIsWhole ==
    ASSUME SerialInv, BoundsInv',
           UNCHANGED <<team, pool, member, pointer, invite, req, cleared>>
    PROVE  SerialInv'
  <1>1. ASSUME NEW r \in Requests
        PROVE  Whole(req[r])'
    <2>1. Serves(req[r]) /\ Whole(req[r])
      BY DEF SerialInv, Whole
    <2>2. Serves(req[r])'
      BY <2>1 DEF Serves, Owners, Members, BlobsOf, TeamsOf
    <2>3. ASSUME NEW t \in Teams
          PROVE  Owned(req[r], t)' /\ Gone(t)'
      BY <2>1 DEF Whole, Owned, Owners, Gone, Members, Forming, Deleting
    <2>4. ASSUME NEW t \in Teams, NEW u \in Users
          PROVE  Mirrors(req[r], t, u)'
      BY <2>1 DEF Whole, Mirrors, Halfway, Unswept, Deleting
    <2> QED
      BY <2>2, <2>3, <2>4 DEF Whole
  <1> QED
    BY <1>1 DEF SerialInv

LEMMA InitIsWhole == Init => SerialInv
  <1> SUFFICES ASSUME Init PROVE SerialInv
    OBVIOUS
  <1>1. ASSUME NEW r \in Requests
        PROVE  Whole(req[r])
    <2>1. Serves(req[r])
      BY NoRequestServes DEF Init
    <2>2. ASSUME NEW t \in Teams
          PROVE  Owned(req[r], t) /\ Gone(t)
      BY DEF Init, InitTeams, Owned, Gone, Members
    <2>3. ASSUME NEW t \in Teams, NEW u \in Users
          PROVE  Mirrors(req[r], t, u)
      BY DEF Init, InitTeams, Mirrors
    <2> QED
      BY <2>1, <2>2, <2>3 DEF Whole
  <1> QED
    BY <1>1, InitHasBounds DEF SerialInv

LEMMA NextIsWhole ==
    ASSUME OneByOne, SerialInv, [Next]_vars
    PROVE  SerialInv'
  <1>1. BoundsInv' /\ aborts \in Nat
    BY NextKeepsBounds, SerialFacts DEF SerialInv, BoundsInv, BoundsKept, TeamInv
  <1>2. CASE \E r \in Requests : RequestStart(r)
    BY <1>1, <1>2, StartsAreWhole
  <1>3. CASE \E r \in Requests : RequestStep(r)
    <2>1. PICK r \in Requests : RequestStep(r)
      BY <1>3
    <2>2. CASE \/ CheckTarget(r) \/ CheckOwners(r) \/ CheckExisting(r) \/ CheckCapacity(r)
               \/ CheckInvite(r) \/ CheckTeam(r)
      BY <1>1, <2>2, ChecksAreWhole
    <2>3. CASE ReadAccount(r) \/ SaveAccount(r) \/ SaveIndex(r) \/ EraseIndex(r)
      BY <1>1, <2>3, AccountsAreWhole
    <2>4. CASE SaveTeam(r) \/ SaveMember(r) \/ SavePointer(r) \/ SaveInvite(r)
      BY <1>1, <2>4, SaveTeamIsWhole, SaveMemberIsWhole, SavePointerIsWhole, SaveInviteIsWhole
    <2>5. CASE EraseMember(r) \/ ErasePointer(r) \/ EraseInvite(r)
      BY <1>1, <2>5, EraseMemberIsWhole, ErasePointerIsWhole, EraseInviteIsWhole
    <2>6. CASE ListMembers(r) \/ ListBlobs(r) \/ DeleteNext(r) \/ Sweep(r)
      BY <1>1, <2>6, ListingsAreWhole, DeleteNextIsWhole, SweepIsWhole
    <2>7. CASE ListPointers(r) \/ ClearNext(r)
      BY <1>1, <2>7, ListPointersIsWhole, ClearNextIsWhole
    <2> QED
      BY <2>1, <2>2, <2>3, <2>4, <2>5, <2>6, <2>7 DEF RequestStep
  <1>4. CASE \E r \in Requests : Abort(r)
    BY <1>1, <1>4 DEF Abort, OneByOne
  <1>5. CASE \E k \in Tokens : Expire(k) /\ UNCHANGED <<req, counters>>
    BY <1>1, <1>5, StillIsWhole DEF Expire, counters
  <1>6. CASE UNCHANGED vars
    BY <1>1, <1>6, StillIsWhole DEF vars, teamVars, counters
  <1> QED
    BY <1>2, <1>3, <1>4, <1>5, <1>6 DEF Next, Step, AtRest

LEMMA TeamsAreWhole ==
    ASSUME OneByOne
    PROVE  Spec => []SerialInv
  <1>1. Init => SerialInv
    BY InitIsWhole
  <1>2. SerialInv /\ [Next]_vars => SerialInv'
    BY NextIsWhole
  <1> QED
    BY <1>1, <1>2, PTL DEF Spec

\* between two requests, nothing is half done
LEMMA QuiescentIsWhole ==
    ASSUME SerialInv, Quiescent, NEW t \in Teams
    PROVE  /\ team[t] => Owners(t) # {}
           /\ Gone(t)
           /\ \A u \in Users : \/ pointer[u][t] = member[t][u]
                               \/ u \in cleared /\ pointer[u][t] = Absent
  <1>1. PICK r \in Requests : TRUE
    BY RequestsAreFinite
  <1>2. req[r] = NoRequest /\ Whole(req[r])
    BY SerialFacts DEF Quiescent
  <1> QED
    BY <1>2 DEF Whole, Owned, Mirrors, Forming, Deleting, Halfway, Unswept, NoRequest

(***************************************************************************)
(* With one request at a time and none cut off, a team that exists has an  *)
(* owner whenever no request is under way, for any number of users and     *)
(* teams and however long the history: count_owners lets the last one      *)
(* neither leave nor step down (remove_member, change_member_role), an     *)
(* invite never lowers an owner (accept_invite), and a creation writes the *)
(* team before its owner, a deletion the members before the team.          *)
(***************************************************************************)
THEOREM TeamsKeepTheirOwners ==
    ASSUME OneByOne
    PROVE  Spec => []TeamsKeepAnOwner
  <1>1. SerialInv => TeamsKeepAnOwner
    BY QuiescentIsWhole DEF TeamsKeepAnOwner
  <1> QED
    BY <1>1, TeamsAreWhole, PTL

(***************************************************************************)
(* With one request at a time and none cut off, the copy of a membership   *)
(* under users/ agrees with the canonical record between two requests,     *)
(* but for users who have deleted their own blobs                          *)
(* (TeamMembershipRepository.save and delete, delete_team,                 *)
(* clear_user_data): the two-blob writes, the two-blob deletes and the     *)
(* sweep of the members listed beforehand leave no third outcome.          *)
(***************************************************************************)
THEOREM CopiesMirrorMemberships ==
    ASSUME OneByOne
    PROVE  Spec => []PointersMirrorMembers
  <1>1. SerialInv => PointersMirrorMembers
    BY QuiescentIsWhole DEF PointersMirrorMembers
  <1> QED
    BY <1>1, TeamsAreWhole, PTL

(***************************************************************************)
(* With one request at a time and none cut off, the hard delete of a team  *)
(* (TeamRepository.delete and the sweep of delete_team) leaves no member,  *)
(* no invite that can be accepted and no reverse pointer, and nothing that *)
(* comes later brings one back: no request writes under a team that is     *)
(* gone.                                                                   *)
(***************************************************************************)
THEOREM HardDeletesLeaveNothing ==
    ASSUME OneByOne
    PROVE  Spec => []DeletedTeamsLeaveNothing
  <1>1. ASSUME SerialInv, Quiescent, NEW t \in Teams, ~team[t]
        PROVE  /\ Members(t) = {}
               /\ \A u \in Users : pointer[u][t] = Absent
               /\ \A k \in Tokens : ByToken(k) = Absent \/ ByToken(k).team_id # t
    <2>1. Members(t) = {} /\ \A k \in Tokens : invite[k] # Absent => invite[k].team_id # t
      BY <1>1, QuiescentIsWhole DEF Gone
    <2>2. \A u \in Users : pointer[u][t] = Absent
      BY <1>1, <2>1, QuiescentIsWhole DEF Members
    <2>3. \A k \in Tokens : ByToken(k) = Absent \/ ByToken(k).team_id # t
      BY <2>1 DEF ByToken
    <2> QED
      BY <2>1, <2>2, <2>3
  <1>2. SerialInv => DeletedTeamsLeaveNothing
    BY <1>1 DEF DeletedTeamsLeaveNothing
  <1> QED
    BY <1>2, TeamsAreWhole, PTL
==============================================================================
