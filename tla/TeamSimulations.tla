--------------------------- MODULE TeamSimulations ---------------------------
(***************************************************************************)
(* One team's simulations and its token pool (app/routers/                 *)
(* team_simulations.py, app/repositories/team_resources.py, the            *)
(* TeamAccountRepository of app/repositories/team.py), up to and past the  *)
(* hard delete of the team (DELETE /teams/{tid}).  The routes mirror the   *)
(* personal ones and the worker is the same, so their steps are those of   *)
(* SimulationApi and SimulationWorker over the blobs of teams/{tid}/.      *)
(* What differs is who may ask: every route first reads the caller's       *)
(* membership, and what it read may be out of date when the route goes on. *)
(* TeamMembership has the life of the memberships themselves: a team has   *)
(* an owner until it is deleted, so here the roles stay as they are.       *)
(*                                                                         *)
(*   Enter -> create | retry | delete | view                               *)
(*   Enter, AdminEnter -> dissolve: dissolve_list [-> dissolve_account]    *)
(*            -> dissolve_members -> delete_next for every blob listed     *)
(***************************************************************************)
EXTENDS SimulationLifecycle

CONSTANTS
    Members             \* the members of the team

ASSUME TeamHasMembers == Members # {}

ASSUME NoTeamPoolIsUnlimited == UserRole = "member"

VARIABLES
    role,               \* role[u]: the role of teams/{tid}/members/{u}.json, or Absent
    pass,               \* pass[r]: the route whose role check request r has passed
    leaving,            \* leaving[r]: the memberships that dissolution r has listed
                        \* and not deleted yet
    condemned,          \* history: the simulations a delete has named
    resting,            \* history: resting[r], those nobody was handling when
                        \* dissolution r listed the blobs, nor has since
    gone                \* history: those of the dissolutions that ran to their end

teamVars == <<role, pass, leaving, condemned, resting, gone>>

TeamRoles == {"viewer", "editor", "owner"}

role_rank == [viewer |-> 0, editor |-> 1, owner |-> 2]

TeamRoutes == {"view", "create", "retry", "delete", "dissolve"}

\* the min_role of each route's require_team_role
MinRole == [view |-> "viewer", create |-> "editor", retry |-> "editor",
            delete |-> "editor", dissolve |-> "owner"]

TeamInit ==
    /\ Init
    /\ role \in [Members -> TeamRoles]
    /\ \E u \in Members : role[u] = "owner"
    /\ pass = [r \in Requests |-> "none"]
    /\ leaving = [r \in Requests |-> {}]
    /\ condemned = {}
    /\ resting = [r \in Requests |-> {}]
    /\ gone = {}
-----------------------------------------------------------------------------
Admit(r, route) ==
    /\ route \in Kinds
    /\ req[r] = NoRequest
    /\ pass[r] = "none"
    /\ requests < MaxRequests
    /\ pass' = [pass EXCEPT ![r] = route]
    /\ UNCHANGED <<vars, role, leaving, condemned, resting, gone>>

\* get_team_membership and require_team_role
Enter(r, u, route) ==
    /\ role[u] # Absent
    /\ role_rank[role[u]] >= role_rank[MinRole[route]]
    /\ Admit(r, route)

\* admin_delete_team asks for no membership, nor for a team
AdminEnter(r) == Admit(r, "dissolve")

\* the route past the check answers 404 or 409: no such motor, no such
\* simulation, or not a terminal one
Turned(r) ==
    /\ pass[r] # "none"
    /\ pass' = [pass EXCEPT ![r] = "none"]
    /\ UNCHANGED <<vars, role, leaving, condemned, resting, gone>>

Passed(r, route) ==
    /\ pass[r] = route
    /\ pass' = [pass EXCEPT ![r] = "none"]
    /\ UNCHANGED <<role, leaving, gone>>

Disturb(s) == resting' = [q \in Requests |-> resting[q] \ {s}]

\* request r, of this kind, takes a step of the personal route
Steps(r, kind, step) ==
    /\ req[r].kind = kind
    /\ step
    /\ UNCHANGED teamVars

create_team_simulation(r) ==
    \/ /\ Passed(r, "create")
       /\ \E s \in SimIds, e \in Estimates : CreateStart(r, s, e)
       /\ UNCHANGED <<condemned, resting>>
    \/ Steps(r, "create", CreateAdmit(r))
    \/ Steps(r, "create", Reject(r))
    \/ Steps(r, "create", CreateSaveConfig(r))
    \/ Steps(r, "create", CreateSaveStatus(r))
    \/ Steps(r, "create", CreateSaveCost(r))
    \/ Steps(r, "create", Trigger(r))

estimate_team_simulation(r) ==
    \/ Passed(r, "view") /\ ViewStart(r) /\ UNCHANGED <<condemned, resting>>
    \/ Steps(r, "view", ViewEnd(r))

retry_team_simulation(r) ==
    \/ /\ Passed(r, "retry")
       /\ \E s \in SimIds : RetryStart(r, s) /\ Disturb(s)
       /\ UNCHANGED condemned
    \/ Steps(r, "retry", RetryAdmit(r))
    \/ Steps(r, "retry", RetryDebit(r))
    \/ Steps(r, "retry", Reject(r))
    \/ Steps(r, "retry", RetrySaveCost(r))
    \/ Steps(r, "retry", AppendRead(r))
    \/ Steps(r, "retry", AppendWrite(r))
    \/ Steps(r, "retry", Trigger(r))

delete_team_simulation(r) ==
    \/ /\ Passed(r, "delete")
       /\ \E s \in SimIds :
             /\ DeleteStart(r, s)
             /\ condemned' = condemned \cup {s}
             /\ Disturb(s)
    \/ Steps(r, "delete", DeleteList(r))
    \/ Steps(r, "delete", DeleteNext(r))
-----------------------------------------------------------------------------
(***************************************************************************)
(* delete_team.  teams/{tid}/ is listed once; what is listed goes in the   *)
(* order account.json, members/, simulations/, and a blob that is gone     *)
(* already ends the request.  Nothing stops the workers.                   *)
(***************************************************************************)
DissolveStart(r) ==
    /\ Passed(r, "dissolve")
    /\ Accept(r, "dissolve", [NoRequest EXCEPT !.at = "dissolve_list", !.kind = "dissolve",
                                  !.sids = SimIds])
    /\ UNCHANGED <<storeVars, simVars, issued, condemned, resting>>

Handled(r, s) ==
    \/ queue[s] > 0
    \/ \E w \in Workers : job[w].sid = s
    \/ \E q \in Requests \ {r} : req[q].sid = s \/ s \in req[q].sids

\* a cascade over the simulations that list_summaries shows
DissolveListSummaries(r) ==
    /\ At(r, "dissolve_list")
    /\ req' = [req EXCEPT ![r].at = IF account = Absent THEN "dissolve_members"
                                    ELSE "dissolve_account",
                          ![r].doomed = BlobsUnder(Listed)]
    /\ leaving' = [leaving EXCEPT ![r] = {u \in Members : role[u] # Absent}]
    /\ condemned' = SimIds
    /\ resting' = [resting EXCEPT ![r] = {s \in issued : ~Handled(r, s)}]
    /\ UNCHANGED <<storeVars, simVars, apiCounters, role, pass, gone>>

DissolveList(r) ==
    /\ At(r, "dissolve_list")
    /\ req' = [req EXCEPT ![r].at = IF account = Absent THEN "dissolve_members"
                                    ELSE "dissolve_account",
                          ![r].doomed = BlobsUnder(SimIds)]
    /\ leaving' = [leaving EXCEPT ![r] = {u \in Members : role[u] # Absent}]
    /\ condemned' = SimIds
    /\ resting' = [resting EXCEPT ![r] = {s \in issued : ~Handled(r, s)}]
    /\ UNCHANGED <<storeVars, simVars, apiCounters, role, pass, gone>>

DissolveAccount(r) ==
    /\ At(r, "dissolve_account")
    /\ account' = Absent
    /\ IF account = Absent THEN Finish(r) ELSE Go(r, "dissolve_members") /\ UNCHANGED call
    /\ UNCHANGED <<month, simVars, apiCounters, teamVars>>

DissolveMember(r) ==
    /\ At(r, "dissolve_members")
    /\ \/ \E u \in leaving[r] :
             /\ leaving' = [leaving EXCEPT ![r] = IF role[u] = Absent THEN {} ELSE @ \ {u}]
             /\ role' = [role EXCEPT ![u] = Absent]
             /\ IF role[u] = Absent THEN Finish(r) ELSE UNCHANGED <<req, call>>
       \/ /\ leaving[r] = {}
          /\ Go(r, "delete_next")
          /\ UNCHANGED <<call, leaving, role>>
    /\ UNCHANGED <<account, month, simVars, apiCounters, pass,
                   condemned, resting, gone>>

DissolveBlobs(r) ==
    /\ req[r].kind = "dissolve"
    /\ DeleteNext(r)
    /\ gone' = IF req[r].doomed = {} THEN gone \cup resting[r] ELSE gone
    /\ resting' = IF req'[r] = NoRequest THEN [resting EXCEPT ![r] = {}] ELSE resting
    /\ UNCHANGED <<role, pass, leaving, condemned>>

delete_team(r) ==
    \/ DissolveStart(r) \/ DissolveList(r) \/ DissolveAccount(r)
    \/ DissolveMember(r) \/ DissolveBlobs(r)
-----------------------------------------------------------------------------
TeamAbort(r) ==
    /\ Abort(r)
    /\ leaving' = [leaving EXCEPT ![r] = {}]
    /\ resting' = [resting EXCEPT ![r] = {}]
    /\ UNCHANGED <<role, pass, condemned, gone>>

\* TeamAccountRepository's get_or_create, debit and credit: those of
\* AccountRepository, with defaults that no role lifts
PoolStep(c) ==
    /\ AccountStep(c)
    /\ UNCHANGED teamVars

\* run() with owner_kind "team"
TeamPushStep(w) ==
    /\ PushStep(w)
    /\ UNCHANGED teamVars

TeamRequestStep(r) ==
    /\ \/ create_team_simulation(r)
       \/ estimate_team_simulation(r)
       \/ retry_team_simulation(r)
       \/ delete_team_simulation(r)
       \/ delete_team(r)
       \/ TeamAbort(r)
    /\ UNCHANGED workerVars

TeamAtRest ==
    /\ AtRest
    /\ \A r \in Requests : pass[r] = "none"
    /\ UNCHANGED teamVars

TeamNext ==
    \/ \E r \in Requests, u \in Members, route \in TeamRoutes : Enter(r, u, route)
    \/ \E r \in Requests : AdminEnter(r) \/ Turned(r) \/ TeamRequestStep(r)
    \/ \E c \in Clients : PoolStep(c)
    \/ \E w \in Workers : TeamPushStep(w)
    \/ ClockStep /\ UNCHANGED teamVars
    \/ TeamAtRest

TeamSpec == TeamInit /\ [][TeamNext]_<<vars, teamVars>>
-----------------------------------------------------------------------------
(***************************************************************************)
(* A hard delete of the team leaves none of the runs that were at rest:    *)
(* when it has answered 204, no blob of a simulation that nobody was       *)
(* handling at the listing, and nobody has retried or deleted since, is    *)
(* left, half-submitted ones included.  (What a worker or a request of a   *)
(* member still handles may come back to life in the deleted team.)        *)
(***************************************************************************)
DissolvedTeamsKeepNoRestingRuns == BlobsUnder(gone) = {}

(***************************************************************************)
(* A message that a worker can receive names a simulation whose config,    *)
(* status and cost record are all stored, unless somebody has set about    *)
(* deleting it: publishing is the last step of a submission, whatever part *)
(* of it is cut off, so no run of a team goes without a record of its      *)
(* charge to the pool.                                                     *)
(***************************************************************************)
TeamDispatchesAreComplete ==
    \A s \in SimIds \ condemned :
        queue[s] > 0 \/ (\E w \in Workers : job[w].sid = s) =>
            config[s] # Absent /\ trail[s] # Absent /\ cost[s] # Absent

(***************************************************************************)
(* An active run blocks every member's submissions (409), so somebody has  *)
(* to be about to move it on: a message for it is queued, a worker has it, *)
(* or the request that will publish it is under way.  Only a submission    *)
(* that was cut off can leave one stranded, and each at most one, whatever *)
(* deletes, dissolution, storage failures and failing workers do.          *)
(***************************************************************************)
Stranded ==
    {s \in Active :
        /\ queue[s] = 0
        /\ \A w \in Workers : job[w].sid # s
        /\ \A r \in Requests : req[r].sid # s}

OnlyCutOffSubmissionsStrand == Cardinality(Stranded) <= aborts
==============================================================================
