-------------------------- MODULE UserAdministration --------------------------
(***************************************************************************)
(* Firebase users beside what this program stores about one of them        *)
(* (app/routers/users.py, app/routers/usage.py, app/auth/rbac.py).         *)
(* A role lives in three places, none of which is updated together: the    *)
(* claim that Firebase keeps, the ID tokens that were issued with it and   *)
(* stay valid until they expire, and the caps in account.json.  A request  *)
(* is authorised by the token it carries, never by the claim.              *)
(*                                                                         *)
(* set_role:   set_claims, then the account call reset_to_role_defaults    *)
(* limits:     the account calls get_or_create, update_limits              *)
(* lookup:     get_or_create (GET /admin/users/{uid}/account)              *)
(* disable:    update_user                                                 *)
(* delete:     the wipe of MotorCatalogue, then delete_user                *)
(* clear:      the wipe alone                                              *)
(* view:       get_or_create (GET /me/account, GET /me/usage)              *)
(* motors:     the requests of MotorCatalogue                              *)
(* submit:     the account calls get_or_create, debit, of a submission or  *)
(*             a retry (app/routers/simulations.py)                        *)
(* charge:     debit or credit, of a worker (app/worker/run.py), which     *)
(*             carries no token                                            *)
(***************************************************************************)
EXTENDS MotorCatalogue

CONSTANTS
    Users,          \* Firebase user ids
    Subject,        \* the user whose storage is modelled
    Overrides,      \* the overrides of caps that administrators make
    Amounts,        \* the tokens that simulations are charged and refunded
    MaxRequests     \* bound: how many requests are accepted

ASSUME SubjectAssumption == Subject \in Users

ASSUME AbsentIsNoRole == Absent \notin Roles

ASSUME OverridesAssumption == Overrides \subseteq CapUpdates

ASSUME AmountsAssumption == Amounts \subseteq Nat

\* what simulations do to the account
Charges == {Debit(tokens) : tokens \in Amounts} \cup {Credit(tokens) : tokens \in Amounts}

ASSUME AdministrationOperations ==
    Operations =
        {GetOrCreate(role) : role \in Roles} \cup {ResetToRole(role) : role \in Roles}
            \cup {UpdateLimits(updates) : updates \in Overrides} \cup Charges

VARIABLES
    claim,          \* claim[u]: the role that Firebase has for u, Absent once deleted
    disabled,       \* disabled[u]: u can neither sign in nor refresh a token
    outlived,       \* outlived[u]: the roles on unexpired tokens from before u was
                    \* given another role, disabled or deleted
    task,           \* task[r]: what request r is for
    faithful,       \* history: nothing has taken the caps apart from the claim
    disturbed,      \* history: something ran beside a deletion, or after it
    requests        \* history: for MaxRequests

vars == <<motorVars, claim, disabled, outlived, task, faithful, disturbed, requests>>

users == <<claim, disabled, outlived>>

NoTask == [kind |-> "none", actor |-> Absent, target |-> Absent, to |-> Absent, alone |-> FALSE]

Task(kind, actor, target, to) ==
    [kind |-> kind, actor |-> actor, target |-> target, to |-> to, alone |-> TRUE]

Deletions == {"delete", "delete_account"}

Busy == {r \in Requests : task[r] # NoTask}

Deleting == {r \in Busy : task[r].kind \in Deletions /\ task[r].target = Subject}

Administrators == {u \in Users : claim[u] = "admin" /\ ~disabled[u]}

Init ==
    /\ InitMotors
    /\ claim \in [Users -> Roles]
    /\ disabled = [u \in Users |-> FALSE]
    /\ outlived = [u \in Users |-> {}]
    /\ task = [r \in Requests |-> NoTask]
    /\ faithful = TRUE
    /\ disturbed = FALSE
    /\ requests = 0
-----------------------------------------------------------------------------
(***************************************************************************)
(* Tokens.  Whoever may sign in gets one that says the claim.  Neither a   *)
(* new claim nor disabling nor deleting the user takes a token back        *)
(* (verify_id_token is called with check_revoked=False): it is good until  *)
(* it expires.                                                             *)
(***************************************************************************)
NewTokens(u) == IF claim[u] # Absent /\ ~disabled[u] THEN {claim[u]} ELSE {}

Tokens(u) == outlived[u] \cup NewTokens(u)

Outlive(u) == outlived' = [outlived EXCEPT ![u] = Tokens(u)]

ExpireToken(u, role) ==
    /\ role \in outlived[u]
    /\ outlived' = [outlived EXCEPT ![u] = @ \ {role}]
    /\ UNCHANGED <<motorVars, claim, disabled, task, faithful, disturbed, requests>>

(***************************************************************************)
(* A request begins.  What is under way beside it no longer runs alone.    *)
(***************************************************************************)
Arrive(r, new) ==
    /\ requests' = requests + 1
    /\ task[r] = NoTask
    /\ task' = [q \in Requests |->
                  IF q = r THEN [new EXCEPT !.alone = Busy = {}]
                  ELSE IF q \in Busy THEN [task[q] EXCEPT !.alone = FALSE] ELSE NoTask]
    /\ disturbed' =
          IF new.kind \in Deletions /\ new.target = Subject
          THEN Busy # {} \/ claim[Subject] = Absent
          ELSE \/ disturbed
               \/ Deleting # {}
               \/ claim[Subject] = Absent /\ new.actor = Subject /\ new.kind # "charge"

Leave(r) == task' = [task EXCEPT ![r] = NoTask]

\* require_role("admin")
ActsAsAdmin(actor) == "admin" \in Tokens(actor)

\* _target_role: any failure to look the user up makes a member of it
TargetRoles == {"member"} \cup ({claim[Subject]} \cap Roles)
-----------------------------------------------------------------------------
(***************************************************************************)
(* PUT /admin/users/{uid}/role: the claim first, the caps after.           *)
(***************************************************************************)
\* a role change that does not look at who asks for it
SetRoleStartUnchecked(r, actor, u, role) ==
    /\ ActsAsAdmin(actor)
    /\ claim[u] # Absent
    /\ Arrive(r, Task("set_role", actor, u, role))
    /\ faithful' = (faithful /\ u # Subject)
    /\ UNCHANGED <<motorVars, users>>

SetRoleStart(r, actor, u, role) ==
    /\ ActsAsAdmin(actor)
    /\ actor = u => role = "admin"
    /\ claim[u] # Absent
    /\ Arrive(r, Task("set_role", actor, u, role))
    /\ faithful' = (faithful /\ u # Subject)
    /\ UNCHANGED <<motorVars, users>>

\* a role change that leaves the account as it is
SetClaimsOnly(r) ==
    /\ task[r].kind = "set_role"
    /\ req[r] = NoRequest
    /\ claim' = [claim EXCEPT ![task[r].target] = IF @ = Absent THEN Absent ELSE task[r].to]
    /\ Leave(r)
    /\ Outlive(task[r].target)
    /\ faithful' = (faithful \/ task[r].alone)
    /\ UNCHANGED <<motorVars, disabled, disturbed, requests>>

\* set_custom_user_claims raises for a user that has gone
SetClaims(r) ==
    /\ task[r].kind = "set_role"
    /\ req[r] = NoRequest
    /\ \/ /\ claim[task[r].target] = Absent
          /\ Leave(r)
          /\ UNCHANGED <<motorVars, claim>>
       \/ /\ claim[task[r].target] # Absent
          /\ claim' = [claim EXCEPT ![task[r].target] = task[r].to]
          /\ IF task[r].target = Subject
             THEN AccountStart(r, ResetToRole(task[r].to)) /\ UNCHANGED task
             ELSE Leave(r) /\ UNCHANGED motorVars
    /\ Outlive(task[r].target)
    /\ UNCHANGED <<disabled, faithful, disturbed, requests>>

\* PUT /admin/users/{uid}/disabled
DisableStart(r, actor, u, disable) ==
    /\ ActsAsAdmin(actor)
    /\ disable => actor # u
    /\ Arrive(r, Task("disable", actor, u, disable))
    /\ UNCHANGED <<motorVars, users, faithful>>

UpdateUser(r) ==
    /\ task[r].kind = "disable"
    /\ disabled' =
          [disabled EXCEPT ![task[r].target] = task[r].to /\ claim[task[r].target] # Absent]
    /\ Outlive(task[r].target)
    /\ Leave(r)
    /\ UNCHANGED <<motorVars, claim, faithful, disturbed, requests>>
-----------------------------------------------------------------------------
(***************************************************************************)
(* The account as administrators see and override it, and as the user sees *)
(* it.                                                                     *)
(***************************************************************************)
LookUp(r, actor, role) ==
    /\ ActsAsAdmin(actor)
    /\ Arrive(r, Task("lookup", actor, Subject, Absent))
    /\ AccountStart(r, GetOrCreate(role))
    /\ faithful' = (faithful /\ role = claim[Subject])
    /\ UNCHANGED users

LimitsStart(r, actor, role, updates) ==
    /\ ActsAsAdmin(actor)
    /\ Arrive(r, Task("limits", actor, Subject, updates))
    /\ AccountStart(r, GetOrCreate(role))
    /\ faithful' = FALSE
    /\ UNCHANGED users

LimitsUpdate(r) ==
    /\ task[r].kind = "limits"
    /\ call[r].op.name = "get_or_create"
    /\ AccountNext(r, UpdateLimits(task[r].to))
    /\ UNCHANGED <<users, task, faithful, disturbed, requests>>

View(r, role) ==
    /\ role \in Tokens(Subject)
    /\ Arrive(r, Task("view", Subject, Subject, Absent))
    /\ AccountStart(r, GetOrCreate(role))
    /\ faithful' = (faithful /\ role = claim[Subject])
    /\ UNCHANGED users

\* a submission may also be refused between its two account calls
Submit(r, role, tokens) ==
    /\ role \in Tokens(Subject)
    /\ Arrive(r, Task("submit", Subject, Subject, tokens))
    /\ AccountStart(r, GetOrCreate(role))
    /\ faithful' = (faithful /\ role = claim[Subject])
    /\ UNCHANGED users

SubmitDebit(r) ==
    /\ task[r].kind = "submit"
    /\ call[r].op.name = "get_or_create"
    /\ AccountNext(r, Debit(task[r].to))
    /\ UNCHANGED <<users, task, faithful, disturbed, requests>>

\* a worker knows the user id alone, and outlives the user
Charge(r, op) ==
    /\ Arrive(r, Task("charge", Subject, Subject, Absent))
    /\ AccountStart(r, op)
    /\ UNCHANGED <<users, faithful>>

\* the last account call of a handler has returned, or a debit was rejected
Answer(r) ==
    /\ task[r].kind = "limits" => call[r].op.name = "update_limits"
    /\ AccountEnd(r)
    /\ Leave(r)
    /\ faithful' = (faithful \/ (task[r].kind = "set_role" /\ task[r].alone))
    /\ UNCHANGED <<users, disturbed, requests>>
-----------------------------------------------------------------------------
(***************************************************************************)
(* The user's motors, with the role that the token says.                   *)
(***************************************************************************)
CreateMotor(r, role) ==
    /\ role \in Tokens(Subject)
    /\ Arrive(r, Task("create", Subject, Subject, Absent))
    /\ CreateStart(r, role)
    /\ faithful' = (faithful /\ role = claim[Subject])
    /\ UNCHANGED users

ChangeMotor(r, m) ==
    /\ Tokens(Subject) # {}
    /\ Arrive(r, Task("change", Subject, Subject, Absent))
    /\ UpdateStart(r, m) \/ DeleteStart(r, m)
    /\ UNCHANGED <<users, faithful>>

ClearMotors(r, actor) ==
    /\ ActsAsAdmin(actor)
    /\ Arrive(r, Task("clear_all", actor, Subject, Absent))
    /\ ClearStart(r)
    /\ UNCHANGED <<users, faithful>>
-----------------------------------------------------------------------------
(***************************************************************************)
(* DELETE /users/{uid}/clear, DELETE /users/{uid} and DELETE               *)
(* /admin/users/{uid}: what is stored goes first, the Firebase user last,  *)
(* so that a deletion that is cut off can be asked for again.              *)
(***************************************************************************)
ClearAccount(r) ==
    /\ Tokens(Subject) # {}
    /\ Arrive(r, Task("clear", Subject, Subject, Absent))
    /\ WipeStart(r)
    /\ UNCHANGED <<users, faithful>>

Cleared(r) ==
    /\ task[r].kind = "clear"
    /\ WipeEnd(r)
    /\ Leave(r)
    /\ faithful' = (faithful \/ task[r].alone)
    /\ UNCHANGED <<users, disturbed, requests>>

\* only the storage of one user is modelled
WipeOf(r, u) == IF u = Subject THEN WipeStart(r) ELSE UNCHANGED motorVars

\* a deletion that begins with the Firebase user
DeleteAccountUserFirst(r, u) ==
    /\ Tokens(u) # {}
    /\ Arrive(r, Task("delete_account", u, u, Absent))
    /\ WipeOf(r, u)
    /\ claim' = [claim EXCEPT ![u] = Absent]
    /\ Outlive(u)
    /\ UNCHANGED <<disabled, faithful>>

DeleteAccount(r, u) ==
    /\ Tokens(u) # {}
    /\ Arrive(r, Task("delete_account", u, u, Absent))
    /\ WipeOf(r, u)
    /\ UNCHANGED <<users, faithful>>

AdminDeleteUser(r, actor, u) ==
    /\ ActsAsAdmin(actor)
    /\ actor # u
    /\ claim[u] # Absent
    /\ Arrive(r, Task("delete", actor, u, Absent))
    /\ WipeOf(r, u)
    /\ UNCHANGED <<users, faithful>>

DeleteUser(r) ==
    /\ task[r].kind \in Deletions
    /\ IF task[r].target = Subject THEN WipeEnd(r) ELSE UNCHANGED motorVars
    /\ claim' = [claim EXCEPT ![task[r].target] = Absent]
    /\ disabled' = [disabled EXCEPT ![task[r].target] = FALSE]
    /\ Outlive(task[r].target)
    /\ Leave(r)
    /\ UNCHANGED <<faithful, disturbed, requests>>
-----------------------------------------------------------------------------
\* debit and credit call get_or_create without a role: an account that they
\* find missing becomes a member's
SeedsAsMember(r) ==
    /\ call[r].at = "read"
    /\ call[r].op.name \in {"debit", "credit"}
    /\ account = Absent
    /\ claim[Subject] # "member"

\* the steps that MotorCatalogue takes within a request
MotorStep(r) ==
    /\ CreateAdmit(r) \/ SaveMotor(r) \/ ListPrefix(r) \/ WipeAccount(r) \/ AccountStep(r)
          \/ DeleteNext(r)
    /\ task' = [task EXCEPT ![r] = IF req'[r] = NoRequest THEN NoTask ELSE @]
    /\ faithful' = (faithful /\ ~SeedsAsMember(r))
    /\ UNCHANGED <<users, disturbed, requests>>

\* the instance dies, the client goes away, Firebase or the blob store raises
CutOff(r) ==
    /\ task[r] # NoTask
    /\ Abort(r) \/ (req[r] = NoRequest /\ UNCHANGED motorVars)
    /\ Leave(r)
    /\ UNCHANGED <<users, faithful, disturbed, requests>>

MonthStep == NextMonth /\ UNCHANGED <<users, task, faithful, disturbed, requests>>

RequestStart(r) ==
    /\ requests < MaxRequests
    /\ \/ \E actor, u \in Users :
             \/ \E role \in Roles : SetRoleStart(r, actor, u, role)
             \/ \E disable \in BOOLEAN : DisableStart(r, actor, u, disable)
             \/ AdminDeleteUser(r, actor, u)
       \/ \E actor \in Users :
             \/ \E role \in TargetRoles :
                   LookUp(r, actor, role) \/ \E updates \in Overrides : LimitsStart(r, actor, role, updates)
             \/ ClearMotors(r, actor)
             \/ DeleteAccount(r, actor)
       \/ \E role \in Roles :
             View(r, role) \/ CreateMotor(r, role) \/ \E tokens \in Amounts : Submit(r, role, tokens)
       \/ \E op \in Charges : Charge(r, op)
       \/ \E m \in MotorIds : ChangeMotor(r, m)
       \/ ClearAccount(r)

RequestStep(r) ==
    \/ SetClaims(r) \/ UpdateUser(r) \/ LimitsUpdate(r) \/ SubmitDebit(r) \/ Answer(r)
    \/ Cleared(r) \/ DeleteUser(r) \/ MotorStep(r) \/ CutOff(r)

\* the requests that the bound allows are all answered
AtRest ==
    /\ Busy = {}
    /\ UNCHANGED vars

Next ==
    \/ \E r \in Requests : RequestStart(r) \/ RequestStep(r)
    \/ \E u \in Users, role \in Roles : ExpireToken(u, role)
    \/ MonthStep
    \/ AtRest

Spec == Init /\ [][Next]_vars
-----------------------------------------------------------------------------
(***************************************************************************)
(* Types.                                                                  *)
(***************************************************************************)
Aims(kind) ==
    CASE kind = "set_role" -> Roles
      [] kind = "disable"  -> BOOLEAN
      [] kind = "limits"   -> Overrides
      [] kind = "submit"   -> Amounts
      [] OTHER -> {Absent}

TaskType(kind) ==
    [kind : {kind} \ {"none"}, actor : Users, target : Users, to : Aims(kind), alone : BOOLEAN]

UserTypeOK ==
    /\ MotorTypeOK
    /\ claim \in [Users -> Roles \cup {Absent}]
    /\ disabled \in [Users -> BOOLEAN]
    /\ outlived \in [Users -> SUBSET Roles]
    /\ task = [r \in Requests |-> task[r]]
    /\ \A r \in Requests :
          \/ task[r] = NoTask /\ req[r] = NoRequest
          \/ task[r] \in TaskType(task[r].kind)

(***************************************************************************)
(* "So storage stays consistent with the claim" (admin_set_role): the caps *)
(* in account.json are those of the role that Firebase has, from the end   *)
(* of a role change that had nothing beside it, or of a clear of the       *)
(* account that had, until one of four things takes them apart: another    *)
(* role change begins; an override begins; a token or a failed lookup that *)
(* says another role than the claim is used; or a debit or a credit (a     *)
(* submission's, or a worker's overage or refund) finds no account and     *)
(* seeds a member's for a user whose claim is another role, as debit and   *)
(* credit call get_or_create without a role.  Views, lookups, creations,   *)
(* charges, rolls of the month and wipes otherwise keep them together,     *)
(* however they overlap or are cut off.                                    *)
(***************************************************************************)
CapsFollowClaim ==
    faithful /\ account # Absent /\ claim[Subject] # Absent =>
        account = WithRoleCaps(account, claim[Subject])

(***************************************************************************)
(* "Permanently delete a user's Firebase account and all of their GCS      *)
(* data": a user that Firebase no longer has left no motor behind, however *)
(* often the deletion was cut off and begun again, unless another request  *)
(* ran beside the deletion or used a token that outlived the user          *)
(* (delete_account, admin_delete_user).                                    *)
(***************************************************************************)
DeletedUsersKeepNoMotors ==
    claim[Subject] = Absent /\ ~disturbed => motors = {}

(***************************************************************************)
(* "Admins cannot demote themselves", disable or delete themselves through *)
(* the admin endpoints: the last administrator goes only by deleting the   *)
(* own account, or through somebody who has stopped being an administrator *)
(* while his token or his request was still good.                          *)
(***************************************************************************)
LastAdministratorStands ==
    [][Administrators # {} /\ Administrators' = {} =>
          \E r \in Busy :
             /\ Administrators = {task[r].target}
             /\ \/ task[r].kind = "delete_account"
                \/ /\ task[r].kind \in {"set_role", "disable", "delete"}
                   /\ task[r].actor \notin Administrators]_vars
==============================================================================
