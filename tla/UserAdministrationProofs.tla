---------------------- MODULE UserAdministrationProofs ----------------------
(***************************************************************************)
(* Proofs about UserAdministration: types, that every request of a user or *)
(* of an administrator takes the steps of MotorCatalogue, which gives the  *)
(* bound proved there, that an undisturbed deletion leaves no motor, that  *)
(* the last administrator is safe from the others, and that the stored     *)
(* caps follow the claim.                                                  *)
(***************************************************************************)
EXTENDS UserAdministration, MotorCatalogueProofs

\* a request that does not touch what is stored
Away(t) == t.kind = "disable" \/ (t.kind \in Deletions /\ t.target # Subject)

\* the part of UserTypeOK that is about this module's own variables
TasksOK ==
    /\ claim \in [Users -> Roles \cup {Absent}]
    /\ disabled \in [Users -> BOOLEAN]
    /\ outlived \in [Users -> SUBSET Roles]
    /\ task = [r \in Requests |-> task[r]]
    /\ \A r \in Requests :
          \/ task[r] = NoTask /\ req[r] = NoRequest
          \/ task[r] \in TaskType(task[r].kind)
    /\ \A r \in Requests : Away(task[r]) => req[r] = NoRequest

LEMMA RolesOfTokens ==
    ASSUME TasksOK, NEW u \in Users
    PROVE  Tokens(u) \subseteq Roles /\ TargetRoles \subseteq Roles
  BY DEF TasksOK, Tokens, NewTokens, TargetRoles, Roles

LEMMA OutliveType ==
    ASSUME TasksOK, NEW u \in Users, Outlive(u)
    PROVE  outlived' \in [Users -> SUBSET Roles]
  BY RolesOfTokens DEF TasksOK, Outlive

LEMMA KnownOperations ==
    /\ \A role \in Roles : GetOrCreate(role) \in Operations /\ ResetToRole(role) \in Operations
    /\ \A updates \in Overrides : UpdateLimits(updates) \in Operations
    /\ \A tokens \in Amounts : Debit(tokens) \in Operations
    /\ Charges \subseteq Operations
  BY AdministrationOperations DEF Charges

LEMMA NewTask ==
    ASSUME NEW kind, kind # "none", NEW actor \in Users, NEW u \in Users, NEW to \in Aims(kind)
    PROVE  Task(kind, actor, u, to) \in TaskType(kind) /\ Task(kind, actor, u, to).kind = kind
  BY DEF Task, TaskType

LEMMA NoTaskKind == NoTask.kind = "none" /\ \A kind : NoTask \notin TaskType(kind)
  BY DEF NoTask, TaskType

\* an arrival gives request r its task and marks the others
LEMMA ArriveTasks ==
    ASSUME TasksOK, NEW r \in Requests, NEW kind, NEW new \in TaskType(kind), new.kind = kind,
           Arrive(r, new), \A q \in Requests : q = r \/ req'[q] = req[q],
           Away(new) => req'[r] = NoRequest,
           UNCHANGED users
    PROVE  TasksOK'
  <1>1. task' = [q \in Requests |->
                   IF q = r THEN [new EXCEPT !.alone = Busy = {}]
                   ELSE IF q \in Busy THEN [task[q] EXCEPT !.alone = FALSE] ELSE NoTask]
    BY DEF Arrive
  <1>2. task' = [q \in Requests |-> task'[q]]
    BY <1>1
  <1>3. ASSUME NEW q \in Requests
        PROVE  \/ task'[q] = NoTask /\ req'[q] = NoRequest
               \/ task'[q] \in TaskType(task'[q].kind) /\ (Away(task'[q]) => req'[q] = NoRequest)
    <2>1. CASE q = r
      <3>1. task'[q] = [new EXCEPT !.alone = Busy = {}]
        BY <1>1, <2>1
      <3>2. task'[q] \in TaskType(kind) /\ task'[q].kind = kind /\ task'[q].target = new.target
        BY <3>1 DEF TaskType
      <3> QED
        BY <2>1, <3>2 DEF Away
    <2>2. CASE q # r /\ q \in Busy
      <3>1. task'[q] = [task[q] EXCEPT !.alone = FALSE]
        BY <1>1, <2>2
      <3>2. task[q] \in TaskType(task[q].kind)
        BY <2>2 DEF TasksOK, Busy
      <3>3. /\ task'[q] \in TaskType(task[q].kind) /\ task'[q].kind = task[q].kind
            /\ task'[q].target = task[q].target
        BY <3>1, <3>2 DEF TaskType
      <3>4. Away(task[q]) => req[q] = NoRequest
        BY DEF TasksOK
      <3> QED
        BY <2>2, <3>3, <3>4 DEF Away
    <2>3. CASE q # r /\ q \notin Busy
      BY <1>1, <2>3 DEF TasksOK, Busy
    <2> QED
      BY <2>1, <2>2, <2>3
  <1> QED
    BY <1>2, <1>3, NoTaskKind DEF TasksOK, users, Away, Deletions

\* request r is done, or goes on as it is
LEMMA LeaveTasks ==
    ASSUME TasksOK, NEW r \in Requests,
           \A q \in Requests : q = r \/ (task'[q] = task[q] /\ req'[q] = req[q]),
           \/ task'[r] = NoTask /\ req'[r] = NoRequest
           \/ task'[r] = task[r] /\ (task[r] = NoTask \/ Away(task[r]) => req'[r] = req[r]),
           task' = [q \in Requests |-> task'[q]],
           claim' \in [Users -> Roles \cup {Absent}],
           disabled' \in [Users -> BOOLEAN],
           outlived' \in [Users -> SUBSET Roles]
    PROVE  TasksOK'
  BY NoTaskKind DEF TasksOK, Away, Deletions
-----------------------------------------------------------------------------
LEMMA StartsRefine ==
    ASSUME TasksOK, NEW r \in Requests, RequestStart(r)
    PROVE  [MotorNext]_motorVars
  <1>1. ASSUME NEW actor \in Users, NEW u \in Users, NEW role \in Roles,
               SetRoleStart(r, actor, u, role)
        PROVE  [MotorNext]_motorVars
    BY <1>1 DEF SetRoleStart
  <1>2. ASSUME NEW actor \in Users, NEW u \in Users, NEW disable \in BOOLEAN,
               DisableStart(r, actor, u, disable)
        PROVE  [MotorNext]_motorVars
    BY <1>2 DEF DisableStart
  <1>3. ASSUME NEW actor \in Users, NEW u \in Users,
               AdminDeleteUser(r, actor, u) \/ DeleteAccount(r, u)
        PROVE  [MotorNext]_motorVars
    BY <1>3 DEF AdminDeleteUser, DeleteAccount, WipeOf, MotorNext
  <1>4. ASSUME NEW actor \in Users, NEW role \in TargetRoles,
               LookUp(r, actor, role) \/ \E updates \in Overrides : LimitsStart(r, actor, role, updates)
        PROVE  [MotorNext]_motorVars
    <2>1. AccountStart(r, GetOrCreate(role))
      BY <1>4 DEF LookUp, LimitsStart
    <2>2. GetOrCreate(role) \in Operations
      BY SubjectAssumption, RolesOfTokens, KnownOperations
    <2> QED
      BY <2>1, <2>2 DEF MotorNext
  <1>5. ASSUME NEW actor \in Users, ClearMotors(r, actor)
        PROVE  [MotorNext]_motorVars
    BY <1>5 DEF ClearMotors, MotorNext
  <1>6. ASSUME NEW role \in Roles,
               View(r, role) \/ CreateMotor(r, role) \/ \E tokens \in Amounts : Submit(r, role, tokens)
        PROVE  [MotorNext]_motorVars
    BY <1>6, KnownOperations DEF View, CreateMotor, Submit, MotorNext
  <1>7. ASSUME NEW m \in MotorIds, ChangeMotor(r, m)
        PROVE  [MotorNext]_motorVars
    BY <1>7 DEF ChangeMotor, MotorNext
  <1>8. CASE ClearAccount(r)
    BY <1>8 DEF ClearAccount, MotorNext
  <1>9. ASSUME NEW op \in Charges, Charge(r, op)
        PROVE  [MotorNext]_motorVars
    BY <1>9, KnownOperations DEF Charge, MotorNext
  <1> QED
    BY <1>1, <1>2, <1>3, <1>4, <1>5, <1>6, <1>7, <1>8, <1>9 DEF RequestStart

\* what a request is for, when it is past its start
LEMMA AimOfTask ==
    ASSUME TasksOK, NEW r \in Requests
    PROVE  /\ task[r].kind \in {"set_role", "disable", "limits"} \cup Deletions =>
                 task[r].target \in Users /\ task[r] # NoTask
           /\ task[r].kind = "set_role" => task[r].to \in Roles
           /\ task[r].kind = "disable" => task[r].to \in BOOLEAN
           /\ task[r].kind = "limits" => task[r].to \in Overrides
           /\ task[r].kind = "submit" => task[r].to \in Amounts
  <1>1. CASE task[r] = NoTask
    BY <1>1, NoTaskKind DEF Deletions
  <1>2. CASE task[r] \in TaskType(task[r].kind)
    BY <1>2, NoTaskKind DEF TaskType, Aims
  <1> QED
    BY <1>1, <1>2 DEF TasksOK

LEMMA StepsRefine ==
    ASSUME TasksOK, NEW r \in Requests, RequestStep(r)
    PROVE  [MotorNext]_motorVars
  <1>1. CASE SetClaims(r)
    <2>1. task[r].to \in Roles
      BY <1>1, AimOfTask DEF SetClaims
    <2> QED
      BY <1>1, <2>1, KnownOperations DEF SetClaims, MotorNext
  <1>2. CASE UpdateUser(r)
    BY <1>2 DEF UpdateUser
  <1>3. CASE LimitsUpdate(r) \/ SubmitDebit(r)
    BY <1>3, AimOfTask, KnownOperations DEF LimitsUpdate, SubmitDebit, MotorNext
  <1>4. CASE Answer(r) \/ Cleared(r) \/ DeleteUser(r)
    BY <1>4 DEF Answer, Cleared, DeleteUser, MotorNext
  <1>5. CASE MotorStep(r)
    BY <1>5 DEF MotorStep, MotorNext
  <1>6. CASE CutOff(r)
    BY <1>6 DEF CutOff, MotorNext
  <1> QED
    BY <1>1, <1>2, <1>3, <1>4, <1>5, <1>6 DEF RequestStep

LEMMA NextRefines ==
    ASSUME TasksOK, [Next]_vars
    PROVE  [MotorNext]_motorVars
  <1>1. CASE \E u \in Users, role \in Roles : ExpireToken(u, role)
    BY <1>1 DEF ExpireToken
  <1>2. CASE MonthStep
    BY <1>2 DEF MonthStep, MotorNext
  <1>3. CASE AtRest \/ UNCHANGED vars
    BY <1>3 DEF AtRest, vars
  <1> QED
    BY <1>1, <1>2, <1>3, StartsRefine, StepsRefine DEF Next
-----------------------------------------------------------------------------
\* every action of one request leaves what the others remember alone
LEMMA OthersStay ==
    ASSUME MotorTypeOK, NEW r \in Requests,
           \/ \E role \in Roles : CreateStart(r, role)
           \/ \E m : UpdateStart(r, m) \/ DeleteStart(r, m)
           \/ ClearStart(r) \/ WipeStart(r)
           \/ \E op : AccountStart(r, op) \/ AccountNext(r, op)
           \/ CreateAdmit(r) \/ SaveMotor(r)
           \/ ListPrefix(r) \/ WipeAccount(r) \/ DeleteNext(r) \/ WipeEnd(r)
           \/ AccountEnd(r) \/ AccountStep(r) \/ Abort(r)
           \/ UNCHANGED motorVars
    PROVE  \A q \in Requests : q = r \/ req'[q] = req[q]
  <1>1. req \in [Requests -> RequestType]
    BY DEF MotorTypeOK
  <1>2. CASE \/ \E role \in Roles : CreateStart(r, role)
             \/ \E m : UpdateStart(r, m) \/ DeleteStart(r, m)
             \/ ClearStart(r) \/ WipeStart(r)
             \/ \E op : AccountStart(r, op) \/ AccountNext(r, op)
    BY <1>1, <1>2 DEF CreateStart, UpdateStart, DeleteStart, ClearStart, WipeStart,
                      AccountStart, AccountNext, Accept
  <1>3. CASE CreateAdmit(r) \/ SaveMotor(r) \/ ListPrefix(r) \/ WipeAccount(r) \/ DeleteNext(r)
    BY <1>1, <1>3 DEF CreateAdmit, SaveMotor, ListPrefix, WipeAccount, DeleteNext, Finish, Go
  <1>4. CASE \/ WipeEnd(r) \/ AccountEnd(r) \/ AccountStep(r) \/ Abort(r) \/ UNCHANGED motorVars
    BY <1>1, <1>4 DEF WipeEnd, AccountEnd, AccountStep, Abort, Finish, motorVars
  <1> QED
    BY <1>2, <1>3, <1>4

LEMMA StartTasks ==
    ASSUME MotorTypeOK, TasksOK, NEW r \in Requests, RequestStart(r)
    PROVE  TasksOK'
  <1>1. ASSUME NEW kind, kind # "none", NEW actor \in Users, NEW u \in Users, NEW to \in Aims(kind),
               Arrive(r, Task(kind, actor, u, to)), UNCHANGED users,
               \/ kind \notin {"disable"} \cup Deletions
               \/ u = Subject /\ kind # "disable"
               \/ req' = req,
               \A q \in Requests : q = r \/ req'[q] = req[q]
        PROVE  TasksOK'
    <2>1. Task(kind, actor, u, to) \in TaskType(kind) /\ Task(kind, actor, u, to).kind = kind
      BY <1>1, NewTask
    <2>2. req[r] = NoRequest
      BY <1>1, NoTaskKind DEF Arrive, TasksOK
    <2>3. Away(Task(kind, actor, u, to)) => req'[r] = NoRequest
      BY <1>1, <2>2 DEF Away, Task
    <2> QED
      BY <1>1, <2>1, <2>3, ArriveTasks
  <1>2. ASSUME NEW actor \in Users, NEW u \in Users, NEW role \in Roles,
               SetRoleStart(r, actor, u, role)
        PROVE  TasksOK'
    <2>1. role \in Aims("set_role")
      BY DEF Aims
    <2> QED
      BY <1>1, <1>2, <2>1, OthersStay DEF SetRoleStart, Deletions
  <1>3. ASSUME NEW actor \in Users, NEW u \in Users, NEW disable \in BOOLEAN,
               DisableStart(r, actor, u, disable)
        PROVE  TasksOK'
    <2>1. disable \in Aims("disable")
      BY DEF Aims
    <2> QED
      BY <1>1, <1>3, <2>1, OthersStay DEF DisableStart, motorVars
  <1>4. \A kind : kind \notin {"set_role", "disable", "limits", "submit"} => Absent \in Aims(kind)
    BY DEF Aims
  <1>5. ASSUME NEW actor \in Users, NEW u \in Users,
               AdminDeleteUser(r, actor, u) \/ DeleteAccount(r, u)
        PROVE  TasksOK'
    BY <1>1, <1>4, <1>5, OthersStay DEF AdminDeleteUser, DeleteAccount, WipeOf, motorVars
  <1>6. ASSUME NEW actor \in Users, NEW role \in TargetRoles, LookUp(r, actor, role)
        PROVE  TasksOK'
    BY <1>1, <1>4, <1>6, SubjectAssumption, OthersStay DEF LookUp, Deletions
  <1>7. ASSUME NEW actor \in Users, NEW role \in TargetRoles, NEW updates \in Overrides,
               LimitsStart(r, actor, role, updates)
        PROVE  TasksOK'
    <2>1. updates \in Aims("limits")
      BY DEF Aims
    <2> QED
      BY <1>1, <1>7, <2>1, SubjectAssumption, OthersStay DEF LimitsStart, Deletions
  <1>8. ASSUME NEW actor \in Users, ClearMotors(r, actor)
        PROVE  TasksOK'
    BY <1>1, <1>4, <1>8, SubjectAssumption, OthersStay DEF ClearMotors, Deletions
  <1>9. ASSUME NEW role \in Roles, View(r, role) \/ CreateMotor(r, role)
        PROVE  TasksOK'
    BY <1>1, <1>4, <1>9, SubjectAssumption, OthersStay DEF View, CreateMotor, Deletions
  <1>10. ASSUME NEW m \in MotorIds, ChangeMotor(r, m)
         PROVE  TasksOK'
    BY <1>1, <1>4, <1>10, SubjectAssumption, OthersStay DEF ChangeMotor, Deletions
  <1>11. CASE ClearAccount(r)
    BY <1>1, <1>4, <1>11, SubjectAssumption, OthersStay DEF ClearAccount, Deletions
  <1>12. ASSUME NEW role \in Roles, NEW tokens \in Amounts, Submit(r, role, tokens)
         PROVE  TasksOK'
    <2>1. tokens \in Aims("submit")
      BY DEF Aims
    <2> QED
      BY <1>1, <1>12, <2>1, SubjectAssumption, OthersStay DEF Submit, Deletions
  <1>13. ASSUME NEW op, Charge(r, op)
         PROVE  TasksOK'
    BY <1>1, <1>4, <1>13, SubjectAssumption, OthersStay DEF Charge, Deletions
  <1> QED
    BY <1>2, <1>3, <1>5, <1>6, <1>7, <1>8, <1>9, <1>10, <1>11, <1>12, <1>13 DEF RequestStart

LEMMA LeavingTask ==
    ASSUME TasksOK, NEW r \in Requests, Leave(r) \/ UNCHANGED task
    PROVE  /\ task' = [q \in Requests |-> task'[q]]
           /\ \A q \in Requests : q = r \/ task'[q] = task[q]
           /\ Leave(r) => task'[r] = NoTask
           /\ UNCHANGED task => task'[r] = task[r]
  <1>1. task = [q \in Requests |-> task[q]]
    BY DEF TasksOK
  <1> HIDE DEF NoTask
  <1> QED
    BY <1>1 DEF Leave

LEMMA StepTasks ==
    ASSUME MotorTypeOK, TasksOK, NEW r \in Requests, RequestStep(r)
    PROVE  TasksOK'
  <1>1. /\ req \in [Requests -> RequestType]
        /\ claim \in [Users -> Roles \cup {Absent}]
        /\ disabled \in [Users -> BOOLEAN]
        /\ outlived \in [Users -> SUBSET Roles]
    BY DEF MotorTypeOK, TasksOK
  <1>2. CASE SetClaims(r)
    <2> DEFINE u == task[r].target
    <2>1. u \in Users /\ task[r].to \in Roles /\ task[r] # NoTask /\ req[r] = NoRequest
      BY <1>2, AimOfTask DEF SetClaims
    <2>2. outlived' \in [Users -> SUBSET Roles]
      BY <1>2, <2>1, OutliveType DEF SetClaims
    <2>3. claim' \in [Users -> Roles \cup {Absent}] /\ disabled' = disabled
      BY <1>1, <1>2, <2>1 DEF SetClaims
    <2>4. \A q \in Requests : q = r \/ req'[q] = req[q]
      BY <1>2, OthersStay DEF SetClaims
    <2>5. CASE UNCHANGED task
      <3>1. ~Away(task[r])
        BY <1>2 DEF SetClaims, Away, Deletions
      <3> QED
        BY <1>1, <2>1, <2>2, <2>3, <2>4, <2>5, <3>1, LeavingTask, LeaveTasks
    <2>6. CASE Leave(r) /\ UNCHANGED motorVars
      <3>1. req' = req
        BY <2>6 DEF motorVars
      <3> QED
        BY <1>1, <2>1, <2>2, <2>3, <2>4, <2>6, <3>1, LeavingTask, LeaveTasks
    <2> QED
      BY <1>2, <2>5, <2>6 DEF SetClaims
  <1>3. CASE UpdateUser(r)
    <2>1. task[r].target \in Users /\ task[r] # NoTask /\ task[r].to \in BOOLEAN
      BY <1>3, AimOfTask DEF UpdateUser
    <2>2. outlived' \in [Users -> SUBSET Roles]
      BY <1>3, <2>1, OutliveType DEF UpdateUser
    <2>3. disabled' \in [Users -> BOOLEAN] /\ claim' = claim /\ req' = req /\ Leave(r)
      BY <1>1, <1>3, <2>1 DEF UpdateUser, motorVars
    <2>4. req[r] = NoRequest
      BY <1>3 DEF UpdateUser, TasksOK, Away
    <2> QED
      BY <1>1, <2>2, <2>3, <2>4, LeavingTask, LeaveTasks
  <1>4. CASE LimitsUpdate(r) \/ SubmitDebit(r)
    <2>1. (\A q \in Requests : req'[q] = req[q]) /\ UNCHANGED <<users, task>>
      BY <1>4 DEF LimitsUpdate, SubmitDebit, AccountNext
    <2> QED
      BY <1>1, <2>1, LeavingTask, LeaveTasks DEF users
  <1>5. CASE Answer(r) \/ Cleared(r)
    <2>1. Leave(r) /\ Finish(r) /\ UNCHANGED users
      BY <1>5 DEF Answer, Cleared, AccountEnd, WipeEnd
    <2>2. req'[r] = NoRequest /\ \A q \in Requests : q = r \/ req'[q] = req[q]
      BY <1>1, <2>1 DEF Finish
    <2> HIDE DEF NoRequest
    <2> QED
      BY <1>1, <2>1, <2>2, LeavingTask, LeaveTasks DEF users
  <1>6. CASE DeleteUser(r)
    <2>1. task[r].target \in Users /\ Leave(r)
      BY <1>6, AimOfTask DEF DeleteUser
    <2>2. outlived' \in [Users -> SUBSET Roles]
      BY <1>6, <2>1, OutliveType DEF DeleteUser
    <2>3. claim' \in [Users -> Roles \cup {Absent}] /\ disabled' \in [Users -> BOOLEAN]
      BY <1>1, <1>6, <2>1 DEF DeleteUser
    <2>4. req'[r] = NoRequest /\ \A q \in Requests : q = r \/ req'[q] = req[q]
      <3>1. CASE task[r].target = Subject
        BY <1>1, <1>6, <3>1 DEF DeleteUser, WipeEnd, Finish
      <3>2. CASE task[r].target # Subject
        BY <1>6, <3>2 DEF DeleteUser, motorVars, TasksOK, Away
      <3> QED
        BY <3>1, <3>2
    <2> HIDE DEF NoRequest
    <2> QED
      BY <2>1, <2>2, <2>3, <2>4, LeavingTask, LeaveTasks
  <1>7. CASE MotorStep(r)
    <2>1. \A q \in Requests : q = r \/ req'[q] = req[q]
      BY <1>7, OthersStay DEF MotorStep
    <2>2. task' = [task EXCEPT ![r] = IF req'[r] = NoRequest THEN NoTask ELSE @]
      BY <1>7 DEF MotorStep
    <2>3. CASE req'[r] = NoRequest
      BY <1>1, <1>7, <2>1, <2>2, <2>3, LeavingTask, LeaveTasks DEF MotorStep, Leave, users
    <2>4. CASE req'[r] # NoRequest
      <3>1. task' = task
        BY <2>2, <2>4 DEF TasksOK
      <3>2. req[r] = NoRequest => req'[r] = req[r]
        BY <1>7 DEF MotorStep, NoRequest, At, CreateAdmit, SaveMotor, ListPrefix, WipeAccount,
                    DeleteNext, AccountStep
      <3>3. task[r] = NoTask \/ Away(task[r]) => req[r] = NoRequest
        BY NoTaskKind DEF TasksOK
      <3> QED
        BY <1>1, <1>7, <2>1, <3>1, <3>2, <3>3, LeavingTask, LeaveTasks DEF MotorStep, users
    <2> QED
      BY <2>3, <2>4
  <1>8. CASE CutOff(r)
    <2>1. Leave(r) /\ UNCHANGED users
      BY <1>8 DEF CutOff
    <2>2. req'[r] = NoRequest /\ \A q \in Requests : q = r \/ req'[q] = req[q]
      BY <1>1, <1>8 DEF CutOff, Abort, Finish, motorVars
    <2> HIDE DEF NoRequest
    <2> QED
      BY <1>1, <2>1, <2>2, LeavingTask, LeaveTasks DEF users
  <1> QED
    BY <1>2, <1>3, <1>4, <1>5, <1>6, <1>7, <1>8 DEF RequestStep

LEMMA TasksInit == Init => TasksOK
  BY NoTaskKind DEF Init, InitMotors, TasksOK, Away, Deletions

LEMMA TasksStep ==
    ASSUME MotorTypeOK, TasksOK, [Next]_vars
    PROVE  TasksOK'
  <1>1. ASSUME NEW u \in Users, NEW role \in Roles, ExpireToken(u, role)
        PROVE  TasksOK'
    BY <1>1 DEF ExpireToken, TasksOK, motorVars
  <1>2. CASE MonthStep \/ AtRest \/ UNCHANGED vars
    BY <1>2 DEF MonthStep, NextMonth, AtRest, vars, users, motorVars, TasksOK
  <1> QED
    BY <1>1, <1>2, StartTasks, StepTasks DEF Next

LEMMA SpecRefines == Spec => []TasksOK /\ MotorSpec
  <1>1. Init => InitMotors
    BY DEF Init
  <1>2. MotorInv /\ TasksOK /\ [Next]_vars => MotorInv' /\ TasksOK' /\ [MotorNext]_motorVars
    BY NextRefines, TasksStep, MotorInvStep DEF MotorInv
  <1> QED
    BY <1>1, <1>2, TasksInit, MotorInvInit, PTL DEF Spec, MotorSpec

(***************************************************************************)
(* Requests of users and administrators, role changes, tokens and          *)
(* deletions keep every value within its type.                             *)
(***************************************************************************)
THEOREM UserTypesHold == Spec => []UserTypeOK
  <1>1. MotorTypeOK /\ TasksOK => UserTypeOK
    BY DEF TasksOK, UserTypeOK
  <1> QED
    BY <1>1, SpecRefines, MotorTypesHold, PTL

(***************************************************************************)
(* What users and administrators do beside each other takes no step that   *)
(* MotorCatalogue does not: its bound on the overrun holds of them too.    *)
(***************************************************************************)
THEOREM UsersKeepMotorBound == Spec => []MotorOverrunIsBounded
  BY SpecRefines, MotorOverrunBounded, PTL
-----------------------------------------------------------------------------
(***************************************************************************)
(* The deletion of the subject.  While it runs with nothing beside it, the *)
(* motors that are left are among those it has still to delete; when the   *)
(* user has gone, nobody holds a motor that a save could bring back.       *)
(***************************************************************************)
Sweeping(r) ==
    /\ Busy = {r}
    /\ req[r].kind = "wipe"
    /\ req[r].at \in {"list", "wipe_account", "delete_next", "wiped"}
    /\ motors \subseteq req[r].doomed
    /\ req[r].at = "wiped" => req[r].doomed = {}

NobodySaves == \A q \in Requests : req[q].at # "save" /\ req[q].kind # "create"

Swept ==
    ~disturbed =>
        /\ \A r \in Deleting : Sweeping(r)
        /\ claim[Subject] = Absent => motors = {} /\ NobodySaves

LEMMA ArriveKinds ==
    ASSUME TasksOK, NEW r \in Requests, NEW kind, NEW new \in TaskType(kind), Arrive(r, new)
    PROVE  /\ task'[r].kind = new.kind /\ task'[r].target = new.target
           /\ Busy' = Busy \cup {r}
           /\ \A q \in Requests \ {r} :
                 task'[q].kind = task[q].kind /\ task'[q].target = task[q].target
  <1>1. task' = [q \in Requests |->
                   IF q = r THEN [new EXCEPT !.alone = Busy = {}]
                   ELSE IF q \in Busy THEN [task[q] EXCEPT !.alone = FALSE] ELSE NoTask]
    BY DEF Arrive
  <1>2. /\ task'[r] \in TaskType(kind)
        /\ task'[r].kind = new.kind /\ task'[r].target = new.target
    BY <1>1 DEF TaskType
  <1>3. ASSUME NEW q \in Busy, q # r
        PROVE  /\ task'[q] \in TaskType(task[q].kind)
               /\ task'[q].kind = task[q].kind /\ task'[q].target = task[q].target
    <2>1. task[q] \in TaskType(task[q].kind)
      BY DEF TasksOK, Busy
    <2>2. task'[q] = [task[q] EXCEPT !.alone = FALSE]
      BY <1>1, <1>3 DEF Busy
    <2> QED
      BY <2>1, <2>2 DEF TaskType
  <1>4. \A q \in Requests \ {r} : q \notin Busy => task'[q] = task[q]
    BY <1>1 DEF Busy
  <1>5. Busy' = Busy \cup {r}
    BY <1>2, <1>3, <1>4, NoTaskKind DEF Busy
  <1> QED
    BY <1>2, <1>3, <1>4, <1>5

\* the start of a request that does not delete the subject
LEMMA ArriveSwept ==
    ASSUME TasksOK, Swept, NEW r \in Requests,
           NEW kind, NEW new \in TaskType(kind), new.kind = kind, Arrive(r, new),
           ~(kind \in Deletions /\ new.target = Subject),
           UNCHANGED <<users, motors>>,
           \A q \in Requests : q = r \/ req'[q] = req[q],
           \/ new.actor = Subject /\ kind # "charge"
           \/ req'[r].at # "save" /\ req'[r].kind # "create"
    PROVE  Swept'
  <1> SUFFICES ASSUME ~disturbed'
               PROVE  Swept'
    BY DEF Swept
  <1>1. /\ ~disturbed /\ Deleting = {}
        /\ ~(claim[Subject] = Absent /\ new.actor = Subject /\ kind # "charge")
    BY DEF Arrive
  <1>2. Deleting' = {}
    BY <1>1, ArriveKinds DEF Deleting, Busy
  <1>3. claim' = claim /\ motors' = motors
    BY DEF users
  <1>4. claim[Subject] = Absent => NobodySaves'
    BY <1>1 DEF Swept, NobodySaves
  <1> QED
    BY <1>1, <1>2, <1>3, <1>4 DEF Swept

\* the start of a deletion of the subject
LEMMA SweepBegins ==
    ASSUME MotorTypeOK, TasksOK, NEW r \in Requests, NEW kind \in Deletions, NEW actor \in Users,
           Arrive(r, Task(kind, actor, Subject, Absent)), WipeStart(r), UNCHANGED users
    PROVE  Swept'
  <1> SUFFICES ASSUME ~disturbed'
               PROVE  Swept'
    BY DEF Swept
  <1> DEFINE new == Task(kind, actor, Subject, Absent)
  <1>1. /\ new \in TaskType(kind)
        /\ new.kind \in Deletions /\ new.target = Subject
    BY SubjectAssumption DEF Task, TaskType, Aims, Deletions
  <1>2. Busy = {} /\ claim[Subject] # Absent
    BY <1>1 DEF Arrive
  <1>3. Busy' = {r} /\ Deleting' \subseteq {r}
    BY <1>1, <1>2, ArriveKinds DEF Deleting, Busy
  <1>4. req'[r] = [NoRequest EXCEPT !.at = "list", !.kind = "wipe", !.doomed = MotorIds]
    BY DEF MotorTypeOK, WipeStart, Accept
  <1>5. Sweeping(r)'
    BY <1>3, <1>4 DEF Sweeping, NoRequest, WipeStart, MotorTypeOK
  <1>6. claim' = claim
    BY DEF users
  <1> QED
    BY <1>2, <1>3, <1>5, <1>6 DEF Swept

LEMMA StartSwept ==
    ASSUME MotorTypeOK, TasksOK, Swept, NEW r \in Requests, RequestStart(r)
    PROVE  Swept'
  <1>1. req \in [Requests -> RequestType]
    BY DEF MotorTypeOK
  <1>2. ASSUME NEW kind, kind # "none", NEW actor \in Users, NEW u \in Users, NEW to \in Aims(kind),
               Arrive(r, Task(kind, actor, u, to)), UNCHANGED <<users, motors>>,
               ~(kind \in Deletions /\ u = Subject),
               \A q \in Requests : q = r \/ req'[q] = req[q],
               req'[r].at # "save" /\ req'[r].kind # "create"
        PROVE  Swept'
    <2> DEFINE new == Task(kind, actor, u, to)
    <2>1. /\ new \in TaskType(kind) /\ new.kind = kind
          /\ new.target = u /\ new.actor = actor
      BY <1>2, NewTask DEF Task
    <2>2. Arrive(r, new)
      BY <1>2
    <2> HIDE DEF new
    <2> QED
      BY <1>2, <2>1, <2>2, ArriveSwept
  <1>3. \A kind : kind \notin {"set_role", "disable", "limits", "submit"} => Absent \in Aims(kind)
    BY DEF Aims
  <1>4. ASSUME NEW kind, kind # "none", NEW actor \in Users, NEW u \in Users, NEW to \in Aims(kind),
               Arrive(r, Task(kind, actor, u, to)), UNCHANGED <<users, motorVars>>,
               ~(kind \in Deletions /\ u = Subject)
        PROVE  Swept'
    <2>1. req[r] = NoRequest
      BY <1>4, NoTaskKind DEF Arrive, TasksOK
    <2> QED
      BY <1>2, <1>4, <2>1 DEF motorVars, NoRequest
  <1>5. ASSUME NEW actor \in Users, NEW u \in Users, NEW role \in Roles,
               SetRoleStart(r, actor, u, role)
        PROVE  Swept'
    <2>1. role \in Aims("set_role")
      BY DEF Aims
    <2> QED
      BY <1>4, <1>5, <2>1 DEF SetRoleStart, Deletions
  <1>6. ASSUME NEW actor \in Users, NEW u \in Users, NEW disable \in BOOLEAN,
               DisableStart(r, actor, u, disable)
        PROVE  Swept'
    <2>1. disable \in Aims("disable")
      BY DEF Aims
    <2> QED
      BY <1>4, <1>6, <2>1 DEF DisableStart, Deletions
  <1>7. ASSUME NEW actor \in Users, NEW u \in Users,
               AdminDeleteUser(r, actor, u) \/ DeleteAccount(r, u)
        PROVE  Swept'
    <2>1. PICK kind \in Deletions, by \in Users :
             Arrive(r, Task(kind, by, u, Absent)) /\ WipeOf(r, u) /\ UNCHANGED users
      BY <1>7 DEF AdminDeleteUser, DeleteAccount, Deletions
    <2>2. CASE u = Subject
      BY <2>1, <2>2, SweepBegins DEF WipeOf
    <2>3. CASE u # Subject
      BY <1>3, <1>4, <2>1, <2>3 DEF WipeOf, Deletions
    <2> QED
      BY <2>2, <2>3
  <1>8. ASSUME NEW op, AccountStart(r, op)
        PROVE  /\ motors' = motors /\ req'[r].at # "save" /\ req'[r].kind # "create"
               /\ \A q \in Requests : q = r \/ req'[q] = req[q]
    BY <1>1, <1>8 DEF AccountStart, Accept, NoRequest
  <1>9. ASSUME NEW actor \in Users, NEW role \in TargetRoles, LookUp(r, actor, role)
        PROVE  Swept'
    BY <1>2, <1>3, <1>8, <1>9, SubjectAssumption DEF LookUp, Deletions
  <1>10. ASSUME NEW actor \in Users, NEW role \in TargetRoles, NEW updates \in Overrides,
                LimitsStart(r, actor, role, updates)
         PROVE  Swept'
    <2>1. updates \in Aims("limits")
      BY DEF Aims
    <2> QED
      BY <1>2, <1>8, <1>10, <2>1, SubjectAssumption DEF LimitsStart, Deletions
  <1>11. ASSUME NEW actor \in Users, ClearMotors(r, actor)
         PROVE  Swept'
    <2>1. /\ motors' = motors /\ req'[r].at # "save" /\ req'[r].kind # "create"
          /\ \A q \in Requests : q = r \/ req'[q] = req[q]
      BY <1>1, <1>11 DEF ClearMotors, ClearStart, Accept, NoRequest
    <2> QED
      BY <1>2, <1>3, <1>11, <2>1, SubjectAssumption DEF ClearMotors, Deletions
  <1>12. ASSUME \/ \E role \in Roles : View(r, role) \/ CreateMotor(r, role)
                \/ \E m \in MotorIds : ChangeMotor(r, m)
                \/ ClearAccount(r)
         PROVE  Swept'
    <2>1. UNCHANGED <<users, motors>>
      BY <1>12 DEF View, CreateMotor, ChangeMotor, ClearAccount, AccountStart, CreateStart,
                   UpdateStart, DeleteStart, WipeStart
    <2>2. \A q \in Requests : q = r \/ req'[q] = req[q]
      BY <1>12, OthersStay DEF View, CreateMotor, ChangeMotor, ClearAccount
    <2>3. ASSUME NEW kind \in {"view", "create", "change", "clear"},
                 Arrive(r, Task(kind, Subject, Subject, Absent))
          PROVE  Swept'
      <3> DEFINE new == Task(kind, Subject, Subject, Absent)
      <3>1. Absent \in Aims(kind) /\ kind # "none" /\ kind \notin Deletions
        BY <1>3 DEF Deletions
      <3>2. new \in TaskType(kind) /\ new.kind = kind /\ new.actor = Subject
        BY <3>1, SubjectAssumption, NewTask DEF Task
      <3>3. Arrive(r, new)
        BY <2>3
      <3> HIDE DEF new
      <3> QED
        BY <2>1, <2>2, <3>1, <3>2, <3>3, ArriveSwept
    <2> QED
      BY <1>12, <2>3 DEF View, CreateMotor, ChangeMotor, ClearAccount
  <1>13. ASSUME NEW role \in Roles, NEW tokens \in Amounts, Submit(r, role, tokens)
         PROVE  Swept'
    <2>1. tokens \in Aims("submit")
      BY DEF Aims
    <2> QED
      BY <1>2, <1>8, <1>13, <2>1, SubjectAssumption DEF Submit, Deletions
  <1>14. ASSUME NEW op, Charge(r, op)
         PROVE  Swept'
    BY <1>2, <1>3, <1>8, <1>14, SubjectAssumption DEF Charge, Deletions
  <1> QED
    BY <1>5, <1>6, <1>7, <1>9, <1>10, <1>11, <1>12, <1>13, <1>14 DEF RequestStart

\* a step within a request, beside no deletion of the subject
LEMMA QuietSwept ==
    ASSUME Swept, Deleting' = {}, disturbed' = disturbed,
           ~disturbed /\ claim'[Subject] = Absent =>
               claim[Subject] = Absent /\ (motors = {} /\ NobodySaves => motors' = {} /\ NobodySaves')
    PROVE  Swept'
  BY DEF Swept

LEMMA StepSwept ==
    ASSUME MotorTypeOK, TasksOK, Swept, NEW r \in Requests, RequestStep(r)
    PROVE  Swept'
  <1>1. /\ req \in [Requests -> RequestType]
        /\ claim \in [Users -> Roles \cup {Absent}]
        /\ disturbed' = disturbed
    BY DEF MotorTypeOK, TasksOK, RequestStep, SetClaims, UpdateUser, LimitsUpdate, SubmitDebit,
           Answer, Cleared,
           DeleteUser, MotorStep, CutOff
  <1> SUFFICES ASSUME ~disturbed
               PROVE  Swept'
    BY <1>1 DEF Swept
  <1>2. \A q \in Requests : q = r \/ (task'[q] = task[q] /\ req'[q] = req[q])
    <2>1. \A q \in Requests : q = r \/ req'[q] = req[q]
      BY OthersStay DEF RequestStep, SetClaims, UpdateUser, LimitsUpdate, SubmitDebit, Answer,
                        Cleared,
                        DeleteUser, MotorStep, CutOff
    <2>2. CASE Leave(r) \/ UNCHANGED task
      BY <2>1, <2>2, LeavingTask
    <2>3. CASE MotorStep(r)
      BY <2>1, <2>3 DEF MotorStep, TasksOK
    <2> QED
      BY <2>2, <2>3 DEF RequestStep, SetClaims, UpdateUser, LimitsUpdate, SubmitDebit, Answer,
                        Cleared,
                        DeleteUser, CutOff
  <1>3. task'[r] \in {NoTask, task[r]}
    <2>1. CASE Leave(r) \/ UNCHANGED task
      BY <2>1, LeavingTask
    <2>2. CASE MotorStep(r)
      <3>1. task' = [task EXCEPT ![r] = IF req'[r] = NoRequest THEN NoTask ELSE task[r]]
        BY <2>2 DEF MotorStep
      <3>2. r \in DOMAIN task
        BY DEF TasksOK
      <3> HIDE DEF NoTask, NoRequest
      <3> QED
        BY <3>1, <3>2
    <2> QED
      BY <2>1, <2>2 DEF RequestStep, SetClaims, UpdateUser, LimitsUpdate, SubmitDebit, Answer,
                        Cleared,
                        DeleteUser, CutOff
  <1>4. CASE r \in Deleting
    <2>1. /\ Sweeping(r) /\ task[r].kind \in Deletions /\ task[r].target = Subject
          /\ claim[Subject] = Absent => motors = {} /\ NobodySaves
      BY <1>4 DEF Swept, Deleting
    <2>2. \A q \in Requests : q = r \/ (task'[q] = NoTask /\ req'[q] = NoRequest)
      BY <1>2, <2>1, NoTaskKind DEF Sweeping, Busy, TasksOK
    <2>3. CASE task'[r] = NoTask /\ req'[r] = NoRequest /\ motors' \subseteq motors
               /\ (claim'[Subject] = Absent => motors = {})
      <3>1. Deleting' = {}
        BY <2>2, <2>3 DEF Deleting, Busy
      <3>2. NobodySaves'
        BY <2>2, <2>3 DEF NobodySaves, NoRequest
      <3> QED
        BY <2>3, <3>1, <3>2 DEF Swept
    <2>4. CASE /\ task'[r] = task[r] /\ claim' = claim
               /\ req'[r].kind = "wipe"
               /\ req'[r].at \in {"list", "wipe_account", "delete_next", "wiped"}
               /\ motors' \subseteq motors
               /\ motors' \subseteq req'[r].doomed
               /\ req'[r].at = "wiped" => req'[r].doomed = {}
      <3>1. Busy' = {r}
        BY <2>1, <2>2, <2>4 DEF Busy, Sweeping
      <3>2. NobodySaves'
        BY <2>2, <2>4 DEF NobodySaves, NoRequest
      <3> QED
        BY <2>1, <2>4, <3>1, <3>2 DEF Swept, Sweeping, Deleting
    <2>5. req[r] \in RequestType
      BY <1>1
    <2>6. CASE DeleteUser(r)
      <3>1. task'[r] = NoTask /\ WipeEnd(r)
        BY <2>1, <2>6, LeavingTask DEF DeleteUser
      <3> QED
        BY <1>1, <2>1, <2>3, <3>1 DEF WipeEnd, Finish, At, Sweeping
    <2>7. CASE CutOff(r)
      <3>1. /\ task'[r] = NoTask /\ claim' = claim /\ motors' = motors
            /\ req'[r] = NoRequest
        BY <1>1, <2>7, LeavingTask DEF CutOff, Abort, Finish, motorVars, users
      <3> QED
        BY <2>1, <2>3, <3>1
    <2>8. CASE MotorStep(r)
      <3>1. claim' = claim
        BY <2>8 DEF MotorStep, users
      <3>2. CASE Finish(r) /\ motors' \subseteq motors
        <4>1. req'[r] = NoRequest
          BY <1>1, <3>2 DEF Finish
        <4>2. task'[r] = NoTask
          BY <2>8, <4>1 DEF MotorStep, TasksOK
        <4> QED
          BY <2>1, <2>3, <3>1, <3>2, <4>1, <4>2
      <3>3. CASE /\ req'[r].kind = "wipe"
                 /\ req'[r].at \in {"list", "wipe_account", "delete_next", "wiped"}
                 /\ motors' \subseteq motors
                 /\ motors' \subseteq req'[r].doomed
                 /\ req'[r].at = "wiped" => req'[r].doomed = {}
        <4>1. req'[r] # NoRequest
          BY <3>3 DEF NoRequest
        <4>2. task'[r] = task[r]
          BY <2>8, <4>1 DEF MotorStep, TasksOK
        <4> QED
          BY <2>4, <3>1, <3>3, <4>2
      <3>4. CASE ListPrefix(r)
        BY <1>1, <2>1, <2>5, <3>3, <3>4 DEF ListPrefix, RequestType, Sweeping, storeVars
      <3>5. CASE WipeAccount(r)
        BY <1>1, <2>1, <2>5, <3>2, <3>3, <3>5 DEF WipeAccount, RequestType, Sweeping, Go, At
      <3>6. CASE DeleteNext(r)
        BY <1>1, <2>1, <2>5, <3>2, <3>3, <3>6 DEF DeleteNext, RequestType, Sweeping, Go, At
      <3>7. CASE AccountStep(r)
        BY <2>1, <3>3, <3>7 DEF AccountStep, Sweeping
      <3> QED
        BY <2>1, <2>8, <3>4, <3>5, <3>6, <3>7
           DEF MotorStep, Sweeping, CreateAdmit, SaveMotor, At
    <2> QED
      BY <2>1, <2>6, <2>7, <2>8
         DEF RequestStep, SetClaims, UpdateUser, LimitsUpdate, SubmitDebit, Answer, Cleared,
             AccountEnd,
             Sweeping, Deletions
  <1>5. CASE r \notin Deleting /\ Deleting # {}
    <2>1. PICK d \in Deleting : Sweeping(d)
      BY <1>5 DEF Swept
    <2>2. task[r] = NoTask /\ req[r] = NoRequest
      BY <1>5, <2>1, NoTaskKind DEF Sweeping, Busy, TasksOK
    <2>3. AccountStep(r) /\ UNCHANGED users
      BY <2>2, NoTaskKind
         DEF RequestStep, SetClaims, UpdateUser, LimitsUpdate, SubmitDebit, Answer, Cleared,
             DeleteUser, CutOff,
             MotorStep, AccountEnd, CreateAdmit, SaveMotor, ListPrefix, WipeAccount, DeleteNext,
             At, NoRequest, Deletions
    <2>4. UNCHANGED <<motors, req, claim>> /\ \A q \in Requests : task'[q] = task[q]
      BY <1>2, <1>3, <2>2, <2>3 DEF AccountStep, users
    <2> QED
      BY <1>1, <2>4 DEF Swept, Sweeping, Deleting, Busy, NobodySaves
  <1>6. CASE Deleting = {}
    <2>1. Deleting' = {}
      BY <1>2, <1>3, <1>6 DEF Deleting, Busy
    <2>2. ASSUME claim'[Subject] = Absent
          PROVE  claim[Subject] = Absent
      <3>1. CASE DeleteUser(r)
        <4>1. task[r].target # Subject
          BY <1>6, <3>1, AimOfTask DEF DeleteUser, Deleting, Busy
        <4> QED
          BY <1>1, <2>2, <3>1, <4>1 DEF DeleteUser
      <3>2. CASE SetClaims(r)
        <4>1. task[r].to \in Roles
          BY <3>2, AimOfTask DEF SetClaims
        <4> QED
          BY <1>1, <2>2, <3>2, <4>1, AbsentIsNoRole, SubjectAssumption DEF SetClaims
      <3> QED
        BY <2>2, <3>1, <3>2
           DEF RequestStep, UpdateUser, LimitsUpdate, SubmitDebit, Answer, Cleared, MotorStep,
               CutOff, users
    <2>3. ASSUME motors = {}, NobodySaves
          PROVE  motors' = {} /\ NobodySaves'
      <3>1. req[r].at # "save" /\ req[r].kind # "create" /\ req[r] \in RequestType
        BY <1>1, <2>3 DEF NobodySaves
      <3>2. motors' = {} /\ req'[r].at # "save" /\ req'[r].kind # "create"
        <4>1. CASE SetClaims(r)
          <5>1. \/ UNCHANGED motorVars
                \/ AccountStart(r, ResetToRole(task[r].to))
            BY <4>1 DEF SetClaims
          <5>2. CASE UNCHANGED motorVars
            BY <2>3, <3>1, <5>2 DEF motorVars
          <5>3. CASE AccountStart(r, ResetToRole(task[r].to))
            BY <1>1, <2>3, <5>3 DEF AccountStart, Accept, NoRequest
          <5> QED
            BY <5>1, <5>2, <5>3
        <4>2. CASE UpdateUser(r) \/ LimitsUpdate(r) \/ SubmitDebit(r)
          BY <1>1, <2>3, <3>1, <4>2 DEF UpdateUser, LimitsUpdate, SubmitDebit, AccountNext,
                                        motorVars
        <4>3. CASE Answer(r) \/ Cleared(r) \/ DeleteUser(r) \/ CutOff(r)
          BY <1>1, <2>3, <3>1, <4>3
             DEF Answer, Cleared, DeleteUser, CutOff, AccountEnd, WipeEnd, Abort, Finish,
                 NoRequest, motorVars
        <4>4. CASE MotorStep(r)
          <5>1. CASE ListPrefix(r) \/ WipeAccount(r)
            BY <1>1, <2>3, <3>1, <5>1
               DEF ListPrefix, WipeAccount, Finish, Go, NoRequest, RequestType
          <5>2. CASE DeleteNext(r)
            BY <1>1, <2>3, <3>1, <5>2 DEF DeleteNext, Finish, Go, NoRequest, RequestType
          <5>3. CASE AccountStep(r)
            BY <2>3, <3>1, <5>3 DEF AccountStep
          <5> QED
            BY <3>1, <4>4, <5>1, <5>2, <5>3 DEF MotorStep, CreateAdmit, SaveMotor, At
        <4> QED
          BY <4>1, <4>2, <4>3, <4>4 DEF RequestStep
      <3> QED
        BY <1>2, <2>3, <3>2 DEF NobodySaves
    <2> QED
      BY <1>1, <2>1, <2>2, <2>3, QuietSwept
  <1> QED
    BY <1>4, <1>5, <1>6

LEMMA SweptInit == Init => Swept
  BY SubjectAssumption, AbsentIsNoRole, NoTaskKind DEF Init, Swept, Deleting, Busy

LEMMA SweptStep ==
    ASSUME MotorTypeOK, TasksOK, Swept, [Next]_vars
    PROVE  Swept'
  <1>1. CASE \/ \E u \in Users, role \in Roles : ExpireToken(u, role)
             \/ MonthStep \/ AtRest \/ UNCHANGED vars
    <2>1. UNCHANGED <<motors, req, claim, task, disturbed>>
      BY <1>1 DEF ExpireToken, MonthStep, NextMonth, AtRest, vars, motorVars, users
    <2> QED
      BY <2>1 DEF Swept, Sweeping, Deleting, Busy, NobodySaves
  <1> QED
    BY <1>1, StartSwept, StepSwept DEF Next

(***************************************************************************)
(* A deletion that nothing ran beside, cut off and begun again as often as *)
(* may be, leaves no motor of the user (delete_account,                    *)
(* admin_delete_user), whatever the number of users, requests and motors.  *)
(***************************************************************************)
THEOREM DeletionLeavesNoMotors == Spec => []DeletedUsersKeepNoMotors
  <1>1. MotorTypeOK /\ TasksOK /\ Swept /\ [Next]_vars => Swept'
    BY SweptStep
  <1>2. Swept => DeletedUsersKeepNoMotors
    BY DEF Swept, DeletedUsersKeepNoMotors
  <1> QED
    BY <1>1, <1>2, SweptInit, SpecRefines, MotorTypesHold, PTL DEF Spec
-----------------------------------------------------------------------------
(***************************************************************************)
(* What the admin endpoints refuse, as it is remembered by a request that  *)
(* was let through: nobody acts against himself.                           *)
(***************************************************************************)
Considerate(t) ==
    /\ t.kind = "set_role" /\ t.actor = t.target => t.to = "admin"
    /\ t.kind = "disable" /\ t.to => t.actor # t.target
    /\ t.kind = "delete" => t.actor # t.target

EndpointsHold == \A r \in Requests : task[r] = NoTask \/ Considerate(task[r])

LEMMA ArriveConsiderate ==
    ASSUME EndpointsHold, NEW r \in Requests, NEW kind, NEW new \in TaskType(kind), Considerate(new),
           Arrive(r, new)
    PROVE  EndpointsHold'
  <1> SUFFICES ASSUME NEW q \in Requests, task'[q] # NoTask
               PROVE  Considerate(task'[q])
    BY DEF EndpointsHold
  <1>1. CASE q = r
    <2>1. task'[q] = [new EXCEPT !.alone = Busy = {}]
      BY <1>1 DEF Arrive
    <2> QED
      BY <2>1 DEF Considerate, TaskType
  <1>2. CASE q # r
    <2>1. task[q] # NoTask /\ task'[q] = [task[q] EXCEPT !.alone = FALSE]
      BY <1>2 DEF Arrive, Busy
    <2>2. Considerate(task[q])
      BY <2>1 DEF EndpointsHold
    <2> QED
      BY <2>1, <2>2 DEF Considerate
  <1> QED
    BY <1>1, <1>2

LEMMA StartConsiderate ==
    ASSUME TasksOK, EndpointsHold, NEW r \in Requests, RequestStart(r)
    PROVE  EndpointsHold'
  <1>1. ASSUME NEW kind, kind # "none", NEW actor \in Users, NEW u \in Users, NEW to \in Aims(kind),
               Arrive(r, Task(kind, actor, u, to)), Considerate(Task(kind, actor, u, to))
        PROVE  EndpointsHold'
    BY <1>1, NewTask, ArriveConsiderate
  <1>2. ASSUME NEW actor \in Users, NEW u \in Users, NEW role \in Roles,
               SetRoleStart(r, actor, u, role)
        PROVE  EndpointsHold'
    <2>1. Considerate(Task("set_role", actor, u, role)) /\ role \in Aims("set_role")
      BY <1>2 DEF Considerate, Task, SetRoleStart, Aims
    <2> QED
      BY <1>1, <1>2, <2>1 DEF SetRoleStart
  <1>3. ASSUME NEW actor \in Users, NEW u \in Users, NEW disable \in BOOLEAN,
               DisableStart(r, actor, u, disable)
        PROVE  EndpointsHold'
    <2>1. Considerate(Task("disable", actor, u, disable)) /\ disable \in Aims("disable")
      BY <1>3 DEF Considerate, Task, DisableStart, Aims
    <2> QED
      BY <1>1, <1>3, <2>1 DEF DisableStart
  <1>4. ASSUME NEW actor \in Users, NEW u \in Users, AdminDeleteUser(r, actor, u)
        PROVE  EndpointsHold'
    <2>1. Considerate(Task("delete", actor, u, Absent)) /\ Absent \in Aims("delete")
      BY <1>4 DEF Considerate, Task, AdminDeleteUser, Aims
    <2> QED
      BY <1>1, <1>4, <2>1 DEF AdminDeleteUser
  <1>5. ASSUME NEW actor \in Users, NEW updates \in Overrides, NEW role,
               LimitsStart(r, actor, role, updates)
        PROVE  EndpointsHold'
    <2>1. Considerate(Task("limits", actor, Subject, updates)) /\ updates \in Aims("limits")
      BY DEF Considerate, Task, Aims
    <2> QED
      BY <1>1, <1>5, <2>1, SubjectAssumption DEF LimitsStart
  <1>6. ASSUME NEW kind \in {"lookup", "view", "create", "change", "clear_all", "clear",
                             "delete_account", "charge"},
               NEW actor \in Users, NEW u \in Users, Arrive(r, Task(kind, actor, u, Absent))
        PROVE  EndpointsHold'
    <2>1. Considerate(Task(kind, actor, u, Absent)) /\ Absent \in Aims(kind) /\ kind # "none"
      BY <1>6 DEF Considerate, Task, Aims
    <2> QED
      BY <1>1, <1>6, <2>1
  <1>7. ASSUME NEW actor \in Users, NEW role,
               LookUp(r, actor, role) \/ ClearMotors(r, actor) \/ DeleteAccount(r, actor)
        PROVE  EndpointsHold'
    BY <1>6, <1>7, SubjectAssumption DEF LookUp, ClearMotors, DeleteAccount
  <1>8. ASSUME \/ \E role \in Roles : View(r, role) \/ CreateMotor(r, role)
               \/ \E m \in MotorIds : ChangeMotor(r, m)
               \/ \E op \in Charges : Charge(r, op)
               \/ ClearAccount(r)
        PROVE  EndpointsHold'
    BY <1>6, <1>8, SubjectAssumption DEF View, CreateMotor, ChangeMotor, Charge, ClearAccount
  <1>9. ASSUME NEW role \in Roles, NEW tokens \in Amounts, Submit(r, role, tokens)
        PROVE  EndpointsHold'
    <2>1. Considerate(Task("submit", Subject, Subject, tokens)) /\ tokens \in Aims("submit")
      BY DEF Considerate, Task, Aims
    <2> QED
      BY <1>1, <1>9, <2>1, SubjectAssumption DEF Submit
  <1> QED
    BY <1>2, <1>3, <1>4, <1>5, <1>7, <1>8, <1>9 DEF RequestStart

\* a step within a request keeps or drops its task, and leaves the others'
LEMMA StepKeepsTasks ==
    ASSUME TasksOK, NEW r \in Requests, RequestStep(r)
    PROVE  /\ task'[r] \in {NoTask, task[r]}
           /\ \A q \in Requests : q = r \/ task'[q] = task[q]
  <1>1. CASE Leave(r) \/ UNCHANGED task
    BY <1>1, LeavingTask
  <1>2. CASE MotorStep(r)
    <2>1. task' = [task EXCEPT ![r] = IF req'[r] = NoRequest THEN NoTask ELSE task[r]]
      BY <1>2 DEF MotorStep
    <2>2. task = [q \in Requests |-> task[q]]
      BY DEF TasksOK
    <2> HIDE DEF NoTask, NoRequest
    <2> QED
      BY <2>1, <2>2
  <1> QED
    BY <1>1, <1>2 DEF RequestStep, SetClaims, UpdateUser, LimitsUpdate, SubmitDebit, Answer,
                      Cleared,
                      DeleteUser, CutOff

LEMMA ConsiderateStep ==
    ASSUME TasksOK, EndpointsHold, [Next]_vars
    PROVE  EndpointsHold'
  <1>1. ASSUME NEW r \in Requests, RequestStep(r)
        PROVE  EndpointsHold'
    BY <1>1, StepKeepsTasks DEF EndpointsHold
  <1>2. CASE \/ \E u \in Users, role \in Roles : ExpireToken(u, role)
             \/ MonthStep \/ AtRest \/ UNCHANGED vars
    <2>1. task' = task
      BY <1>2 DEF ExpireToken, MonthStep, AtRest, vars
    <2> QED
      BY <2>1 DEF EndpointsHold
  <1> QED
    BY <1>1, <1>2, StartConsiderate DEF Next

\* who may sign in as an administrator changes at three calls to Firebase
LEMMA AdministratorsStep ==
    ASSUME TasksOK, [Next]_vars, claim' # claim \/ disabled' # disabled
    PROVE  \E r \in Requests :
              /\ SetClaims(r) \/ UpdateUser(r) \/ DeleteUser(r)
              /\ task[r].target \in Users /\ task[r] # NoTask
              /\ \A u \in Users : u = task[r].target \/ (claim'[u] = claim[u] /\ disabled'[u] = disabled[u])
  <1>1. ASSUME NEW r \in Requests, RequestStart(r)
        PROVE  FALSE
    BY <1>1 DEF RequestStart, SetRoleStart, DisableStart, AdminDeleteUser, LookUp, LimitsStart,
                ClearMotors, DeleteAccount, View, CreateMotor, ChangeMotor, Submit, Charge,
                ClearAccount, users
  <1>2. ASSUME \/ \E u \in Users, role \in Roles : ExpireToken(u, role)
               \/ MonthStep \/ AtRest \/ UNCHANGED vars
        PROVE  FALSE
    BY <1>2 DEF ExpireToken, MonthStep, AtRest, vars, users
  <1>3. PICK r \in Requests : RequestStep(r)
    BY <1>1, <1>2 DEF Next
  <1>4. SetClaims(r) \/ UpdateUser(r) \/ DeleteUser(r)
    BY <1>3 DEF RequestStep, LimitsUpdate, SubmitDebit, Answer, Cleared, MotorStep, CutOff, users
  <1>5. task[r].target \in Users /\ task[r] # NoTask
    BY <1>4, AimOfTask DEF SetClaims, UpdateUser, DeleteUser
  <1>6. \A u \in Users : u = task[r].target \/ (claim'[u] = claim[u] /\ disabled'[u] = disabled[u])
    BY <1>4 DEF SetClaims, UpdateUser, DeleteUser, TasksOK
  <1> QED
    BY <1>4, <1>5, <1>6

LEMMA LastAdministratorStep ==
    ASSUME TasksOK, EndpointsHold, [Next]_vars, Administrators # {}, Administrators' = {}
    PROVE  \E r \in Busy :
              /\ Administrators = {task[r].target}
              /\ \/ task[r].kind = "delete_account"
                 \/ /\ task[r].kind \in {"set_role", "disable", "delete"}
                    /\ task[r].actor \notin Administrators
  <1>1. claim' # claim \/ disabled' # disabled
    BY DEF Administrators
  <1>2. PICK r \in Requests :
           /\ SetClaims(r) \/ UpdateUser(r) \/ DeleteUser(r)
           /\ task[r].target \in Users /\ task[r] # NoTask
           /\ \A u \in Users : u = task[r].target \/ (claim'[u] = claim[u] /\ disabled'[u] = disabled[u])
    BY <1>1, AdministratorsStep
  <1> DEFINE u == task[r].target
  <1>3. Administrators = {u}
    BY <1>2 DEF Administrators
  <1>4. claim[u] = "admin" /\ ~disabled[u] /\ ~(claim'[u] = "admin" /\ ~disabled'[u])
    BY <1>2, <1>3 DEF Administrators
  <1>5. Considerate(task[r])
    BY <1>2 DEF EndpointsHold
  <1>6. /\ claim \in [Users -> Roles \cup {Absent}]
        /\ disabled \in [Users -> BOOLEAN]
    BY DEF TasksOK
  <1>7. task[r].kind = "delete_account" \/ task[r].actor # u
    <2> SUFFICES ASSUME task[r].kind # "delete_account", task[r].actor = u
                 PROVE  FALSE
      OBVIOUS
    <2>1. CASE SetClaims(r)
      <3>1. task[r].to = "admin"
        BY <1>5, <2>1 DEF Considerate, SetClaims
      <3> QED
        BY <1>2, <1>4, <1>6, <2>1, <3>1 DEF SetClaims
    <2>2. CASE UpdateUser(r)
      <3>1. task[r].to = FALSE
        BY <1>5, <2>2, AimOfTask DEF Considerate, UpdateUser
      <3> QED
        BY <1>2, <1>4, <1>6, <2>2, <3>1 DEF UpdateUser
    <2>3. CASE DeleteUser(r)
      BY <1>5, <2>3 DEF Considerate, DeleteUser, Deletions
    <2> QED
      BY <1>2, <2>1, <2>2, <2>3
  <1>8. task[r].kind \in {"set_role", "disable", "delete", "delete_account"}
    BY <1>2 DEF SetClaims, UpdateUser, DeleteUser, Deletions
  <1> QED
    BY <1>2, <1>3, <1>7, <1>8 DEF Busy

(***************************************************************************)
(* The last administrator goes only by deleting the own account, or        *)
(* through somebody who has stopped being one (admin_set_role,             *)
(* admin_set_disabled, admin_delete_user), however many users there are    *)
(* and however their requests overlap.                                     *)
(***************************************************************************)
THEOREM LastAdministratorIsSafe == Spec => LastAdministratorStands
  <1>1. Init => EndpointsHold
    BY DEF Init, EndpointsHold
  <1>2. TasksOK /\ EndpointsHold /\ [Next]_vars => EndpointsHold'
    BY ConsiderateStep
  <1>3. TasksOK /\ EndpointsHold /\ [Next]_vars =>
           [Administrators # {} /\ Administrators' = {} =>
               \E r \in Busy :
                  /\ Administrators = {task[r].target}
                  /\ \/ task[r].kind = "delete_account"
                     \/ /\ task[r].kind \in {"set_role", "disable", "delete"}
                        /\ task[r].actor \notin Administrators]_vars
    BY LastAdministratorStep
  <1> QED
    BY <1>1, <1>2, <1>3, SpecRefines, PTL DEF Spec, LastAdministratorStands
-----------------------------------------------------------------------------
(***************************************************************************)
(* The caps and the claim.  While nothing has taken them apart, every      *)
(* account call under way is get_or_create with the role of the claim, or  *)
(* a debit or a credit, which found an account or may seed a member's: the *)
(* document that it seeds, rolls or writes has the caps of the claim.  A   *)
(* role change or a clear that nothing runs beside brings them together    *)
(* again: no call but its own is left to write another document.           *)
(***************************************************************************)
HasCapsOf(doc, role) ==
    /\ doc.motor_limit = Defaults(role, 0).motor_limit
    /\ doc.simulation_limit = Defaults(role, 0).simulation_limit
    /\ doc.monthly_token_limit = Defaults(role, 0).monthly_token_limit

Linked == \A r \in Requests : req[r].at # "account" => call[r] = NoCall

AloneIsAlone == \A r \in Busy : task[r].alone => Busy = {r}

CallInLine(r) ==
    At(r, "account") =>
        /\ \/ call[r].op = GetOrCreate(claim[Subject])
           \/ call[r].op.name \in {"debit", "credit"}
        /\ call[r].at \in {"read", "seed", "write", "returned", "rejected"}
        /\ call[r].at \in {"seed", "write"} => HasCapsOf(call[r].doc, claim[Subject])

InLine(r) ==
    /\ task[r].kind # "limits"
    /\ task[r].kind = "set_role" => task[r].target # Subject
    /\ CallInLine(r)

AccountInLine == account # Absent => HasCapsOf(account, claim[Subject])

Resetting(r) ==
    /\ claim[Subject] = task[r].to
    /\ call[r].op = ResetToRole(task[r].to)
    /\ call[r].at \in {"read", "seed", "write", "returned"}
    /\ call[r].at = "returned" => AccountInLine

Clearing(r) ==
    /\ req[r].kind = "wipe"
    /\ req[r].at \in {"list", "wipe_account", "delete_next", "wiped"}
    /\ req[r].at \in {"delete_next", "wiped"} => account = Absent

Restoring(r) ==
    task[r].alone =>
        /\ task[r].kind = "set_role" /\ At(r, "account") => Resetting(r)
        /\ task[r].kind = "clear" => Clearing(r)

FaithInv ==
    /\ Linked
    /\ AloneIsAlone
    /\ claim[Subject] # Absent =>
          /\ faithful => AccountInLine /\ \A r \in Requests : InLine(r)
          /\ \A r \in Requests : Restoring(r)

\* the documents that get_or_create, debit, credit and
\* reset_to_role_defaults write
LEMMA CapsOfDocuments ==
    ASSUME NEW role \in Roles, NEW doc \in Account, NEW now \in Nat
    PROVE  /\ HasCapsOf(Defaults(role, now), role)
           /\ HasCapsOf(doc, role) => HasCapsOf(Rolled(doc, now), role)
           /\ \A tokens : HasCapsOf(doc, role) =>
                 HasCapsOf(Debited(doc, tokens), role) /\ HasCapsOf(Credited(doc, tokens), role)
           /\ HasCapsOf(WithRoleCaps(doc, role), role)
           /\ HasCapsOf(doc, role) => doc = WithRoleCaps(doc, role)
  <1>1. HasCapsOf(Defaults(role, now), role)
    BY DEF HasCapsOf, Defaults
  <1>2. HasCapsOf(doc, role) => HasCapsOf(Rolled(doc, now), role)
    BY DEF HasCapsOf, Rolled, Account
  <1>3. HasCapsOf(WithRoleCaps(doc, role), role)
    BY DEF HasCapsOf, WithRoleCaps, Account
  <1>4. ASSUME HasCapsOf(doc, role)
        PROVE  doc = WithRoleCaps(doc, role)
    <2> DEFINE caps == Defaults(role, 0)
    <2>1. /\ caps.motor_limit = doc.motor_limit
          /\ caps.simulation_limit = doc.simulation_limit
          /\ caps.monthly_token_limit = doc.monthly_token_limit
      BY <1>4 DEF HasCapsOf
    <2>2. WithRoleCaps(doc, role) =
             [doc EXCEPT !.motor_limit = caps.motor_limit,
                         !.simulation_limit = caps.simulation_limit,
                         !.monthly_token_limit = caps.monthly_token_limit]
      BY DEF WithRoleCaps
    <2> HIDE DEF caps
    <2> QED
      BY <2>1, <2>2 DEF Account
  <1>5. ASSUME NEW tokens, HasCapsOf(doc, role)
        PROVE  HasCapsOf(Debited(doc, tokens), role) /\ HasCapsOf(Credited(doc, tokens), role)
    BY <1>5 DEF HasCapsOf, Debited, Credited, Account
  <1> QED
    BY <1>1, <1>2, <1>3, <1>4, <1>5

LEMMA FaithGivesCaps ==
    ASSUME MotorTypeOK, TasksOK, FaithInv
    PROVE  CapsFollowClaim
  <1> SUFFICES ASSUME faithful, account # Absent, claim[Subject] # Absent
               PROVE  account = WithRoleCaps(account, claim[Subject])
    BY DEF CapsFollowClaim
  <1>1. claim[Subject] \in Roles /\ account \in Account
    BY SubjectAssumption DEF TasksOK, MotorTypeOK, TypeOK
  <1>2. HasCapsOf(account, claim[Subject])
    BY DEF FaithInv, AccountInLine
  <1> QED
    BY <1>1, <1>2, CapsOfDocuments

\* a request arrives, and its first step leaves the account as it is
LEMMA ArriveFaith ==
    ASSUME TasksOK, FaithInv, NEW r \in Requests, NEW kind, NEW new \in TaskType(kind),
           new.kind = kind, Arrive(r, new), UNCHANGED <<claim, account>>,
           \A q \in Requests : q = r \/ (req'[q] = req[q] /\ call'[q] = call[q]),
           req'[r].at # "account" => call'[r] = NoCall,
           faithful' => faithful,
           faithful' => /\ kind # "limits"
                        /\ kind = "set_role" => new.target # Subject
                        /\ claim[Subject] # Absent => CallInLine(r)',
           kind = "set_role" => req'[r].at # "account",
           kind = "clear" => Clearing(r)'
    PROVE  FaithInv'
  <1>1. /\ task[r] = NoTask
        /\ task'[r] = [new EXCEPT !.alone = Busy = {}]
        /\ \A q \in Requests :
              q = r \/ task'[q] = IF q \in Busy THEN [task[q] EXCEPT !.alone = FALSE] ELSE NoTask
    BY DEF Arrive
  <1>2. /\ task'[r].kind = kind /\ (task'[r].alone => Busy = {}) /\ task'[r] # NoTask
        /\ task'[r].target = new.target
    <2>1. /\ task'[r].kind = kind /\ (task'[r].alone = (Busy = {})) /\ kind # "none"
          /\ task'[r].target = new.target
      BY <1>1 DEF TaskType
    <2> QED
      BY <2>1, NoTaskKind
  <1>3. ASSUME NEW q \in Requests, q # r
        PROVE  /\ task'[q].alone = FALSE /\ task'[q].kind = task[q].kind
               /\ task'[q].target = task[q].target
               /\ task'[q] # NoTask => task[q] # NoTask
    <2>1. CASE q \in Busy
      <3>1. task[q] \in TaskType(task[q].kind) /\ task'[q] = [task[q] EXCEPT !.alone = FALSE]
        BY <1>1, <1>3, <2>1 DEF Busy, TasksOK
      <3>2. task[q] # NoTask
        BY <2>1 DEF Busy
      <3> QED
        BY <3>1, <3>2 DEF TaskType
    <2>2. CASE q \notin Busy
      <3>1. task'[q] = NoTask /\ task[q] = NoTask
        BY <1>1, <1>3, <2>2 DEF Busy
      <3>2. NoTask.alone = FALSE
        BY DEF NoTask
      <3> QED
        BY <3>1, <3>2
    <2> QED
      BY <2>1, <2>2
  <1>4. Linked'
    BY DEF FaithInv, Linked
  <1>5. AloneIsAlone'
    <2> SUFFICES ASSUME NEW q \in Busy', task'[q].alone
                 PROVE  Busy' = {q}
      BY DEF AloneIsAlone
    <2>1. q = r
      BY <1>3 DEF Busy
    <2>2. Busy = {}
      BY <1>2, <2>1
    <2>3. \A p \in Requests : p # r => task[p] = NoTask
      BY <2>2 DEF Busy
    <2> QED
      BY <1>2, <1>3, <2>1, <2>3 DEF Busy
  <1>6. ASSUME claim[Subject] # Absent, faithful', NEW q \in Requests
        PROVE  InLine(q)'
    BY <1>2, <1>3, <1>6 DEF FaithInv, InLine, CallInLine, At
  <1>7. AccountInLine' = AccountInLine
    BY DEF AccountInLine
  <1>8. ASSUME NEW q \in Requests
        PROVE  Restoring(q)'
    BY <1>2, <1>3 DEF Restoring, At
  <1> QED
    BY <1>4, <1>5, <1>6, <1>7, <1>8 DEF FaithInv

\* a step within request r, from what it does to r and to the account
LEMMA FaithLocal ==
    ASSUME TasksOK, FaithInv, NEW r \in Busy,
           task'[r] \in {NoTask, task[r]},
           \A q \in Requests : q = r \/ (/\ task'[q] = task[q] /\ req'[q] = req[q]
                                         /\ call'[q] = call[q]),
           req'[r].at # "account" => call'[r] = NoCall,
           claim'[Subject] # Absent =>
               /\ claim[Subject] # Absent
               /\ faithful' => AccountInLine' /\ InLine(r)'
               /\ faithful' => (faithful /\ claim'[Subject] = claim[Subject]) \/ task[r].alone
               /\ task'[r] # NoTask => Restoring(r)'
    PROVE  FaithInv'
  <1>1. Linked'
    BY DEF FaithInv, Linked
  <1>2. Busy' \subseteq Busy
    BY DEF Busy
  <1>3. r \in Requests
    BY DEF Busy
  <1>4. task[r].alone => Busy = {r}
    BY DEF FaithInv, AloneIsAlone
  <1>5. \A q \in Requests : q # r => ~task'[q].alone
    <2> SUFFICES ASSUME NEW q \in Requests, q # r, task[q].alone
                 PROVE  FALSE
      OBVIOUS
    <2>1. task[q] # NoTask
      BY DEF NoTask
    <2> QED
      BY <2>1 DEF FaithInv, AloneIsAlone, Busy
  <1>6. AloneIsAlone'
    BY <1>2, <1>3, <1>4, <1>5 DEF AloneIsAlone, Busy
  <1>7. ASSUME claim'[Subject] # Absent, faithful', NEW q \in Requests, q # r
        PROVE  InLine(q)'
    <2>1. CASE faithful /\ claim'[Subject] = claim[Subject]
      BY <1>7, <2>1 DEF FaithInv, InLine, CallInLine, At
    <2>2. CASE task[r].alone
      <3>1. task[q] = NoTask /\ req[q] = NoRequest
        BY <1>4, <1>7, <2>2, NoTaskKind DEF Busy, TasksOK
      <3> QED
        BY <1>7, <3>1 DEF InLine, CallInLine, At, NoTask, NoRequest
    <2> QED
      BY <1>7, <2>1, <2>2
  <1>8. ASSUME claim'[Subject] # Absent, NEW q \in Requests
        PROVE  Restoring(q)'
    <2>1. CASE q = r
      BY <1>8, <2>1 DEF Restoring, NoTask
    <2>2. CASE q # r
      BY <1>5, <1>8, <2>2 DEF Restoring
    <2> QED
      BY <2>1, <2>2
  <1> QED
    BY <1>1, <1>3, <1>6, <1>7, <1>8 DEF FaithInv

LEMMA StartFaith ==
    ASSUME MotorTypeOK, TasksOK, FaithInv, NEW r \in Requests, RequestStart(r)
    PROVE  FaithInv'
  <1>1. req \in [Requests -> RequestType] /\ call \in [Clients -> CallType] /\ r \in Clients
    BY MotorRequestsAreClients DEF MotorTypeOK, TypeOK
  <1>2. \A kind : kind \notin {"set_role", "disable", "limits", "submit"} => Absent \in Aims(kind)
    BY DEF Aims
  <1>3. ASSUME NEW kind, kind # "none", NEW actor \in Users, NEW u \in Users, NEW to \in Aims(kind),
               Arrive(r, Task(kind, actor, u, to)), UNCHANGED users, account' = account,
               \A q \in Requests : q = r \/ (req'[q] = req[q] /\ call'[q] = call[q]),
               req'[r].at # "account" => call'[r] = NoCall,
               faithful' => faithful,
               faithful' => /\ kind # "limits"
                            /\ kind = "set_role" => u # Subject
                            /\ claim[Subject] # Absent => CallInLine(r)',
               kind = "set_role" => req'[r].at # "account",
               kind = "clear" => Clearing(r)'
        PROVE  FaithInv'
    <2> DEFINE new == Task(kind, actor, u, to)
    <2>1. new \in TaskType(kind) /\ new.kind = kind /\ new.target = u
      BY <1>3, NewTask DEF Task
    <2>2. Arrive(r, new) /\ claim' = claim
      BY <1>3 DEF users
    <2> HIDE DEF new
    <2> QED
      BY <1>3, <2>1, <2>2, ArriveFaith
  \* a request whose first step is not about the account
  <1>4. ASSUME NEW kind, kind # "none", NEW actor \in Users, NEW u \in Users, NEW to \in Aims(kind),
               Arrive(r, Task(kind, actor, u, to)), UNCHANGED <<users, storeVars>>,
               \A q \in Requests : q = r \/ req'[q] = req[q],
               req'[r].at # "account",
               faithful' => faithful /\ kind # "limits" /\ (kind = "set_role" => u # Subject),
               kind = "clear" => req'[r].kind = "wipe" /\ req'[r].at = "list"
        PROVE  FaithInv'
    <2>1. req[r] = NoRequest
      BY <1>4, NoTaskKind DEF Arrive, TasksOK
    <2>2. account' = account /\ call' = call /\ call[r] = NoCall
      BY <1>4, <2>1 DEF storeVars, FaithInv, Linked, NoRequest
    <2>3. CallInLine(r)'
      BY <1>4 DEF CallInLine, At
    <2>4. kind = "clear" => Clearing(r)'
      BY <1>4 DEF Clearing
    <2> QED
      BY <1>3, <1>4, <2>2, <2>3, <2>4
  \* get_or_create, with the role of the claim if it is to be faithful
  <1>5. ASSUME NEW kind \in {"lookup", "limits", "view", "create", "submit"},
               NEW actor \in Users, NEW to \in Aims(kind), NEW role,
               Arrive(r, Task(kind, actor, Subject, to)), UNCHANGED <<users, account>>,
               \A q \in Requests : q = r \/ req'[q] = req[q],
               req'[r].at = "account", Invoke(r, GetOrCreate(role)),
               faithful' => faithful /\ kind # "limits" /\ role = claim[Subject]
        PROVE  FaithInv'
    <2>1. call'[r].at = "read" /\ call'[r].op = GetOrCreate(role)
      BY <1>1, <1>5 DEF Invoke, Begun, GetOrCreate
    <2>2. \A q \in Requests : q = r \/ call'[q] = call[q]
      BY <1>1, <1>5 DEF Invoke
    <2>3. faithful' => CallInLine(r)'
      BY <1>5, <2>1 DEF CallInLine, users
    <2> QED
      BY <1>3, <1>5, <2>2, <2>3, SubjectAssumption
  <1>6. ASSUME NEW kind, kind # "none", NEW actor \in Users, NEW u \in Users, NEW to \in Aims(kind),
               Arrive(r, Task(kind, actor, u, to)), UNCHANGED <<users, motorVars>>,
               faithful' => faithful /\ kind # "limits" /\ (kind = "set_role" => u # Subject),
               kind # "clear"
        PROVE  FaithInv'
    <2>1. req[r] = NoRequest
      BY <1>6, NoTaskKind DEF Arrive, TasksOK
    <2> QED
      BY <1>4, <1>6, <2>1 DEF motorVars, NoRequest
  <1>7. ASSUME NEW actor \in Users, NEW u \in Users, NEW role \in Roles,
               SetRoleStart(r, actor, u, role)
        PROVE  FaithInv'
    <2>1. role \in Aims("set_role")
      BY DEF Aims
    <2> QED
      BY <1>6, <1>7, <2>1 DEF SetRoleStart
  <1>8. ASSUME NEW actor \in Users, NEW u \in Users, NEW disable \in BOOLEAN,
               DisableStart(r, actor, u, disable)
        PROVE  FaithInv'
    <2>1. disable \in Aims("disable")
      BY DEF Aims
    <2> QED
      BY <1>6, <1>8, <2>1 DEF DisableStart
  <1>9. ASSUME NEW kind, kind \notin {"none", "set_role", "disable", "limits", "submit"},
               NEW actor \in Users,
               Arrive(r, Task(kind, actor, Subject, Absent)), UNCHANGED <<users, faithful>>,
               \/ WipeStart(r)
               \/ kind # "clear" /\ (ClearStart(r) \/ \E m : UpdateStart(r, m) \/ DeleteStart(r, m))
        PROVE  FaithInv'
    <2>1. UNCHANGED storeVars /\ req'[r].at # "account"
      BY <1>1, <1>9 DEF WipeStart, ClearStart, UpdateStart, DeleteStart, Accept, NoRequest
    <2>2. \A q \in Requests : q = r \/ req'[q] = req[q]
      BY <1>9, OthersStay
    <2>3. kind = "clear" => req'[r].kind = "wipe" /\ req'[r].at = "list"
      BY <1>1, <1>9 DEF WipeStart, Accept, NoRequest
    <2> QED
      BY <1>2, <1>4, <1>9, <2>1, <2>2, <2>3, SubjectAssumption
  <1>10. ASSUME NEW actor \in Users, NEW u \in Users,
                AdminDeleteUser(r, actor, u) \/ DeleteAccount(r, u)
         PROVE  FaithInv'
    <2>1. PICK kind \in Deletions, by \in Users :
             Arrive(r, Task(kind, by, u, Absent)) /\ WipeOf(r, u) /\ UNCHANGED <<users, faithful>>
      BY <1>10 DEF AdminDeleteUser, DeleteAccount, Deletions
    <2>2. CASE u = Subject
      BY <1>9, <2>1, <2>2 DEF WipeOf, Deletions
    <2>3. CASE u # Subject
      BY <1>2, <1>6, <2>1, <2>3 DEF WipeOf, Deletions
    <2> QED
      BY <2>2, <2>3
  <1>11. ASSUME NEW role, AccountStart(r, GetOrCreate(role)) \/ CreateStart(r, role)
         PROVE  /\ req'[r].at = "account" /\ Invoke(r, GetOrCreate(role)) /\ account' = account
                /\ \A q \in Requests : q = r \/ req'[q] = req[q]
    BY <1>1, <1>11 DEF AccountStart, CreateStart, Accept, NoRequest
  <1>12. ASSUME NEW actor \in Users, NEW role \in TargetRoles, LookUp(r, actor, role)
         PROVE  FaithInv'
    BY <1>2, <1>5, <1>11, <1>12 DEF LookUp
  <1>13. ASSUME NEW actor \in Users, NEW role \in TargetRoles, NEW updates \in Overrides,
                LimitsStart(r, actor, role, updates)
         PROVE  FaithInv'
    <2>1. updates \in Aims("limits")
      BY DEF Aims
    <2> QED
      BY <1>5, <1>11, <1>13, <2>1 DEF LimitsStart
  <1>14. ASSUME NEW role \in Roles, View(r, role) \/ CreateMotor(r, role)
         PROVE  FaithInv'
    BY <1>2, <1>5, <1>11, <1>14, SubjectAssumption DEF View, CreateMotor
  <1>15. ASSUME \/ \E actor \in Users : ClearMotors(r, actor)
                \/ \E m \in MotorIds : ChangeMotor(r, m)
                \/ ClearAccount(r)
         PROVE  FaithInv'
    BY <1>9, <1>15, SubjectAssumption DEF ClearMotors, ChangeMotor, ClearAccount
  <1>16. ASSUME NEW role \in Roles, NEW tokens \in Amounts, Submit(r, role, tokens)
         PROVE  FaithInv'
    <2>1. tokens \in Aims("submit")
      BY DEF Aims
    <2> QED
      BY <1>5, <1>11, <1>16, <2>1, SubjectAssumption DEF Submit
  <1>17. ASSUME NEW op \in Charges, Charge(r, op)
         PROVE  FaithInv'
    <2>1. op.name \in {"debit", "credit"}
      BY DEF Charges, Debit, Credit
    <2>2. /\ call'[r].at = "read" /\ call'[r].op = op /\ account' = account
          /\ req'[r].at = "account"
          /\ \A q \in Requests : q = r \/ (req'[q] = req[q] /\ call'[q] = call[q])
      BY <1>1, <1>17, <2>1 DEF Charge, AccountStart, Accept, Invoke, Begun, NoRequest
    <2>3. CallInLine(r)'
      BY <2>1, <2>2 DEF CallInLine
    <2>4. Absent \in Aims("charge")
      BY <1>2
    <2> QED
      BY <1>3, <1>17, <2>2, <2>3, <2>4, SubjectAssumption DEF Charge
  <1> QED
    BY <1>7, <1>8, <1>10, <1>12, <1>13, <1>14, <1>15, <1>16, <1>17 DEF RequestStart

\* a request that is answered or cut off leaves nothing to go on with
LEMMA LeaveFaith ==
    ASSUME TasksOK, FaithInv, NEW r \in Busy,
           task'[r] = NoTask, req'[r] = NoRequest, call'[r] = NoCall,
           \A q \in Requests : q = r \/ (/\ task'[q] = task[q] /\ req'[q] = req[q]
                                         /\ call'[q] = call[q]),
           claim'[Subject] # Absent => claim'[Subject] = claim[Subject],
           \/ (faithful' => faithful) /\ account' \in {account, Absent}
           \/ claim[Subject] # Absent => task[r].alone /\ AccountInLine /\ account' = account
    PROVE  FaithInv'
  <1>1. InLine(r)'
    BY NoTaskKind DEF InLine, CallInLine, At, NoRequest
  <1>2. ASSUME claim'[Subject] # Absent, faithful'
        PROVE  AccountInLine' /\ (faithful \/ task[r].alone)
    BY <1>2 DEF FaithInv, AccountInLine
  <1> QED
    BY <1>1, <1>2, FaithLocal

\* the account call of a request that reads, rolls and writes
LEMMA AccountStepFaith ==
    ASSUME MotorTypeOK, TasksOK, FaithInv, NEW r \in Busy, AccountStep(r), UNCHANGED users,
           faithful' = (faithful /\ ~SeedsAsMember(r)),
           task'[r] = task[r], \A q \in Requests : q = r \/ task'[q] = task[q]
    PROVE  FaithInv'
  <1>1. /\ call \in [Clients -> CallType] /\ r \in Requests /\ r \in Clients
        /\ req' = req /\ claim' = claim /\ month \in Nat
    BY MotorRequestsAreClients DEF MotorTypeOK, TypeOK, Busy, AccountStep, users
  <1>2. \A q \in Requests : q = r \/ call'[q] = call[q]
    BY <1>1, MotorRequestsAreClients DEF AccountStep, Read, Seed, Write, Advance
  <1>3. At(r, "account") /\ call'[r].op = call[r].op
    BY <1>1 DEF AccountStep, Read, Seed, Write, Advance, FaithInv, Linked, NoCall, At
  <1> SUFFICES ASSUME claim[Subject] # Absent
               PROVE  /\ faithful' => AccountInLine' /\ CallInLine(r)'
                      /\ Restoring(r)'
    <2>1. faithful /\ claim[Subject] # Absent =>
             task[r].kind # "limits" /\ (task[r].kind = "set_role" => task[r].target # Subject)
      BY <1>1 DEF FaithInv, InLine
    <2>2. faithful' => faithful
      OBVIOUS
    <2>3. CallInLine(r)' /\ faithful /\ claim[Subject] # Absent => InLine(r)'
      BY <2>1 DEF InLine
    <2> QED
      BY <1>1, <1>2, <1>3, <2>2, <2>3, FaithLocal DEF At
  <1>4. claim[Subject] \in Roles
    BY SubjectAssumption DEF TasksOK
  <1>5. /\ account # Absent => account \in Account
        /\ call[r].at \in {"seed", "write"} => call[r].doc \in Account
    BY <1>1 DEF MotorTypeOK, TypeOK
  <1>6. ASSUME faithful'
        PROVE  AccountInLine' /\ CallInLine(r)'
    <2> DEFINE role == claim[Subject]
    <2>1. faithful /\ ~SeedsAsMember(r) /\ AccountInLine /\ CallInLine(r)
      BY <1>1, <1>6 DEF FaithInv, InLine
    <2>2. /\ \/ call[r].op = GetOrCreate(role)
             \/ call[r].op.name \in {"debit", "credit"}
          /\ call[r].at \in {"read", "seed", "write", "returned", "rejected"}
          /\ call[r].at \in {"seed", "write"} => HasCapsOf(call[r].doc, role)
      BY <1>3, <2>1 DEF CallInLine
    <2>3. \A doc : AfterGet(call[r].op, doc) \in {"returned", "rejected", "write"}
      BY DEF AfterGet
    <2>4. CASE Read(r)
      <3>1. AccountInLine'
        BY <1>1, <2>1, <2>4 DEF Read, AccountInLine
      <3>2. CASE call'[r].at = "seed" /\ account = Absent
                 /\ call'[r].doc = Defaults(SeedRole(call[r].op), month)
        <4>1. SeedRole(call[r].op) = role
          BY <2>1, <2>2, <2>4, <3>2 DEF Read, SeedsAsMember, SeedRole, GetOrCreate
        <4>2. HasCapsOf(call'[r].doc, role)
          BY <3>2, <4>1 DEF HasCapsOf, Defaults
        <4> QED
          BY <1>1, <1>3, <2>2, <3>1, <3>2, <4>2 DEF CallInLine
      <3>3. CASE call'[r].at = "seed" /\ account # Absent /\ call'[r].doc = Rolled(account, month)
        <4>1. HasCapsOf(call'[r].doc, role)
          BY <1>1, <1>4, <1>5, <2>1, <3>3, CapsOfDocuments DEF AccountInLine
        <4> QED
          BY <1>1, <1>3, <2>2, <3>1, <3>3, <4>1 DEF CallInLine
      <3>4. CASE /\ call'[r].at \in {"returned", "rejected", "write"} /\ account # Absent
                 /\ call'[r].doc = account
        BY <1>1, <1>3, <2>1, <2>2, <3>1, <3>4 DEF CallInLine, AccountInLine
      <3> HIDE DEF role
      <3> QED
        BY <1>1, <2>3, <2>4, <3>2, <3>3, <3>4 DEF Read, Advance
    <2>5. CASE Seed(r)
      <3>1. /\ account' = call[r].doc /\ HasCapsOf(call[r].doc, role) /\ call'[r].doc = call[r].doc
            /\ call'[r].at \in {"returned", "rejected", "write"}
        BY <1>1, <2>2, <2>3, <2>5 DEF Seed, Advance
      <3> QED
        BY <1>1, <1>3, <2>2, <3>1 DEF AccountInLine, CallInLine
    <2>6. CASE Write(r)
      <3>1. /\ account' = Applied(call[r].op, call[r].doc) /\ call'[r].at = "returned"
            /\ HasCapsOf(call[r].doc, role) /\ call[r].doc \in Account
        BY <1>1, <1>5, <2>2, <2>6 DEF Write, Advance
      <3>2. HasCapsOf(account', role)
        <4>1. Applied(call[r].op, call[r].doc) \in
                 {call[r].doc, Debited(call[r].doc, call[r].op.tokens),
                  Credited(call[r].doc, call[r].op.tokens)}
          BY <2>2 DEF Applied, GetOrCreate
        <4> QED
          BY <1>1, <1>4, <3>1, <4>1, CapsOfDocuments
      <3> QED
        BY <1>1, <1>3, <2>2, <3>1, <3>2 DEF AccountInLine, CallInLine
    <2> QED
      BY <2>4, <2>5, <2>6 DEF AccountStep
  <1>7. Restoring(r)'
    <2> SUFFICES ASSUME task[r].alone
                 PROVE  Restoring(r)'
      BY DEF Restoring
    <2>1. Restoring(r)
      BY <1>1 DEF FaithInv
    <2>2. task[r].kind # "clear"
      BY <1>3, <2>1 DEF Restoring, Clearing, At
    <2>3. CASE task[r].kind = "set_role"
      <3>1. Resetting(r)
        BY <1>3, <2>1, <2>3 DEF Restoring
      <3>2. /\ call[r].op = ResetToRole(task[r].to) /\ task[r].to = claim[Subject]
            /\ call[r].at \in {"read", "seed", "write", "returned"}
        BY <3>1 DEF Resetting
      <3>3. \A doc : AfterGet(call[r].op, doc) = "write" /\ Applied(call[r].op, doc) = WithRoleCaps(doc, task[r].to)
        BY <3>2 DEF AfterGet, Applied, ResetToRole
      <3>4. CASE call'[r].at \in {"seed", "write"}
        BY <1>1, <1>3, <2>2, <3>2, <3>4 DEF Restoring, Resetting
      <3>5. CASE Write(r)
        <4>1. account' = WithRoleCaps(call[r].doc, claim[Subject]) /\ call'[r].at = "returned"
          BY <1>1, <3>2, <3>3, <3>5 DEF Write, Advance
        <4>2. HasCapsOf(account', claim[Subject])
          BY <1>4, <1>5, <3>5, <4>1, CapsOfDocuments, LastPeriodAssumption DEF Write
        <4>3. AccountInLine'
          BY <1>1, <4>2 DEF AccountInLine
        <4> QED
          BY <1>1, <1>3, <2>2, <3>2, <4>1, <4>3 DEF Restoring, Resetting
      <3>6. CASE Read(r) \/ Seed(r)
        BY <1>1, <3>3, <3>4, <3>6 DEF Read, Seed, Advance
      <3> QED
        BY <3>5, <3>6 DEF AccountStep
    <2>4. CASE task[r].kind # "set_role"
      BY <2>2, <2>4 DEF Restoring
    <2> QED
      BY <2>3, <2>4
  <1> QED
    BY <1>6, <1>7

LEMMA SetClaimsFaith ==
    ASSUME MotorTypeOK, TasksOK, FaithInv, NEW r \in Requests, SetClaims(r),
           \A q \in Requests : q = r \/ (/\ task'[q] = task[q] /\ req'[q] = req[q]
                                         /\ call'[q] = call[q])
    PROVE  FaithInv'
  <1>1. /\ req \in [Requests -> RequestType] /\ call \in [Clients -> CallType] /\ r \in Clients
        /\ claim \in [Users -> Roles \cup {Absent}] /\ faithful' = faithful
    BY MotorRequestsAreClients DEF MotorTypeOK, TypeOK, TasksOK, SetClaims
  <1>2. /\ task[r].target \in Users /\ task[r].to \in Roles /\ task[r] # NoTask
        /\ req[r] = NoRequest /\ task[r].kind = "set_role"
    BY AimOfTask DEF SetClaims
  <1>3. r \in Busy /\ call[r] = NoCall
    BY <1>2 DEF Busy, FaithInv, Linked, NoRequest
  <1>4. CASE Leave(r) /\ UNCHANGED motorVars /\ claim'[Subject] = claim[Subject]
    <2>1. task'[r] = NoTask /\ req'[r] = NoRequest /\ call'[r] = NoCall /\ account' = account
      BY <1>2, <1>3, <1>4, LeavingTask DEF motorVars, storeVars
    <2> QED
      BY <1>1, <1>3, <1>4, <2>1, LeaveFaith
  <1>5. CASE /\ task[r].target = Subject /\ claim[Subject] # Absent
             /\ claim' = [claim EXCEPT ![Subject] = task[r].to]
             /\ AccountStart(r, ResetToRole(task[r].to)) /\ UNCHANGED task
    <2>1. ~faithful
      BY <1>2, <1>5 DEF FaithInv, InLine
    <2>2. /\ call'[r].at = "read" /\ call'[r].op = ResetToRole(task[r].to)
          /\ req'[r].at = "account"
      BY <1>1, <1>5 DEF AccountStart, Accept, Invoke, Begun, ResetToRole, NoRequest
    <2>3. claim'[Subject] = task[r].to
      BY <1>1, <1>5, SubjectAssumption
    <2>4. Restoring(r)'
      BY <1>2, <1>5, <2>2, <2>3 DEF Restoring, Resetting
    <2> QED
      BY <1>1, <1>3, <1>5, <2>1, <2>2, <2>4, FaithLocal
  <1>6. task[r].target # Subject => claim'[Subject] = claim[Subject]
    BY <1>1, SubjectAssumption DEF SetClaims
  <1> QED
    BY <1>4, <1>5, <1>6 DEF SetClaims

LEMMA MotorStepFaith ==
    ASSUME MotorTypeOK, TasksOK, FaithInv, NEW r \in Busy, MotorStep(r),
           \A q \in Requests : q = r \/ (/\ task'[q] = task[q] /\ req'[q] = req[q]
                                         /\ call'[q] = call[q])
    PROVE  FaithInv'
  <1>1. /\ req \in [Requests -> RequestType] /\ call \in [Clients -> CallType]
        /\ r \in Requests /\ r \in Clients
        /\ UNCHANGED users /\ claim' = claim /\ faithful' = (faithful /\ ~SeedsAsMember(r))
    BY MotorRequestsAreClients DEF MotorTypeOK, TypeOK, Busy, MotorStep, users
  <1>2. task' = [task EXCEPT ![r] = IF req'[r] = NoRequest THEN NoTask ELSE task[r]]
    BY DEF MotorStep
  <1>3. CASE Finish(r) /\ account' \in {account, Absent}
    <2>1. req'[r] = NoRequest /\ call'[r] = NoCall
      BY <1>1, <1>3 DEF Finish, Forget
    <2>2. task'[r] = NoTask
      <3>1. r \in DOMAIN task
        BY <1>1 DEF TasksOK
      <3> HIDE DEF NoTask, NoRequest
      <3> QED
        BY <1>2, <2>1, <3>1
    <2> QED
      BY <1>1, <1>3, <2>1, <2>2, LeaveFaith
  <1>4. CASE /\ req'[r].at \notin {"account", "idle"} /\ call'[r] = NoCall
             /\ account' \in {account, Absent}
             /\ claim[Subject] # Absent /\ task[r].alone /\ task[r].kind = "clear" => Clearing(r)'
    <2>1. task'[r] = task[r]
      <3>1. req'[r] # NoRequest
        BY <1>4 DEF NoRequest
      <3> QED
        BY <1>1, <1>2, <3>1 DEF TasksOK
    <2>2. ASSUME claim[Subject] # Absent, faithful
          PROVE  AccountInLine' /\ InLine(r)'
      BY <1>1, <1>4, <2>1, <2>2 DEF FaithInv, AccountInLine, InLine, CallInLine, At
    <2>3. ASSUME claim[Subject] # Absent
          PROVE  Restoring(r)'
      BY <1>4, <2>1, <2>3 DEF Restoring, At
    <2> QED
      BY <1>1, <1>4, <2>1, <2>2, <2>3, FaithLocal
  <1>5. ASSUME claim[Subject] # Absent, task[r].alone, task[r].kind = "clear"
        PROVE  Clearing(r)
    BY <1>1, <1>5 DEF FaithInv, Restoring
  <1>6. req[r].at # "account" => call[r] = NoCall
    BY <1>1 DEF FaithInv, Linked
  <1>7. CASE CreateAdmit(r)
    <2>1. CASE Finish(r)
      BY <1>3, <1>7, <2>1 DEF CreateAdmit
    <2>2. CASE Forget(r) /\ \E m : req' = [req EXCEPT ![r].at = "save", ![r].motor = m]
      <3>1. req'[r].at = "save" /\ call'[r] = NoCall /\ account' = account
        <4>1. PICK m : req' = [req EXCEPT ![r].at = "save", ![r].motor = m]
          BY <2>2
        <4>2. req'[r].at = "save"
          BY <1>1, <4>1 DEF RequestType
        <4>3. call'[r] = NoCall
          BY <1>1, <2>2 DEF Forget
        <4> QED
          BY <1>7, <4>2, <4>3 DEF CreateAdmit
      <3>2. ~(claim[Subject] # Absent /\ task[r].alone /\ task[r].kind = "clear")
        BY <1>5, <1>7 DEF Clearing, CreateAdmit, At
      <3> QED
        BY <1>4, <3>1, <3>2
    <2> QED
      BY <1>7, <2>1, <2>2 DEF CreateAdmit
  <1>8. CASE SaveMotor(r)
    BY <1>3, <1>8 DEF SaveMotor
  <1>9. CASE ListPrefix(r)
    <2>1. /\ req'[r].at = IF req[r].kind = "wipe" /\ account # Absent THEN "wipe_account"
                          ELSE "delete_next"
          /\ req'[r].kind = req[r].kind /\ account' = account /\ call' = call
          /\ call[r] = NoCall
      BY <1>1, <1>6, <1>9 DEF ListPrefix, storeVars, At
    <2>2. Clearing(r) => Clearing(r)'
      BY <2>1 DEF Clearing
    <2> QED
      BY <1>4, <1>5, <2>1, <2>2
  <1>10. CASE WipeAccount(r)
    <2>1. CASE Finish(r)
      BY <1>3, <1>10, <2>1 DEF WipeAccount
    <2>2. CASE Go(r, "delete_next") /\ UNCHANGED call
      <3>1. /\ req'[r].at = "delete_next" /\ req'[r].kind = req[r].kind /\ account' = Absent
            /\ call'[r] = NoCall
        BY <1>1, <1>6, <1>10, <2>2 DEF WipeAccount, At, Go
      <3>2. Clearing(r) => Clearing(r)'
        BY <3>1 DEF Clearing
      <3> QED
        BY <1>4, <1>5, <3>1, <3>2
    <2> QED
      BY <1>10, <2>1, <2>2 DEF WipeAccount
  <1>11. CASE DeleteNext(r)
    <2>1. CASE Finish(r)
      BY <1>3, <1>11, <2>1 DEF DeleteNext
    <2>2. CASE UNCHANGED call /\ (Go(r, "wiped") \/ \E m : req' = [req EXCEPT ![r].doomed = @ \ {m}])
      <3>1. /\ req'[r].at \in {"delete_next", "wiped"} /\ req'[r].kind = req[r].kind
            /\ account' = account /\ call'[r] = NoCall /\ req[r].at = "delete_next"
        <4>1. req[r] \in RequestType
          BY <1>1
        <4>2. req'[r].at \in {"delete_next", "wiped"} /\ req'[r].kind = req[r].kind
          <5>1. CASE Go(r, "wiped")
            BY <1>1, <4>1, <5>1 DEF Go, RequestType
          <5>2. ASSUME NEW m, req' = [req EXCEPT ![r].doomed = @ \ {m}]
                PROVE  req'[r].at = req[r].at /\ req'[r].kind = req[r].kind
            BY <1>1, <4>1, <5>2 DEF RequestType
          <5> QED
            BY <1>11, <2>2, <5>1, <5>2 DEF DeleteNext, At
        <4>3. account' = account /\ call' = call /\ req[r].at = "delete_next"
          BY <1>11, <2>2 DEF DeleteNext, At
        <4> QED
          BY <1>6, <4>2, <4>3
      <3>2. Clearing(r) => Clearing(r)'
        BY <3>1 DEF Clearing
      <3> QED
        BY <1>4, <1>5, <3>1, <3>2
    <2> QED
      BY <1>11, <2>1, <2>2 DEF DeleteNext
  <1>12. CASE AccountStep(r)
    <2>1. req[r] # NoRequest
      BY <1>12, <1>6 DEF AccountStep, Read, Seed, Write, NoCall, NoRequest
    <2>2. task'[r] = task[r]
      BY <1>1, <1>2, <1>12, <2>1 DEF TasksOK, AccountStep
    <2> QED
      BY <1>1, <1>12, <2>2, AccountStepFaith
  <1> QED
    BY <1>7, <1>8, <1>9, <1>10, <1>11, <1>12 DEF MotorStep

LEMMA StepFaith ==
    ASSUME MotorTypeOK, TasksOK, FaithInv, NEW r \in Requests, RequestStep(r)
    PROVE  FaithInv'
  <1>1. /\ req \in [Requests -> RequestType] /\ call \in [Clients -> CallType] /\ r \in Clients
        /\ claim \in [Users -> Roles \cup {Absent}]
    BY MotorRequestsAreClients DEF MotorTypeOK, TypeOK, TasksOK
  <1>2. \A q \in Requests : q = r \/ (task'[q] = task[q] /\ req'[q] = req[q])
    BY OthersStay, StepKeepsTasks
       DEF RequestStep, SetClaims, UpdateUser, LimitsUpdate, SubmitDebit, Answer, Cleared,
           DeleteUser, MotorStep,
           CutOff
  <1>3. \A q \in Requests : q = r \/ call'[q] = call[q]
    <2>1. CASE UNCHANGED call \/ Finish(r) \/ Forget(r) \/ \E op : Invoke(r, op)
      BY <1>1, <2>1, MotorRequestsAreClients DEF Finish, Forget, Invoke
    <2>2. CASE AccountStep(r)
      BY <1>1, <2>2, MotorRequestsAreClients DEF AccountStep, Read, Seed, Write, Advance
    <2>3. CASE SetClaims(r) \/ UpdateUser(r) \/ LimitsUpdate(r) \/ SubmitDebit(r)
      BY <2>1, <2>3 DEF SetClaims, UpdateUser, LimitsUpdate, SubmitDebit, AccountStart,
                        AccountNext, motorVars,
                        storeVars
    <2>4. CASE Answer(r) \/ Cleared(r) \/ DeleteUser(r) \/ CutOff(r)
      BY <2>1, <2>4 DEF Answer, Cleared, DeleteUser, CutOff, AccountEnd, WipeEnd, Abort, motorVars,
                        storeVars
    <2>5. CASE MotorStep(r)
      BY <2>1, <2>2, <2>5 DEF MotorStep, CreateAdmit, SaveMotor, ListPrefix, WipeAccount,
                              DeleteNext,
                              storeVars
    <2> QED
      BY <2>3, <2>4, <2>5 DEF RequestStep
  <1>4. CASE r \notin Busy
    <2>1. task[r] = NoTask /\ req[r] = NoRequest /\ call[r] = NoCall
      <3>1. task[r] = NoTask /\ req[r] = NoRequest
        BY <1>4, NoTaskKind DEF Busy, TasksOK
      <3> QED
        BY <3>1 DEF FaithInv, Linked, NoRequest
    <2> QED
      BY <2>1, NoTaskKind
         DEF RequestStep, SetClaims, UpdateUser, LimitsUpdate, SubmitDebit, Answer, Cleared,
             DeleteUser, MotorStep,
             CutOff, AccountEnd, WipeEnd, CreateAdmit, SaveMotor, ListPrefix, WipeAccount, DeleteNext,
             AccountStep, Read, Seed, Write, At, NoRequest, NoCall, Deletions
  <1>5. CASE r \in Busy
    <2>1. ASSUME Leave(r), req'[r] = NoRequest, call'[r] = NoCall,
                 claim'[Subject] # Absent => claim'[Subject] = claim[Subject],
                 \/ (faithful' => faithful) /\ account' = account
                 \/ claim[Subject] # Absent => task[r].alone /\ AccountInLine /\ account' = account
          PROVE  FaithInv'
      BY <1>2, <1>3, <1>5, <2>1, LeavingTask, LeaveFaith
    <2>2. ASSUME Finish(r)
          PROVE  req'[r] = NoRequest /\ call'[r] = NoCall
      BY <1>1, <2>2 DEF Finish, Forget
    <2>3. ASSUME req[r] = NoRequest, UNCHANGED motorVars
          PROVE  req'[r] = NoRequest /\ call'[r] = NoCall /\ account' = account
      BY <2>3 DEF motorVars, storeVars, FaithInv, Linked, NoRequest
    <2>4. claim[Subject] # Absent => Restoring(r) /\ (faithful => AccountInLine)
      BY DEF FaithInv
    <2>5. CASE SetClaims(r)
      BY <1>2, <1>3, <2>5, SetClaimsFaith
    <2>6. CASE UpdateUser(r)
      <3>1. req[r] = NoRequest
        BY <2>6 DEF UpdateUser, TasksOK, Away
      <3> QED
        BY <2>1, <2>3, <2>6, <3>1 DEF UpdateUser
    <2>7. CASE LimitsUpdate(r)
      <3>1. /\ account' = account /\ req' = req /\ req[r].at = "account" /\ task' = task
            /\ claim' = claim /\ faithful' = faithful
        BY <2>7 DEF LimitsUpdate, AccountNext, At, users
      <3>2. claim[Subject] # Absent => ~faithful
        BY <2>7 DEF FaithInv, InLine, LimitsUpdate
      <3>3. Restoring(r)'
        BY <2>7, <3>1 DEF Restoring, LimitsUpdate
      <3> QED
        BY <1>2, <1>3, <1>5, <3>1, <3>2, <3>3, FaithLocal
    <2>8. CASE Answer(r)
      <3>1. /\ Finish(r) /\ Leave(r) /\ claim' = claim /\ account' = account
            /\ At(r, "account") /\ call[r].at \in {"returned", "rejected"}
            /\ faithful' = (faithful \/ (task[r].kind = "set_role" /\ task[r].alone))
        BY <2>8 DEF Answer, AccountEnd, users
      <3>2. CASE task[r].kind = "set_role" /\ task[r].alone
        <4>1. claim[Subject] # Absent => AccountInLine
          BY <2>4, <3>1, <3>2 DEF Restoring, Resetting
        <4> QED
          BY <2>1, <2>2, <3>1, <3>2, <4>1
      <3>3. CASE ~(task[r].kind = "set_role" /\ task[r].alone)
        BY <2>1, <2>2, <3>1, <3>3
      <3> QED
        BY <3>2, <3>3
    <2>9. CASE Cleared(r)
      <3>1. /\ Finish(r) /\ Leave(r) /\ claim' = claim /\ account' = account
            /\ At(r, "wiped") /\ task[r].kind = "clear"
            /\ faithful' = (faithful \/ task[r].alone)
        BY <2>9 DEF Cleared, WipeEnd, users
      <3>2. CASE task[r].alone
        <4>1. claim[Subject] # Absent => AccountInLine
          BY <2>4, <3>1, <3>2 DEF Restoring, Clearing, At, AccountInLine
        <4> QED
          BY <2>1, <2>2, <3>1, <3>2, <4>1
      <3>3. CASE ~task[r].alone
        BY <2>1, <2>2, <3>1, <3>3
      <3> QED
        BY <3>2, <3>3
    <2>10. CASE DeleteUser(r)
      <3>1. req'[r] = NoRequest /\ call'[r] = NoCall /\ account' = account
        <4>1. CASE task[r].target = Subject
          BY <2>2, <2>10, <4>1 DEF DeleteUser, WipeEnd
        <4>2. CASE task[r].target # Subject
          <5>1. req[r] = NoRequest /\ UNCHANGED motorVars
            BY <2>10, <4>2 DEF DeleteUser, TasksOK, Away
          <5> QED
            BY <2>3, <5>1
        <4> QED
          BY <4>1, <4>2
      <3>2. claim'[Subject] # Absent => claim'[Subject] = claim[Subject]
        BY <1>1, <2>10, SubjectAssumption DEF DeleteUser
      <3> QED
        BY <2>1, <2>10, <3>1, <3>2 DEF DeleteUser
    <2>11. CASE MotorStep(r)
      BY <1>2, <1>3, <1>5, <2>11, MotorStepFaith
    <2>12. CASE CutOff(r)
      <3>1. req'[r] = NoRequest /\ call'[r] = NoCall /\ account' = account
        BY <2>2, <2>3, <2>12 DEF CutOff, Abort
      <3> QED
        BY <2>1, <2>12, <3>1 DEF CutOff, users
    <2>13. CASE SubmitDebit(r)
      <3>1. /\ account' = account /\ req' = req /\ req[r].at = "account" /\ task' = task
            /\ claim' = claim /\ faithful' = faithful /\ task[r].kind = "submit"
        BY <2>13 DEF SubmitDebit, AccountNext, At, users
      <3>2. call'[r].at = "read" /\ call'[r].op.name = "debit"
        BY <1>1, <2>13 DEF SubmitDebit, AccountNext, Invoke, Begun, Debit
      <3>3. Restoring(r)' /\ InLine(r)'
        BY <3>1, <3>2 DEF Restoring, InLine, CallInLine
      <3>4. faithful /\ claim[Subject] # Absent => AccountInLine'
        BY <2>4, <3>1 DEF AccountInLine
      <3> QED
        BY <1>2, <1>3, <1>5, <3>1, <3>3, <3>4, FaithLocal
    <2> QED
      BY <2>5, <2>6, <2>7, <2>8, <2>9, <2>10, <2>11, <2>12, <2>13 DEF RequestStep
  <1> QED
    BY <1>4, <1>5

LEMMA FaithInit == Init => FaithInv
  <1> SUFFICES ASSUME Init
               PROVE  FaithInv
    OBVIOUS
  <1>1. /\ account = Absent /\ \A r \in Requests : call[r] = NoCall
        /\ \A r \in Requests : req[r] = NoRequest /\ task[r] = NoTask
    BY MotorRequestsAreClients DEF Init, InitMotors, InitStore
  <1>2. Linked /\ AloneIsAlone /\ AccountInLine
    BY <1>1 DEF Linked, AloneIsAlone, Busy, AccountInLine
  <1>3. NoRequest.at # "account" /\ NoTask.alone = FALSE
    BY DEF NoRequest, NoTask
  <1>4. \A r \in Requests : InLine(r) /\ Restoring(r)
    BY <1>1, <1>3, NoTaskKind DEF InLine, CallInLine, Restoring, At
  <1> QED
    BY <1>2, <1>4 DEF FaithInv

LEMMA FaithStep ==
    ASSUME MotorTypeOK, TasksOK, FaithInv, [Next]_vars
    PROVE  FaithInv'
  <1>1. CASE \/ \E u \in Users, role \in Roles : ExpireToken(u, role)
             \/ MonthStep \/ AtRest \/ UNCHANGED vars
    <2>1. UNCHANGED <<account, call, req, claim, task, faithful>>
      BY <1>1 DEF ExpireToken, MonthStep, NextMonth, Tick, AtRest, vars, motorVars, storeVars, users
    <2> QED
      BY <2>1 DEF FaithInv, Linked, AloneIsAlone, Busy, AccountInLine, InLine, CallInLine,
                  Restoring,
                  Resetting, Clearing, At
  <1> QED
    BY <1>1, StartFaith, StepFaith DEF Next

(***************************************************************************)
(* "So storage stays consistent with the claim" (admin_set_role): for any  *)
(* number of users and requests, the caps in account.json are those of the *)
(* claim from the end of a role change or a clear that nothing ran beside  *)
(* until another role change, an override or a stale role takes them       *)
(* apart, or a debit or a credit finds no account and seeds a member's for *)
(* a user whose claim is another; however submissions, charges and the     *)
(* other requests in between overlap or are cut off.                       *)
(***************************************************************************)
THEOREM CapsKeepToTheClaim == Spec => []CapsFollowClaim
  <1>1. MotorTypeOK /\ TasksOK /\ FaithInv /\ [Next]_vars => FaithInv'
    BY FaithStep
  <1>2. MotorTypeOK /\ TasksOK /\ FaithInv => CapsFollowClaim
    BY FaithGivesCaps
  <1> QED
    BY <1>1, <1>2, FaithInit, SpecRefines, MotorTypesHold, PTL DEF Spec
==============================================================================
