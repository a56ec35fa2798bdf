---------------------------- MODULE MotorCatalogue ----------------------------
(***************************************************************************)
(* The motors of one user and the requests that change them                *)
(* (app/routers/motors.py, app/repositories/motor.py), beside the          *)
(* account.json whose motor_limit they obey and the handlers that go       *)
(* through the account or delete the whole prefix users/{uid}/.  Each      *)
(* `await` is a step of its own and `req` keeps what a request remembers;  *)
(* the first access is part of its start.                                  *)
(*                                                                         *)
(* create:  account (get_or_create, then the listing), save                *)
(* update:  save                                                           *)
(* delete:  list, delete_next                 of one motor                 *)
(* clear:   list, delete_next ...             admin_clear_all_motors       *)
(* wipe:    list, wipe_account, delete_next ..., wiped                     *)
(* account: account ...                       one or more account calls    *)
(*                                                                         *)
(* A team's motors (app/routers/team_motors.py) take the same steps over   *)
(* teams/{tid}/ and the team's account.                                    *)
(***************************************************************************)
EXTENDS AccountStore, FiniteSets

CONSTANTS
    MotorIds,       \* bound: the motor ids that uuid4 draws from
    Requests        \* the API requests that may be in flight at once

ASSUME MotorRequestsAreClients == Requests \subseteq Clients

ASSUME MotorRequestsAreFinite == IsFiniteSet(Requests)

ASSUME MotorIdsAssumption == Absent \notin MotorIds

VARIABLES
    motors,         \* the ids m for which motors/{m}.json exists
    req,            \* req[r]: where request r is, and what it remembers
    lastQuota       \* history: the limit under which a motor was last admitted

motorVars == <<storeVars, motors, req, lastQuota>>

NoRequest == [at |-> "idle", kind |-> "none", motor |-> Absent, doomed |-> {}]

InitMotors ==
    /\ InitStore
    /\ motors = {}
    /\ req = [r \in Requests |-> NoRequest]
    /\ lastQuota = 0

At(r, stage) == req[r].at = stage

Go(r, stage) == req' = [req EXCEPT ![r].at = stage]

Finish(r) == req' = [req EXCEPT ![r] = NoRequest] /\ Forget(r)

Accept(r, start) ==
    /\ req[r] = NoRequest
    /\ req' = [req EXCEPT ![r] = start]

\* an id that uuid4 may give: nobody holds it
Fresh(m) ==
    m \notin motors /\ \A r \in Requests : req[r].motor # m /\ m \notin req[r].doomed
-----------------------------------------------------------------------------
(***************************************************************************)
(* POST /motors: the account, then the listing, then the save of a motor   *)
(* that the check has admitted.                                            *)
(***************************************************************************)
CreateStart(r, role) ==
    /\ Accept(r, [NoRequest EXCEPT !.at = "account", !.kind = "create"])
    /\ Invoke(r, GetOrCreate(role))
    /\ UNCHANGED <<account, month, motors, lastQuota>>

\* a limit that admits one motor too many
HasRoomOffByOne(quota) == quota # Unlimited => Cardinality(motors) <= quota

\* the 409 answer otherwise
HasRoom(quota) == quota # Unlimited => Cardinality(motors) < quota

CreateAdmit(r) ==
    /\ At(r, "account")
    /\ req[r].kind = "create"
    /\ call[r].at = "returned"
    /\ \/ /\ HasRoom(call[r].doc.motor_limit)
          /\ lastQuota' = call[r].doc.motor_limit
          /\ \E m \in MotorIds :
                /\ Fresh(m)
                /\ req' = [req EXCEPT ![r].at = "save", ![r].motor = m]
          /\ Forget(r)
       \/ /\ ~HasRoom(call[r].doc.motor_limit)
          /\ Finish(r)
          /\ UNCHANGED lastQuota
    /\ UNCHANGED <<account, month, motors>>

\* an update that does not keep the id it was asked for
UpdateStartAnonymous(r, m) ==
    /\ m \in motors
    /\ Accept(r, [NoRequest EXCEPT !.at = "save", !.kind = "update"])
    /\ UNCHANGED <<storeVars, motors, lastQuota>>

\* PUT /motors/{id}: the record that was read is written back later, whether
\* or not its blob still exists
UpdateStart(r, m) ==
    /\ m \in motors
    /\ Accept(r, [NoRequest EXCEPT !.at = "save", !.kind = "update", !.motor = m])
    /\ UNCHANGED <<storeVars, motors, lastQuota>>

SaveMotor(r) ==
    /\ At(r, "save")
    /\ motors' = motors \cup {req[r].motor}
    /\ Finish(r)
    /\ UNCHANGED <<account, month, lastQuota>>
-----------------------------------------------------------------------------
(***************************************************************************)
(* Prefix deletes: of one motor, of all of them (an administrator's        *)
(* clear-all), or of everything the user has.  The prefix is listed once,  *)
(* its blobs are then deleted one by one, and a blob that is gone by then  *)
(* raises NotFound.                                                        *)
(***************************************************************************)
DeleteStart(r, m) ==
    /\ m \in motors
    /\ Accept(r, [NoRequest EXCEPT !.at = "list", !.kind = "delete", !.doomed = {m}])
    /\ UNCHANGED <<storeVars, motors, lastQuota>>

ClearStart(r) ==
    /\ Accept(r, [NoRequest EXCEPT !.at = "list", !.kind = "clear", !.doomed = MotorIds])
    /\ UNCHANGED <<storeVars, motors, lastQuota>>

WipeStart(r) ==
    /\ Accept(r, [NoRequest EXCEPT !.at = "list", !.kind = "wipe", !.doomed = MotorIds])
    /\ UNCHANGED <<storeVars, motors, lastQuota>>

ListPrefix(r) ==
    /\ At(r, "list")
    /\ req' = [req EXCEPT ![r].at = IF req[r].kind = "wipe" /\ account # Absent
                                    THEN "wipe_account"
                                    ELSE "delete_next",
                          ![r].doomed = @ \cap motors]
    /\ UNCHANGED <<storeVars, motors, lastQuota>>

\* account.json sorts before motors/
WipeAccount(r) ==
    /\ At(r, "wipe_account")
    /\ account' = Absent
    /\ IF account = Absent THEN Finish(r) ELSE Go(r, "delete_next") /\ UNCHANGED call
    /\ UNCHANGED <<month, motors, lastQuota>>

DeleteNext(r) ==
    /\ At(r, "delete_next")
    /\ \/ \E m \in req[r].doomed :
             /\ IF m \in motors
                THEN req' = [req EXCEPT ![r].doomed = @ \ {m}] /\ UNCHANGED call
                ELSE Finish(r)
             /\ motors' = motors \ {m}
       \/ /\ req[r].doomed = {}
          /\ IF req[r].kind = "wipe" THEN Go(r, "wiped") /\ UNCHANGED call ELSE Finish(r)
          /\ UNCHANGED motors
    /\ UNCHANGED <<account, month, lastQuota>>

\* the handler goes on after delete_prefix
WipeEnd(r) ==
    /\ At(r, "wiped")
    /\ Finish(r)
    /\ UNCHANGED <<account, month, motors, lastQuota>>
-----------------------------------------------------------------------------
(***************************************************************************)
(* The handlers of usage.py and users.py that make account calls, one      *)
(* after the other.                                                        *)
(***************************************************************************)
AccountStart(r, op) ==
    /\ Accept(r, [NoRequest EXCEPT !.at = "account", !.kind = "account"])
    /\ Invoke(r, op)
    /\ UNCHANGED <<account, month, motors, lastQuota>>

AccountNext(r, op) ==
    /\ At(r, "account")
    /\ req[r].kind = "account"
    /\ call[r].at = "returned"
    /\ Invoke(r, op)
    /\ UNCHANGED <<account, month, motors, req, lastQuota>>

AccountEnd(r) ==
    /\ At(r, "account")
    /\ req[r].kind = "account"
    /\ call[r].at \in {"returned", "rejected"}
    /\ Finish(r)
    /\ UNCHANGED <<account, month, motors, lastQuota>>

\* the pending account call of a request takes its next step
AccountStep(r) ==
    /\ Read(r) \/ Seed(r) \/ Write(r)
    /\ UNCHANGED <<motors, req, lastQuota>>

\* the instance dies, the client goes away or the blob store raises
Abort(r) ==
    /\ req[r] # NoRequest
    /\ Finish(r)
    /\ UNCHANGED <<account, month, motors, lastQuota>>

NextMonth == Tick /\ UNCHANGED <<motors, req, lastQuota>>

MotorNext ==
    \/ \E r \in Requests :
          \/ \E role \in Roles : CreateStart(r, role)
          \/ \E m \in MotorIds : UpdateStart(r, m) \/ DeleteStart(r, m)
          \/ ClearStart(r) \/ WipeStart(r)
          \/ \E op \in Operations : AccountStart(r, op) \/ AccountNext(r, op)
          \/ CreateAdmit(r) \/ SaveMotor(r)
          \/ ListPrefix(r) \/ WipeAccount(r) \/ DeleteNext(r) \/ WipeEnd(r)
          \/ AccountEnd(r) \/ AccountStep(r) \/ Abort(r)
    \/ NextMonth

MotorSpec == InitMotors /\ [][MotorNext]_motorVars
-----------------------------------------------------------------------------
RequestType ==
    [at     : {"idle", "account", "save", "list", "wipe_account", "delete_next", "wiped"},
     kind   : {"none", "create", "update", "delete", "clear", "wipe", "account"},
     motor  : MotorIds \cup {Absent},
     doomed : SUBSET MotorIds]

MotorTypeOK ==
    /\ TypeOK
    /\ motors \subseteq MotorIds
    /\ lastQuota \in Caps
    /\ req \in [Requests -> RequestType]
    /\ \A r \in Requests : At(r, "save") => req[r].motor \in MotorIds

(***************************************************************************)
(* The check of the motor limit and the save it allows are apart, and an   *)
(* update may bring back a motor that was deleted meanwhile: whatever      *)
(* creations, updates, deletions, wipes and changes of the limit overlap,  *)
(* the catalogue stays below the limit that the last creation was admitted *)
(* under plus the requests that can be in flight at once (create_motor,    *)
(* update_motor).                                                          *)
(***************************************************************************)
MotorOverrunIsBounded ==
    \/ motors = {}
    \/ lastQuota = Unlimited
    \/ Cardinality(motors) < lastQuota + Cardinality(Requests)
==============================================================================
