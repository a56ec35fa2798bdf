------------------------ MODULE MotorCatalogueProofs ------------------------
(***************************************************************************)
(* Proofs about MotorCatalogue: types, and the bound on the overrun of the *)
(* motor limit, for every set of motor ids and every finite set of         *)
(* requests.                                                               *)
(*                                                                         *)
(* The bound on the motors alone is not inductive: a save that is pending  *)
(* adds one more.  What no step but an admission can enlarge is the set of *)
(* the motors that exist or are about to be saved.                         *)
(***************************************************************************)
EXTENDS MotorCatalogue, AccountStoreProofs, FiniteSetTheorems

Saving == {r \in Requests : At(r, "save")}

Held == {req[r].motor : r \in Saving}

Reachable == motors \cup Held

ReachableIsBounded ==
    \/ Reachable = {}
    \/ lastQuota = Unlimited
    \/ Cardinality(Reachable) < lastQuota + Cardinality(Requests)

MotorInv ==
    /\ MotorTypeOK
    /\ Documented
    /\ IsFiniteSet(Reachable)
    /\ ReachableIsBounded

LEMMA ImageIsBounded ==
    ASSUME NEW S \in SUBSET Requests, NEW f
    PROVE  /\ IsFiniteSet({f[r] : r \in S})
           /\ Cardinality({f[r] : r \in S}) <= Cardinality(Requests)
  <1> DEFINE image == {f[r] : r \in S}
             g == [r \in S |-> f[r]]
  <1>1. IsFiniteSet(S) /\ Cardinality(S) <= Cardinality(Requests)
    BY MotorRequestsAreFinite, FS_Subset
  <1>2. g \in Surjection(S, image)
    BY DEF Surjection
  <1>3. IsFiniteSet(image) /\ Cardinality(image) <= Cardinality(S)
    BY <1>1, <1>2, FS_Surjection
  <1>4. /\ Cardinality(image) \in Nat /\ Cardinality(S) \in Nat
        /\ Cardinality(Requests) \in Nat
    BY <1>1, <1>3, MotorRequestsAreFinite, FS_CardinalityType
  <1> QED
    BY <1>1, <1>3, <1>4

\* a set that does not grow stays within the bound
LEMMA ShrinkingIsBounded ==
    ASSUME MotorInv, Reachable' \subseteq Reachable, lastQuota' = lastQuota
    PROVE  IsFiniteSet(Reachable') /\ ReachableIsBounded'
  <1>1. /\ IsFiniteSet(Reachable')
        /\ Cardinality(Reachable') <= Cardinality(Reachable)
    BY FS_Subset DEF MotorInv
  <1>2. /\ Cardinality(Reachable) \in Nat /\ Cardinality(Reachable') \in Nat
        /\ Cardinality(Requests) \in Nat
    BY <1>1, MotorRequestsAreFinite, FS_CardinalityType DEF MotorInv
  <1>3. lastQuota = Unlimited \/ lastQuota \in Nat
    BY DEF MotorInv, MotorTypeOK, Caps
  <1>4. ReachableIsBounded
    BY DEF MotorInv
  <1> HIDE DEF Reachable
  <1> QED
    BY <1>1, <1>2, <1>3, <1>4 DEF ReachableIsBounded

\* a step of one request that reaches no motor but those already in reach
LEMMA MotorMove ==
    ASSUME MotorInv, StoreInv', lastQuota' = lastQuota,
           motors' \subseteq Reachable,
           NEW r \in Requests, NEW new \in RequestType,
           req' = [req EXCEPT ![r] = new],
           new.at = "save" => new.motor \in Reachable
    PROVE  MotorInv'
  <1>1. Reachable \subseteq MotorIds
    BY DEF MotorInv, MotorTypeOK, Reachable, Held, Saving, At
  <1>2. /\ req \in [Requests -> RequestType] /\ lastQuota \in Caps
        /\ \A q \in Requests : At(q, "save") => req[q].motor \in MotorIds
    BY DEF MotorInv, MotorTypeOK
  <1>3. req'[r] = new /\ \A q \in Requests : q # r => req'[q] = req[q]
    BY <1>2
  <1>4. \A q \in Requests : At(q, "save")' => req'[q].motor \in Reachable
    BY <1>3 DEF At, Reachable, Held, Saving
  <1>5. Reachable' \subseteq Reachable
    BY <1>4 DEF Reachable, Held, Saving
  <1>6. MotorTypeOK'
    BY <1>1, <1>2, <1>4 DEF MotorTypeOK, StoreInv
  <1>7. Documented'
    BY DEF StoreInv
  <1> QED
    BY <1>5, <1>6, <1>7, ShrinkingIsBounded DEF MotorInv
-----------------------------------------------------------------------------
LEMMA StoreOfMotorInv == MotorInv => StoreInv
  BY DEF MotorInv, MotorTypeOK, StoreInv

\* what every step may assume of the state it starts in
LEMMA MotorFacts ==
    ASSUME MotorInv
    PROVE  /\ StoreInv
           /\ account \in Account \cup {Absent}
           /\ motors \subseteq MotorIds /\ motors \subseteq Reachable
           /\ req \in [Requests -> RequestType]
           /\ \A r \in Requests : At(r, "save") => req[r].motor \in Reachable
  BY DEF MotorInv, MotorTypeOK, StoreInv, TypeOK, Reachable, Held, Saving

LEMMA NoRequestType == NoRequest \in RequestType /\ NoRequest.at = "idle"
  BY DEF NoRequest, RequestType

LEMMA FinishMove ==
    ASSUME MotorInv, NEW r \in Requests, Finish(r), lastQuota' = lastQuota,
           motors' \subseteq Reachable,
           account' \in Account \cup {Absent}, month' = month
    PROVE  MotorInv'
  <1>1. StoreInv'
    BY MotorFacts, MotorRequestsAreClients, StoreForget DEF Finish
  <1>2. req' = [req EXCEPT ![r] = NoRequest]
    BY DEF Finish
  <1> HIDE DEF NoRequest
  <1> QED
    BY <1>1, <1>2, NoRequestType, MotorMove

\* a request that has no save pending begins, or goes on, and the account
\* stays as it is
LEMMA StartMove ==
    ASSUME MotorInv, NEW r \in Requests, NEW new \in RequestType,
           req' = [req EXCEPT ![r] = new],
           new.at = "save" => new.motor \in Reachable,
           motors' \subseteq Reachable,
           UNCHANGED <<storeVars, lastQuota>>
    PROVE  MotorInv'
  <1>1. StoreInv'
    BY MotorFacts, StoreStutter
  <1> QED
    BY <1>1, MotorMove

LEMMA CallMove ==
    ASSUME MotorInv, StoreInv', UNCHANGED <<motors, req, lastQuota>>
    PROVE  MotorInv'
  <1>1. Reachable' = Reachable
    BY DEF Reachable, Held, Saving, At
  <1>2. MotorTypeOK' /\ Documented'
    BY DEF MotorInv, MotorTypeOK, StoreInv, At
  <1> QED
    BY <1>1, <1>2, ShrinkingIsBounded DEF MotorInv

LEMMA AccountStartKeeps ==
    ASSUME MotorInv, NEW r \in Requests, NEW op \in Operation, NEW kind \in {"create", "account"},
           Accept(r, [NoRequest EXCEPT !.at = "account", !.kind = kind]),
           Invoke(r, op),
           UNCHANGED <<account, month, motors, lastQuota>>
    PROVE  MotorInv'
  <1> DEFINE new == [NoRequest EXCEPT !.at = "account", !.kind = kind]
  <1>1. new \in RequestType /\ new.at # "save"
    BY DEF NoRequest, RequestType
  <1>2. StoreInv'
    BY MotorFacts, MotorRequestsAreClients, StoreInvoke
  <1>3. req' = [req EXCEPT ![r] = new] /\ motors' \subseteq Reachable
    BY MotorFacts DEF Accept
  <1> HIDE DEF new
  <1> QED
    BY <1>1, <1>2, <1>3, MotorMove

LEMMA CreateAdmitKeeps ==
    ASSUME MotorInv, NEW r \in Requests, CreateAdmit(r)
    PROVE  MotorInv'
  <1> DEFINE quota == call[r].doc.motor_limit
  <1>1. quota \in Caps
    BY MotorRequestsAreClients DEF CreateAdmit, MotorInv, Documented, Account
  <1>2. CASE ~HasRoom(quota)
    <2>1. Finish(r) /\ UNCHANGED <<account, month, motors, lastQuota>>
      BY <1>2 DEF CreateAdmit
    <2> QED
      BY <2>1, MotorFacts, FinishMove
  <1>3. CASE HasRoom(quota) /\ lastQuota' = quota /\ Forget(r)
    <2>1. PICK m \in MotorIds : req' = [req EXCEPT ![r].at = "save", ![r].motor = m]
      BY <1>3 DEF CreateAdmit, Finish
    <2>2. UNCHANGED <<account, month, motors>>
      BY DEF CreateAdmit
    <2>3. StoreInv'
      BY <1>3, <2>2, MotorFacts, MotorRequestsAreClients, StoreForget
    <2>4. MotorTypeOK'
      <3>1. req \in [Requests -> RequestType]
            /\ \A q \in Requests : At(q, "save") => req[q].motor \in MotorIds
        BY DEF MotorInv, MotorTypeOK
      <3>2. req' \in [Requests -> RequestType]
        <4>1. [req[r] EXCEPT !.at = "save", !.motor = m] \in RequestType
          BY <3>1 DEF RequestType
        <4>2. req' = [req EXCEPT ![r] = [req[r] EXCEPT !.at = "save", !.motor = m]]
          BY <2>1, <3>1 DEF RequestType
        <4> QED
          BY <3>1, <4>1, <4>2
      <3>3. \A q \in Requests : At(q, "save")' => req'[q].motor \in MotorIds
        BY <2>1, <3>1 DEF RequestType, At
      <3> QED
        BY <1>1, <1>3, <2>2, <2>3, <3>2, <3>3, MotorFacts DEF MotorTypeOK, StoreInv
    <2>5. IsFiniteSet(motors)
      BY FS_Subset DEF MotorInv, Reachable
    <2>6. IsFiniteSet(Held') /\ Cardinality(Held') <= Cardinality(Requests)
      <3> DEFINE f == [q \in Requests |-> req'[q].motor]
                 S == {q \in Requests : At(q, "save")'}
      <3>1. Held' = {f[q] : q \in S}
        BY DEF Held, Saving
      <3>2. S \in SUBSET Requests
        OBVIOUS
      <3> HIDE DEF f, S
      <3> QED
        BY <3>1, <3>2, ImageIsBounded
    <2>7. Reachable' = motors \cup Held'
      BY <2>2 DEF Reachable
    <2>8. /\ Cardinality(motors) \in Nat /\ Cardinality(Held') \in Nat
          /\ Cardinality(motors \cap Held') \in Nat /\ Cardinality(Requests) \in Nat
      BY <2>5, <2>6, MotorRequestsAreFinite, FS_CardinalityType, FS_Intersection
    <2>9. /\ IsFiniteSet(Reachable')
          /\ Cardinality(Reachable') <= Cardinality(motors) + Cardinality(Held')
      <3>1. /\ IsFiniteSet(motors \cup Held')
            /\ Cardinality(motors \cup Held') =
                  Cardinality(motors) + Cardinality(Held') - Cardinality(motors \cap Held')
        BY <2>5, <2>6, FS_Union
      <3> QED
        BY <2>7, <2>8, <3>1
    <2>10. Cardinality(Reachable') \in Nat
      BY <2>9, FS_CardinalityType
    <2>11. ReachableIsBounded'
      <3>1. quota # Unlimited => quota \in Nat /\ Cardinality(motors) < quota
        BY <1>1, <1>3 DEF HasRoom, Caps
      <3>2. lastQuota' = quota
        BY <1>3
      <3> HIDE DEF quota
      <3> QED
        BY <2>6, <2>8, <2>9, <2>10, <3>1, <3>2 DEF ReachableIsBounded
    <2> QED
      BY <2>3, <2>4, <2>9, <2>11 DEF MotorInv, StoreInv
  <1> QED
    BY <1>2, <1>3 DEF CreateAdmit

LEMMA UpdateStartKeeps ==
    ASSUME MotorInv, NEW r \in Requests, NEW m \in MotorIds, UpdateStart(r, m)
    PROVE  MotorInv'
  <1> DEFINE new == [NoRequest EXCEPT !.at = "save", !.kind = "update", !.motor = m]
  <1>1. new \in RequestType /\ new.motor = m /\ m \in Reachable
    BY MotorFacts DEF NoRequest, RequestType, UpdateStart
  <1>2. req' = [req EXCEPT ![r] = new] /\ UNCHANGED <<storeVars, motors, lastQuota>>
    BY DEF UpdateStart, Accept
  <1> HIDE DEF new
  <1> QED
    BY <1>1, <1>2, MotorFacts, StartMove

LEMMA PrefixStartKeeps ==
    ASSUME MotorInv, NEW r \in Requests, NEW doomed \in SUBSET MotorIds,
           NEW kind \in {"delete", "clear", "wipe"},
           Accept(r, [NoRequest EXCEPT !.at = "list", !.kind = kind, !.doomed = doomed]),
           UNCHANGED <<storeVars, motors, lastQuota>>
    PROVE  MotorInv'
  <1> DEFINE new == [NoRequest EXCEPT !.at = "list", !.kind = kind, !.doomed = doomed]
  <1>1. new \in RequestType /\ new.at # "save"
    BY DEF NoRequest, RequestType
  <1>2. req' = [req EXCEPT ![r] = new]
    BY DEF Accept
  <1> HIDE DEF new
  <1> QED
    BY <1>1, <1>2, MotorFacts, StartMove

\* a request that is past its save moves on
LEMMA GoKeeps ==
    ASSUME MotorInv, NEW r \in Requests,
           NEW stage \in {"wipe_account", "delete_next", "wiped"},
           NEW doomed \in SUBSET MotorIds,
           req' = [req EXCEPT ![r] = [req[r] EXCEPT !.at = stage, !.doomed = doomed]],
           StoreInv', motors' \subseteq Reachable, lastQuota' = lastQuota
    PROVE  MotorInv'
  <1> DEFINE new == [req[r] EXCEPT !.at = stage, !.doomed = doomed]
  <1>1. req[r] \in RequestType
    BY MotorFacts
  <1>2. new \in RequestType /\ new.at # "save"
    BY <1>1 DEF RequestType
  <1>3. req' = [req EXCEPT ![r] = new]
    OBVIOUS
  <1> HIDE DEF new
  <1> QED
    BY <1>2, <1>3, MotorMove

LEMMA ListPrefixKeeps ==
    ASSUME MotorInv, NEW r \in Requests, ListPrefix(r)
    PROVE  MotorInv'
  <1> DEFINE stage == IF req[r].kind = "wipe" /\ account # Absent
                      THEN "wipe_account" ELSE "delete_next"
             doomed == req[r].doomed \cap motors
  <1>1. req[r] \in RequestType /\ req \in [Requests -> RequestType]
    BY MotorFacts
  <1>2. req' = [req EXCEPT ![r] = [req[r] EXCEPT !.at = stage, !.doomed = doomed]]
    <2>1. req' = [req EXCEPT ![r].at = stage, ![r].doomed = doomed]
      BY DEF ListPrefix
    <2> HIDE DEF stage, doomed
    <2> QED
      BY <1>1, <2>1 DEF RequestType
  <1>3. StoreInv' /\ motors' \subseteq Reachable /\ lastQuota' = lastQuota
    BY MotorFacts, StoreStutter DEF ListPrefix
  <1>4. stage \in {"wipe_account", "delete_next", "wiped"} /\ doomed \in SUBSET MotorIds
    BY <1>1 DEF RequestType
  <1> HIDE DEF stage, doomed
  <1> QED
    BY <1>2, <1>3, <1>4, GoKeeps

\* Go, for the stages of a deletion
LEMMA StageKeeps ==
    ASSUME MotorInv, NEW r \in Requests, NEW stage \in {"delete_next", "wiped"}, Go(r, stage),
           UNCHANGED <<month, call>>, account' \in Account \cup {Absent},
           motors' \subseteq Reachable, lastQuota' = lastQuota
    PROVE  MotorInv'
  <1>1. req[r] \in RequestType /\ req \in [Requests -> RequestType]
    BY MotorFacts
  <1>2. req' = [req EXCEPT ![r] = [req[r] EXCEPT !.at = stage, !.doomed = req[r].doomed]]
    BY <1>1 DEF Go, RequestType
  <1>3. StoreInv'
    BY MotorFacts DEF StoreInv, TypeOK, Documented
  <1>4. req[r].doomed \in SUBSET MotorIds
    BY <1>1 DEF RequestType
  <1> QED
    BY <1>2, <1>3, <1>4, GoKeeps

LEMMA WipeAccountKeeps ==
    ASSUME MotorInv, NEW r \in Requests, WipeAccount(r)
    PROVE  MotorInv'
  <1>1. /\ account' \in Account \cup {Absent} /\ month' = month
        /\ motors' \subseteq Reachable /\ lastQuota' = lastQuota
    BY MotorFacts DEF WipeAccount
  <1>2. CASE Finish(r)
    BY <1>1, <1>2, FinishMove
  <1>3. CASE Go(r, "delete_next") /\ UNCHANGED call
    BY <1>1, <1>3, StageKeeps
  <1> QED
    BY <1>2, <1>3 DEF WipeAccount

LEMMA DeleteNextKeeps ==
    ASSUME MotorInv, NEW r \in Requests, DeleteNext(r)
    PROVE  MotorInv'
  <1>1. /\ account' \in Account \cup {Absent} /\ month' = month
        /\ motors' \subseteq Reachable /\ lastQuota' = lastQuota
    BY MotorFacts DEF DeleteNext
  <1>2. CASE Finish(r)
    BY <1>1, <1>2, FinishMove
  <1>3. ASSUME NEW m \in req[r].doomed, UNCHANGED call,
               req' = [req EXCEPT ![r].doomed = @ \ {m}]
        PROVE  MotorInv'
    <2> DEFINE doomed == req[r].doomed \ {m}
    <2>1. req[r] \in RequestType /\ req \in [Requests -> RequestType]
      BY MotorFacts
    <2>2. req' = [req EXCEPT ![r] = [req[r] EXCEPT !.at = "delete_next", !.doomed = doomed]]
      BY <1>3, <2>1 DEF RequestType, DeleteNext, At
    <2>3. StoreInv'
      BY <1>1, <1>3, MotorFacts, StoreStutter DEF storeVars, DeleteNext
    <2>4. doomed \in SUBSET MotorIds
      BY <2>1 DEF RequestType
    <2> HIDE DEF doomed
    <2> QED
      BY <1>1, <2>2, <2>3, <2>4, GoKeeps
  <1>4. CASE Go(r, "wiped") /\ UNCHANGED call
    BY <1>1, <1>4, StageKeeps
  <1> QED
    BY <1>2, <1>3, <1>4 DEF DeleteNext

\* a save: the motor it adds was in reach already
LEMMA SaveMotorKeeps ==
    ASSUME MotorInv, NEW r \in Requests, SaveMotor(r)
    PROVE  MotorInv'
  <1>1. /\ account' \in Account \cup {Absent} /\ month' = month
        /\ motors' \subseteq Reachable /\ lastQuota' = lastQuota /\ Finish(r)
    BY MotorFacts DEF SaveMotor
  <1> QED
    BY <1>1, FinishMove
-----------------------------------------------------------------------------
LEMMA MotorInvInit == InitMotors => MotorInv
  <1> SUFFICES ASSUME InitMotors
               PROVE  MotorInv
    OBVIOUS
  <1>1. StoreInv
    BY StoreInit DEF InitMotors
  <1>2. motors = {} /\ lastQuota = 0 /\ req = [r \in Requests |-> NoRequest]
    BY DEF InitMotors
  <1>3. MotorTypeOK
    BY <1>1, <1>2, NoRequestType DEF MotorTypeOK, StoreInv, Caps, At
  <1>4. Reachable = {}
    BY <1>2, NoRequestType DEF Reachable, Held, Saving, At
  <1> QED
    BY <1>1, <1>3, <1>4, FS_EmptySet DEF MotorInv, StoreInv, ReachableIsBounded

LEMMA MotorInvStep ==
    ASSUME MotorInv, [MotorNext]_motorVars
    PROVE  MotorInv'
  <1>1. ASSUME NEW r \in Requests, NEW role \in Roles, CreateStart(r, role)
        PROVE  MotorInv'
    <2>1. GetOrCreate(role) \in Operation
      BY DEF GetOrCreate, Operation
    <2> QED
      BY <1>1, <2>1, AccountStartKeeps DEF CreateStart
  <1>2. ASSUME NEW r \in Requests, NEW m \in MotorIds, UpdateStart(r, m)
        PROVE  MotorInv'
    BY <1>2, UpdateStartKeeps
  <1>3. ASSUME NEW r \in Requests, NEW m \in MotorIds, DeleteStart(r, m)
        PROVE  MotorInv'
    BY <1>3, PrefixStartKeeps DEF DeleteStart
  <1>4. ASSUME NEW r \in Requests, ClearStart(r) \/ WipeStart(r)
        PROVE  MotorInv'
    BY <1>4, PrefixStartKeeps DEF ClearStart, WipeStart
  <1>5. ASSUME NEW r \in Requests, NEW op \in Operations, AccountStart(r, op)
        PROVE  MotorInv'
    BY <1>5, OperationsAssumption, AccountStartKeeps DEF AccountStart
  <1>6. ASSUME NEW r \in Requests, NEW op \in Operations, AccountNext(r, op)
        PROVE  MotorInv'
    <2>1. StoreInv'
      BY <1>6, OperationsAssumption, MotorFacts, MotorRequestsAreClients, StoreInvoke
         DEF AccountNext
    <2> QED
      BY <1>6, <2>1, CallMove DEF AccountNext
  <1>7. ASSUME NEW r \in Requests, CreateAdmit(r)
        PROVE  MotorInv'
    BY <1>7, CreateAdmitKeeps
  <1>8. ASSUME NEW r \in Requests, SaveMotor(r)
        PROVE  MotorInv'
    BY <1>8, SaveMotorKeeps
  <1>9. ASSUME NEW r \in Requests, ListPrefix(r) \/ WipeAccount(r) \/ DeleteNext(r)
        PROVE  MotorInv'
    BY <1>9, ListPrefixKeeps, WipeAccountKeeps, DeleteNextKeeps
  <1>10. ASSUME NEW r \in Requests, WipeEnd(r) \/ AccountEnd(r) \/ Abort(r)
         PROVE  MotorInv'
    BY <1>10, MotorFacts, FinishMove DEF WipeEnd, AccountEnd, Abort
  <1>11. ASSUME NEW r \in Requests, AccountStep(r)
         PROVE  MotorInv'
    <2>1. StoreInv'
      BY <1>11, MotorFacts, MotorRequestsAreClients, StoreRead, StoreSeed, StoreWrite
         DEF AccountStep
    <2> QED
      BY <1>11, <2>1, CallMove DEF AccountStep
  <1>12. CASE NextMonth
    BY <1>12, MotorFacts, StoreTick, CallMove DEF NextMonth
  <1>13. CASE UNCHANGED motorVars
    BY <1>13, MotorFacts, StoreStutter, CallMove DEF motorVars
  <1> QED
    BY <1>1, <1>2, <1>3, <1>4, <1>5, <1>6, <1>7, <1>8, <1>9, <1>10, <1>11, <1>12, <1>13
       DEF MotorNext

LEMMA MotorInvAlways == MotorSpec => []MotorInv
  BY MotorInvInit, MotorInvStep, PTL DEF MotorSpec

(***************************************************************************)
(* Every value of the catalogue, of its requests and of the account they   *)
(* obey has its type, whatever requests overlap and are cut off.           *)
(***************************************************************************)
THEOREM MotorTypesHold == MotorSpec => []MotorTypeOK
  <1>1. MotorInv => MotorTypeOK
    BY DEF MotorInv
  <1> QED
    BY <1>1, MotorInvAlways, PTL

LEMMA ReachableBoundsMotors == MotorInv => MotorOverrunIsBounded
  <1> SUFFICES ASSUME MotorInv, motors # {}, lastQuota # Unlimited
               PROVE  Cardinality(motors) < lastQuota + Cardinality(Requests)
    BY DEF MotorOverrunIsBounded
  <1>1. IsFiniteSet(motors) /\ Cardinality(motors) <= Cardinality(Reachable)
    BY FS_Subset DEF MotorInv, Reachable
  <1>2. Cardinality(Reachable) < lastQuota + Cardinality(Requests)
    BY DEF MotorInv, ReachableIsBounded, Reachable
  <1>3. /\ Cardinality(motors) \in Nat /\ Cardinality(Reachable) \in Nat
        /\ Cardinality(Requests) \in Nat /\ lastQuota \in Nat
    BY <1>1, MotorRequestsAreFinite, FS_CardinalityType DEF MotorInv, MotorTypeOK, Caps
  <1> QED
    BY <1>1, <1>2, <1>3

(***************************************************************************)
(* The overrun of the motor limit is bounded by the requests in flight,    *)
(* for any number of users' requests, motors and changes of the limit      *)
(* (create_motor, update_motor).                                           *)
(***************************************************************************)
THEOREM MotorOverrunBounded == MotorSpec => []MotorOverrunIsBounded
  BY MotorInvAlways, ReachableBoundsMotors, PTL
==============================================================================
