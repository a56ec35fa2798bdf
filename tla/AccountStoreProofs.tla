------------------------- MODULE AccountStoreProofs -------------------------
(***************************************************************************)
(* Lemmas about the account operations and about one repository call, for  *)
(* the proofs of the modules that are built on AccountStore.               *)
(***************************************************************************)
EXTENDS AccountStore, TLAPS

(***************************************************************************)
(* What the operations of app/schemas/credits.py return is an account      *)
(* again; a debit counts in full and nothing else adds usage.              *)
(***************************************************************************)
LEMMA DefaultsType ==
    ASSUME NEW role, NEW now \in Nat
    PROVE  /\ Defaults(role, now) \in Account
           /\ Defaults(role, now).tokens_used = 0
           /\ Defaults(role, now).usage_period = now
  BY DefaultsAssumption DEF Defaults, Account, Caps

LEMMA RolledType ==
    ASSUME NEW a \in Account, NEW now \in Nat
    PROVE  /\ Rolled(a, now) \in Account
           /\ Rolled(a, now).tokens_used = 0
           /\ Rolled(a, now).usage_period = now
           /\ Rolled(a, now).monthly_token_limit = a.monthly_token_limit
  BY DEF Rolled, Account

LEMMA AppliedType ==
    ASSUME NEW op \in Operation, NEW doc \in Account
    PROVE  /\ Applied(op, doc) \in Account
           /\ Applied(op, doc).usage_period = doc.usage_period
           /\ op.name = "debit" =>
                 /\ op.tokens \in Nat
                 /\ Applied(op, doc).tokens_used = doc.tokens_used + op.tokens
           /\ op.name # "debit" => Applied(op, doc).tokens_used <= doc.tokens_used
  <1>1. CASE op.name = "debit"
    BY <1>1 DEF Operation, Applied, Debited, Account
  <1>2. CASE op.name = "credit"
    BY <1>2 DEF Operation, Applied, Credited, FlooredAtZero, Account
  <1>3. CASE op.name = "update_limits"
    <2>1. op.updates \in CapUpdates
      BY <1>3 DEF Operation
    <2>2. WithCaps(doc, op.updates) \in Account
      BY <2>1 DEF WithCaps, CapUpdates, Account
    <2>3. /\ WithCaps(doc, op.updates).usage_period = doc.usage_period
          /\ WithCaps(doc, op.updates).tokens_used = doc.tokens_used
      BY DEF WithCaps, Account
    <2>4. Applied(op, doc) = WithCaps(doc, op.updates)
      BY <1>3 DEF Applied
    <2>5. doc.tokens_used \in Nat
      BY DEF Account
    <2> QED
      BY <1>3, <2>2, <2>3, <2>4, <2>5
  <1>4. CASE op.name = "reset_to_role_defaults"
    <2>1. Defaults(op.role, 0) \in Account
      BY DefaultsType
    <2>2. Applied(op, doc) = WithRoleCaps(doc, op.role)
      BY <1>4 DEF Applied
    <2>3. /\ WithRoleCaps(doc, op.role) \in Account
          /\ WithRoleCaps(doc, op.role).usage_period = doc.usage_period
          /\ WithRoleCaps(doc, op.role).tokens_used = doc.tokens_used
      BY <2>1 DEF WithRoleCaps, Account
    <2>4. doc.tokens_used \in Nat
      BY DEF Account
    <2> QED
      BY <1>4, <2>2, <2>3, <2>4
  <1>5. CASE op.name \notin {"debit", "credit", "update_limits", "reset_to_role_defaults"}
    BY <1>5 DEF Applied, Account
  <1> QED
    BY <1>1, <1>2, <1>3, <1>4, <1>5

LEMMA AfterGetStage ==
    ASSUME NEW op, NEW doc
    PROVE  AfterGet(op, doc) \in {"returned", "rejected", "write"}
  BY DEF AfterGet
-----------------------------------------------------------------------------
(***************************************************************************)
(* A call that has got past get_or_create holds the document it got, for   *)
(* the callers that never delete the account with such a call.             *)
(***************************************************************************)
Documented ==
    \A c \in Clients :
        call[c].at \in {"seed", "write", "rejected", "returned"} => call[c].doc \in Account

StoreInv == TypeOK /\ Documented

LEMMA NoCallType == NoCall \in CallType /\ NoCall.at = "idle"
  BY DEF NoCall, CallType, Stages, Operation, DeletePrefix

LEMMA StoreInit == InitStore => StoreInv
  <1> SUFFICES ASSUME InitStore
               PROVE  StoreInv
    OBVIOUS
  <1>1. account = Absent /\ month = 1 /\ call = [c \in Clients |-> NoCall]
    BY DEF InitStore
  <1>2. NoCall \in CallType /\ NoCall.at = "idle"
    BY NoCallType
  <1> HIDE DEF NoCall
  <1> QED
    BY <1>1, <1>2, LastPeriodAssumption DEF StoreInv, TypeOK, Documented

\* whatever one call does, if what it then is makes sense
LEMMA StoreMove ==
    ASSUME StoreInv, NEW c \in Clients, NEW new \in CallType,
           call' = [call EXCEPT ![c] = new],
           new.at \in {"seed", "write", "rejected", "returned"} => new.doc \in Account,
           account' \in Account \cup {Absent}, month' = month
    PROVE  StoreInv'
  <1>1. TypeOK'
    BY DEF StoreInv, TypeOK
  <1>2. Documented'
    BY DEF StoreInv, TypeOK, Documented
  <1> QED
    BY <1>1, <1>2 DEF StoreInv

LEMMA StoreAdvance ==
    ASSUME StoreInv, NEW c \in Clients, NEW stage \in Stages, NEW doc \in Account,
           Advance(c, stage, doc), account' \in Account \cup {Absent}, month' = month
    PROVE  StoreInv'
  <1> DEFINE new == [at |-> stage, op |-> call[c].op, doc |-> doc]
  <1>1. call[c] \in CallType
    BY DEF StoreInv, TypeOK
  <1>2. new \in CallType /\ new.doc \in Account
    BY <1>1 DEF CallType
  <1>3. call' = [call EXCEPT ![c] = new]
    BY DEF Advance
  <1> HIDE DEF new
  <1> QED
    BY <1>2, <1>3, StoreMove

LEMMA StoreInvoke ==
    ASSUME StoreInv, NEW c \in Clients, NEW op \in Operation, Invoke(c, op),
           account' = account, month' = month
    PROVE  StoreInv'
  <1> DEFINE new == Begun(op)
  <1>1. new \in CallType /\ new.at \in {"list", "read"}
    BY DEF Begun, CallType, Stages
  <1>2. call' = [call EXCEPT ![c] = new]
    BY DEF Invoke
  <1>3. account \in Account \cup {Absent}
    BY DEF StoreInv, TypeOK
  <1> HIDE DEF new
  <1> QED
    BY <1>1, <1>2, <1>3, StoreMove

LEMMA StoreForget ==
    ASSUME StoreInv, NEW c \in Clients, Forget(c),
           account' \in Account \cup {Absent}, month' = month
    PROVE  StoreInv'
  <1>1. NoCall \in CallType /\ NoCall.at = "idle"
    BY NoCallType
  <1>2. call' = [call EXCEPT ![c] = NoCall]
    BY DEF Forget
  <1> HIDE DEF NoCall
  <1> QED
    BY <1>1, <1>2, StoreMove

LEMMA StoreRead ==
    ASSUME StoreInv, NEW c \in Clients, Read(c)
    PROVE  StoreInv'
  <1>1. /\ month \in Nat /\ month' = month /\ account' = account
        /\ account \in Account \cup {Absent}
        /\ "seed" \in Stages
    BY LastPeriodAssumption DEF StoreInv, TypeOK, Read, Stages
  <1>2. CASE account = Absent /\ Advance(c, "seed", Defaults(SeedRole(call[c].op), month))
    <2>1. Defaults(SeedRole(call[c].op), month) \in Account
      BY <1>1, DefaultsType
    <2> QED
      BY <1>1, <1>2, <2>1, StoreAdvance
  <1>3. CASE account # Absent /\ Advance(c, "seed", Rolled(account, month))
    <2>1. Rolled(account, month) \in Account
      BY <1>1, <1>3, RolledType
    <2> QED
      BY <1>1, <1>3, <2>1, StoreAdvance
  <1>4. CASE account # Absent /\ Advance(c, AfterGet(call[c].op, account), account)
    <2>1. AfterGet(call[c].op, account) \in Stages
      BY AfterGetStage DEF Stages
    <2> QED
      BY <1>1, <1>4, <2>1, StoreAdvance
  <1> QED
    BY <1>2, <1>3, <1>4 DEF Read

LEMMA StoreSeed ==
    ASSUME StoreInv, NEW c \in Clients, Seed(c)
    PROVE  StoreInv'
  <1> DEFINE doc == call[c].doc
             stage == AfterGet(call[c].op, doc)
  <1>1. account' = doc /\ month' = month /\ Advance(c, stage, doc)
    BY DEF Seed
  <1>2. doc \in Account
    BY DEF Seed, StoreInv, TypeOK
  <1>3. stage \in Stages
    BY AfterGetStage DEF Stages
  <1> HIDE DEF doc, stage
  <1> QED
    BY <1>1, <1>2, <1>3, StoreAdvance

LEMMA StoreWrite ==
    ASSUME StoreInv, NEW c \in Clients, Write(c)
    PROVE  StoreInv'
  <1>1. call[c].doc \in Account /\ call[c].op \in Operation
    BY DEF Write, StoreInv, TypeOK, CallType
  <1>2. account' \in Account
    BY <1>1, AppliedType DEF Write
  <1>3. Advance(c, "returned", call[c].doc) /\ month' = month
    BY DEF Write
  <1>4. "returned" \in Stages
    BY DEF Stages
  <1> QED
    BY <1>1, <1>2, <1>3, <1>4, StoreAdvance

LEMMA StoreTick == ASSUME StoreInv, Tick PROVE StoreInv'
  <1>1. account' = account /\ call' = call /\ month' \in 1 .. LastPeriod
    BY LastPeriodAssumption DEF Tick, StoreInv, TypeOK
  <1> QED
    BY <1>1 DEF StoreInv, TypeOK, Documented

LEMMA StoreStutter == ASSUME StoreInv, UNCHANGED storeVars PROVE StoreInv'
  BY DEF storeVars, StoreInv, TypeOK, Documented, CallType
==============================================================================
