------------------------- MODULE AccountRacesProofs -------------------------
(***************************************************************************)
(* Proofs about AccountRaces, for every set of callers, every set of calls *)
(* and every bound; and, for one caller, that the repository implements    *)
(* the atomic ledger.                                                      *)
(***************************************************************************)
EXTENDS AccountRaces, AccountStoreProofs

\* the documents that a call may still save
Pending(c) == call[c].at \in {"seed", "write"}

(***************************************************************************)
(* NeverOverstated is not inductive: a stale document in a caller's memory *)
(* may be saved later, so it must not overstate its month either, and      *)
(* nothing may be dated outside the months the clock has reached.          *)
(***************************************************************************)
NoDocOverstates ==
    \A c \in Clients :
        Pending(c) => call[c].doc.tokens_used <= granted[call[c].doc.usage_period]

DatedByClock ==
    /\ account # Absent => account.usage_period \in 1 .. month
    /\ \A c \in Clients : Pending(c) => call[c].doc.usage_period \in 1 .. month

GrantInv ==
    /\ RaceTypeOK
    /\ DatedByClock
    /\ NeverOverstated
    /\ NoDocOverstates
-----------------------------------------------------------------------------
LEMMA GrantInit == Init => GrantInv
  <1> SUFFICES ASSUME Init
               PROVE  GrantInv
    OBVIOUS
  <1>1. NoCall \in CallType /\ NoCall.at = "idle"
    BY DEF NoCall, CallType, Stages, Operation, DeletePrefix
  <1>2. /\ account = Absent /\ month = 1 /\ calls = 0
        /\ call = [c \in Clients |-> NoCall]
        /\ granted = [p \in 1 .. LastPeriod |-> 0]
    BY DEF Init, InitStore
  <1> HIDE DEF NoCall
  <1>3. RaceTypeOK
    BY <1>1, <1>2, LastPeriodAssumption DEF RaceTypeOK, TypeOK
  <1>4. DatedByClock /\ NeverOverstated /\ NoDocOverstates
    BY <1>1, <1>2 DEF DatedByClock, NeverOverstated, NoDocOverstates, Pending
  <1> QED
    BY <1>3, <1>4 DEF GrantInv

LEMMA GrantBegin ==
    ASSUME GrantInv, NEW c \in Clients, NEW op \in Operations, BeginCall(c, op)
    PROVE  GrantInv'
  <1>1. op \in Operation
    BY OperationsAssumption
  <1> DEFINE new == Begun(op)
  <1>2. /\ call' = [call EXCEPT ![c] = new]
        /\ account' = account /\ month' = month /\ granted' = granted
        /\ calls' = calls + 1
    BY DEF BeginCall, Begin, Invoke
  <1>3. new \in CallType /\ new.at \notin {"seed", "write", "rejected"}
    BY <1>1 DEF Begun, CallType, Stages
  <1> HIDE DEF new
  <1>4. RaceTypeOK'
    BY <1>2, <1>3 DEF GrantInv, RaceTypeOK, TypeOK
  <1>5. DatedByClock'
    BY <1>2, <1>3 DEF GrantInv, DatedByClock, Pending, RaceTypeOK, TypeOK
  <1>6. NeverOverstated' /\ NoDocOverstates'
    BY <1>2, <1>3 DEF GrantInv, NeverOverstated, NoDocOverstates, Pending, RaceTypeOK, TypeOK
  <1> QED
    BY <1>4, <1>5, <1>6 DEF GrantInv

\* a step that only moves call[c] on, without giving it a document to save
LEMMA GrantLeave ==
    ASSUME GrantInv, NEW c \in Clients, NEW new \in CallType,
           call' = [call EXCEPT ![c] = new],
           new.at \notin {"seed", "write", "rejected"},
           account' \in {account, Absent}, month' = month,
           granted' = granted, calls' = calls
    PROVE  GrantInv'
  <1>1. RaceTypeOK'
    BY DEF GrantInv, RaceTypeOK, TypeOK
  <1>2. DatedByClock'
    BY DEF GrantInv, DatedByClock, Pending, RaceTypeOK, TypeOK
  <1>3. NeverOverstated' /\ NoDocOverstates'
    BY DEF GrantInv, NeverOverstated, NoDocOverstates, Pending, RaceTypeOK, TypeOK
  <1> QED
    BY <1>1, <1>2, <1>3 DEF GrantInv

LEMMA GrantAdvanceLeave ==
    ASSUME GrantInv, NEW c \in Clients, NEW stage \in {"erase", "returned", "raised"},
           NEW doc \in Account \cup {Absent}, Advance(c, stage, doc),
           account' \in {account, Absent}, month' = month,
           granted' = granted, calls' = calls
    PROVE  GrantInv'
  <1> DEFINE new == [at |-> stage, op |-> call[c].op, doc |-> doc]
  <1>1. new \in CallType /\ new.at \notin {"seed", "write", "rejected"}
    BY DEF GrantInv, RaceTypeOK, TypeOK, CallType, Stages
  <1>2. call' = [call EXCEPT ![c] = new]
    BY DEF Advance
  <1> HIDE DEF new
  <1> QED
    BY <1>1, <1>2, GrantLeave

\* a read that hands call[c] a document no grant contradicts
LEMMA GrantTake ==
    ASSUME GrantInv, NEW c \in Clients, NEW stage \in Stages, NEW doc \in Account,
           Advance(c, stage, doc),
           doc.usage_period \in 1 .. month,
           doc.tokens_used <= granted[doc.usage_period],
           account' \in {account, doc}, month' = month,
           granted' = granted, calls' = calls
    PROVE  GrantInv'
  <1>1. call[c] \in CallType
    BY DEF GrantInv, RaceTypeOK, TypeOK
  <1> DEFINE new == [at |-> stage, op |-> call[c].op, doc |-> doc]
  <1>2. /\ new \in CallType
        /\ new.doc = doc
        /\ call' = [call EXCEPT ![c] = new]
    BY <1>1 DEF CallType, Advance
  <1> HIDE DEF new
  <1>3. RaceTypeOK'
    BY <1>2 DEF GrantInv, RaceTypeOK, TypeOK
  <1>4. DatedByClock'
    BY <1>2, AbsentAssumption DEF GrantInv, DatedByClock, Pending, RaceTypeOK, TypeOK
  <1>5. NeverOverstated' /\ NoDocOverstates'
    BY <1>2 DEF GrantInv, NeverOverstated, NoDocOverstates, Pending, RaceTypeOK, TypeOK
  <1> QED
    BY <1>3, <1>4, <1>5 DEF GrantInv

LEMMA GrantRead ==
    ASSUME GrantInv, NEW c \in Clients, Read(c), UNCHANGED <<granted, calls>>
    PROVE  GrantInv'
  <1>1. /\ month \in 1 .. LastPeriod /\ granted \in [1 .. LastPeriod -> Nat]
        /\ month' = month /\ account' = account
        /\ LastPeriod \in Nat
    BY LastPeriodAssumption DEF GrantInv, RaceTypeOK, TypeOK, Read
  <1>2. CASE account = Absent /\ Advance(c, "seed", Defaults(SeedRole(call[c].op), month))
    <2> DEFINE doc == Defaults(SeedRole(call[c].op), month)
    <2>1. doc \in Account /\ doc.tokens_used = 0 /\ doc.usage_period = month
      BY <1>1, DefaultsType
    <2>2. doc.usage_period \in 1 .. month /\ doc.tokens_used <= granted[doc.usage_period]
      BY <1>1, <2>1
    <2>3. Advance(c, "seed", doc)
      BY <1>2
    <2> HIDE DEF doc
    <2>4. "seed" \in Stages
      BY DEF Stages
    <2> QED
      BY <1>1, <2>1, <2>2, <2>3, <2>4, GrantTake
  <1>3. CASE account # Absent /\ Advance(c, "seed", Rolled(account, month))
    <2> DEFINE doc == Rolled(account, month)
    <2>1. account \in Account
      BY <1>3 DEF GrantInv, RaceTypeOK, TypeOK
    <2>2. doc \in Account /\ doc.tokens_used = 0 /\ doc.usage_period = month
      <3>1. month \in Nat
        BY <1>1
      <3> QED
        BY <2>1, <3>1, RolledType
    <2>3. doc.usage_period \in 1 .. month /\ doc.tokens_used <= granted[doc.usage_period]
      BY <1>1, <2>2
    <2>4. Advance(c, "seed", doc)
      BY <1>3
    <2> HIDE DEF doc
    <2>5. "seed" \in Stages
      BY DEF Stages
    <2> QED
      BY <1>1, <2>2, <2>3, <2>4, <2>5, GrantTake
  <1>4. CASE account # Absent /\ Advance(c, AfterGet(call[c].op, account), account)
    <2>1. /\ account \in Account
          /\ account.usage_period \in 1 .. month
          /\ account.tokens_used <= granted[account.usage_period]
      BY <1>4 DEF GrantInv, RaceTypeOK, TypeOK, DatedByClock, NeverOverstated
    <2>2. AfterGet(call[c].op, account) \in Stages
      BY AfterGetStage DEF Stages
    <2> QED
      BY <1>1, <1>4, <2>1, <2>2, GrantTake
  <1> QED
    BY <1>2, <1>3, <1>4 DEF Read

LEMMA GrantSeed ==
    ASSUME GrantInv, NEW c \in Clients, Seed(c), UNCHANGED <<granted, calls>>
    PROVE  GrantInv'
  <1> DEFINE doc == call[c].doc
             stage == AfterGet(call[c].op, doc)
  <1>1. /\ call[c].at = "seed" /\ account' = doc /\ month' = month
        /\ Advance(c, stage, doc)
    BY DEF Seed
  <1>2. /\ doc \in Account
        /\ doc.usage_period \in 1 .. month
        /\ doc.tokens_used <= granted[doc.usage_period]
    BY <1>1 DEF GrantInv, RaceTypeOK, TypeOK, DatedByClock, NoDocOverstates, Pending
  <1>3. stage \in Stages
    BY AfterGetStage DEF Stages
  <1>4. granted' = granted /\ calls' = calls
    OBVIOUS
  <1> HIDE DEF doc, stage
  <1> QED
    BY <1>1, <1>2, <1>3, <1>4, GrantTake

LEMMA GrantWrite ==
    ASSUME GrantInv, NEW c \in Clients, WriteCall(c)
    PROVE  GrantInv'
  <1> DEFINE op == call[c].op
             doc == call[c].doc
             new == Applied(op, doc)
             p == doc.usage_period
             t == IF op.name = "debit" THEN op.tokens ELSE 0
  <1>1. /\ call[c].at = "write" /\ account' = new /\ month' = month
        /\ Advance(c, "returned", doc) /\ calls' = calls
    BY DEF WriteCall, Write
  <1>2. /\ doc \in Account /\ op \in Operation
        /\ p \in 1 .. month
        /\ doc.tokens_used <= granted[p]
        /\ month \in 1 .. LastPeriod /\ granted \in [1 .. LastPeriod -> Nat]
        /\ call \in [Clients -> CallType] /\ calls \in Nat
    BY <1>1 DEF GrantInv, RaceTypeOK, TypeOK, DatedByClock, NoDocOverstates, Pending, CallType
  <1>3. /\ new \in Account /\ new.usage_period = p /\ t \in Nat
        /\ new.tokens_used <= doc.tokens_used + t
    BY <1>2, AppliedType DEF Account
  <1>4. granted' = [granted EXCEPT ![p] = @ + t]
    <2>1. CASE op.name = "debit"
      BY <2>1 DEF WriteCall
    <2>2. CASE op.name # "debit"
      <3>1. granted' = granted /\ t = 0
        BY <2>2 DEF WriteCall
      <3>2. p \in 1 .. LastPeriod
        BY <1>2, LastPeriodAssumption
      <3> QED
        BY <1>2, <3>1, <3>2
    <2> QED
      BY <2>1, <2>2
  <1> DEFINE after == [at |-> "returned", op |-> op, doc |-> doc]
  <1>5. call' = [call EXCEPT ![c] = after] /\ after \in CallType /\ after.at = "returned"
    BY <1>1, <1>2 DEF Advance, CallType, Stages
  <1>6. p \in 1 .. LastPeriod
    BY <1>2, LastPeriodAssumption
  <1>7. doc.tokens_used \in Nat /\ new.tokens_used \in Nat
    BY <1>2, <1>3 DEF Account
  <1> HIDE DEF op, doc, new, p, t, after
  <1>8. /\ granted' \in [1 .. LastPeriod -> Nat]
        /\ \A q \in 1 .. LastPeriod : granted[q] <= granted'[q]
        /\ granted'[p] = granted[p] + t
    BY <1>2, <1>3, <1>4, <1>6
  <1>9. RaceTypeOK'
    BY <1>1, <1>2, <1>3, <1>5, <1>8 DEF GrantInv, RaceTypeOK, TypeOK
  <1>10. DatedByClock'
    BY <1>1, <1>2, <1>3, <1>5 DEF GrantInv, DatedByClock, Pending
  <1>11. NeverOverstated'
    BY <1>1, <1>2, <1>3, <1>6, <1>7, <1>8 DEF NeverOverstated
  <1>12. NoDocOverstates'
    <2> SUFFICES ASSUME NEW d \in Clients, Pending(d)'
                 PROVE  (call[d].doc.tokens_used <= granted[call[d].doc.usage_period])'
      BY DEF NoDocOverstates
    <2>1. d # c /\ call'[d] = call[d] /\ Pending(d)
      BY <1>2, <1>5 DEF Pending
    <2>2. /\ call[d].doc.tokens_used <= granted[call[d].doc.usage_period]
          /\ call[d].doc.usage_period \in 1 .. month
          /\ call[d].doc \in Account
      BY <2>1 DEF GrantInv, NoDocOverstates, DatedByClock, RaceTypeOK, TypeOK, Pending
    <2>3. call[d].doc.usage_period \in 1 .. LastPeriod /\ call[d].doc.tokens_used \in Nat
      BY <1>2, <2>2, LastPeriodAssumption DEF Account
    <2> QED
      BY <1>2, <1>8, <2>1, <2>2, <2>3
  <1> QED
    BY <1>9, <1>10, <1>11, <1>12 DEF GrantInv

LEMMA GrantOther ==
    ASSUME GrantInv, NEW c \in Clients, UNCHANGED <<granted, calls>>,
           List(c) \/ Erase(c) \/ Raise(c) \/ End(c)
    PROVE  GrantInv'
  <1>1. call[c].doc \in Account \cup {Absent}
    BY DEF GrantInv, RaceTypeOK, TypeOK, CallType
  <1>2. account' \in {account, Absent} /\ month' = month
    BY DEF List, Erase, Raise, End, Forget
  <1>3. CASE List(c) \/ Erase(c) \/ Raise(c)
    <2>1. PICK stage \in {"erase", "returned", "raised"}, doc \in Account \cup {Absent} :
             Advance(c, stage, doc)
      BY <1>1, <1>3 DEF List, Erase, Raise
    <2> QED
      BY <1>2, <2>1, GrantAdvanceLeave
  <1>4. CASE End(c)
    <2>1. NoCall \in CallType /\ NoCall.at = "idle"
      BY DEF NoCall, CallType, Stages, Operation, DeletePrefix
    <2>2. call' = [call EXCEPT ![c] = NoCall]
      BY <1>4 DEF End, Forget
    <2> HIDE DEF NoCall
    <2> QED
      BY <1>2, <2>1, <2>2, GrantLeave
  <1> QED
    BY <1>3, <1>4

LEMMA GrantTick == ASSUME GrantInv, NextMonth PROVE GrantInv'
  <1>1. /\ month' = month + 1 /\ month < LastPeriod
        /\ UNCHANGED <<account, call, granted, calls>>
    BY DEF NextMonth, Tick
  <1>2. RaceTypeOK'
    BY <1>1, LastPeriodAssumption DEF GrantInv, RaceTypeOK, TypeOK
  <1>3. DatedByClock'
    BY <1>1, LastPeriodAssumption DEF GrantInv, RaceTypeOK, TypeOK, DatedByClock, Pending
  <1>4. NeverOverstated' /\ NoDocOverstates'
    BY <1>1 DEF GrantInv, NeverOverstated, NoDocOverstates, Pending
  <1> QED
    BY <1>2, <1>3, <1>4 DEF GrantInv

LEMMA GrantStutter == ASSUME GrantInv, UNCHANGED raceVars PROVE GrantInv'
  BY DEF raceVars, GrantInv, RaceTypeOK, TypeOK, DatedByClock, NeverOverstated,
         NoDocOverstates, Pending

LEMMA GrantNext == GrantInv /\ [Next]_raceVars => GrantInv'
  <1> SUFFICES ASSUME GrantInv, [Next]_raceVars
               PROVE  GrantInv'
    OBVIOUS
  <1>1. CASE \E c \in Clients : \E op \in Operations : BeginCall(c, op)
    BY <1>1, GrantBegin
  <1>2. CASE \E c \in Clients : WriteCall(c)
    BY <1>2, GrantWrite
  <1>3. CASE \E c \in Clients : OtherStep(c)
    BY <1>3, GrantRead, GrantSeed, GrantOther DEF OtherStep
  <1>4. CASE NextMonth
    BY <1>4, GrantTick
  <1>5. CASE AtBounds \/ UNCHANGED raceVars
    BY <1>5, GrantStutter DEF AtBounds
  <1> QED
    BY <1>1, <1>2, <1>3, <1>4, <1>5 DEF Next

(***************************************************************************)
(* However the read-modify-writes of app/repositories/account.py           *)
(* interleave, the state stays well typed.                                 *)
(***************************************************************************)
THEOREM TypesHold == Spec => []RaceTypeOK
  <1>1. GrantInv => RaceTypeOK
    BY DEF GrantInv
  <1> QED
    BY <1>1, GrantInit, GrantNext, PTL DEF Spec

(***************************************************************************)
(* For every set of callers and every mix of calls, a stored account never *)
(* counts more tokens as used in its month than debits were granted in it. *)
(***************************************************************************)
THEOREM CounterNeverOverstates == Spec => []NeverOverstated
  <1>1. GrantInv => NeverOverstated
    BY DEF GrantInv
  <1> QED
    BY <1>1, GrantInit, GrantNext, PTL DEF Spec
-----------------------------------------------------------------------------
(***************************************************************************)
(* Users, workers, and administrators that leave the token limit alone or  *)
(* lift it: nobody lowers it.                                              *)
(***************************************************************************)
LowersNoCap(op) ==
    /\ op.name # "reset_to_role_defaults"
    /\ op.name = "update_limits" /\ "monthly_token_limit" \in DOMAIN op.updates =>
          op.updates.monthly_token_limit = Unlimited

CapsStand == \A op \in Operations : LowersNoCap(op)

(***************************************************************************)
(* A cap that every debit checks can still be overrun if a checked         *)
(* document is saved over a changed one.  It is not, because the whole     *)
(* document is: what is saved was consistent when it was read, and a debit *)
(* that is about to be saved was affordable in that same document.         *)
(***************************************************************************)
DocsWithinLimit ==
    \A c \in Clients :
        Pending(c) => WithinLimit(call[c].doc)

DebitsAffordable ==
    \A c \in Clients :
        call[c].at = "write" /\ call[c].op.name = "debit" =>
            CanAfford(call[c].doc, call[c].op.tokens)

CallsAreOperations ==
    \A c \in Clients : call[c].at # "idle" => call[c].op \in Operations

LimitInv ==
    /\ StoredWithinLimit
    /\ DocsWithinLimit
    /\ DebitsAffordable
    /\ CallsAreOperations

LEMMA AfterGetAffordable ==
    ASSUME NEW op, NEW doc, AfterGet(op, doc) = "write", op.name = "debit"
    PROVE  CanAfford(doc, op.tokens)
  BY DEF AfterGet

LEMMA AppliedWithinLimit ==
    ASSUME NEW op \in Operation, NEW doc \in Account,
           LowersNoCap(op),
           WithinLimit(doc),
           op.name = "debit" => CanAfford(doc, op.tokens)
    PROVE  WithinLimit(Applied(op, doc))
  <1>1. CASE op.name = "debit"
    <2>1. op.tokens \in Nat /\ CanAfford(doc, op.tokens)
      BY <1>1 DEF Operation
    <2>2. Applied(op, doc) = Debited(doc, op.tokens)
      BY <1>1 DEF Applied
    <2>3. /\ Debited(doc, op.tokens).tokens_used = doc.tokens_used + op.tokens
          /\ Debited(doc, op.tokens).monthly_token_limit = doc.monthly_token_limit
      BY DEF Debited, Account
    <2>4. doc.tokens_used \in Nat /\ doc.monthly_token_limit \in Nat \cup {Unlimited}
      BY DEF Account, Caps
    <2> QED
      BY <2>1, <2>2, <2>3, <2>4 DEF CanAfford, FlooredAtZero, WithinLimit
  <1>2. CASE op.name = "credit"
    <2>1. op.tokens \in Nat
      BY <1>2 DEF Operation
    <2>2. Applied(op, doc) = Credited(doc, op.tokens)
      BY <1>2 DEF Applied
    <2>3. /\ Credited(doc, op.tokens).tokens_used
                = FlooredAtZero(doc.tokens_used - op.tokens)
          /\ Credited(doc, op.tokens).monthly_token_limit = doc.monthly_token_limit
      BY DEF Credited, Account
    <2>4. doc.tokens_used \in Nat /\ doc.monthly_token_limit \in Nat \cup {Unlimited}
      BY DEF Account, Caps
    <2> QED
      BY <2>1, <2>2, <2>3, <2>4 DEF FlooredAtZero, WithinLimit
  <1>3. CASE op.name = "update_limits"
    <2>1. Applied(op, doc) = WithCaps(doc, op.updates)
      BY <1>3 DEF Applied
    <2>2. /\ WithCaps(doc, op.updates).tokens_used = doc.tokens_used
          /\ WithCaps(doc, op.updates).monthly_token_limit \in
                {doc.monthly_token_limit, Unlimited}
      BY <1>3 DEF LowersNoCap, WithCaps, Account
    <2> QED
      BY <2>1, <2>2 DEF WithinLimit
  <1>4. CASE op.name \notin {"debit", "credit", "update_limits"}
    BY <1>4 DEF Applied, LowersNoCap
  <1> QED
    BY <1>1, <1>2, <1>3, <1>4

LEMMA DefaultsWithinLimit ==
    ASSUME NEW role, NEW now \in Nat
    PROVE  WithinLimit(Defaults(role, now))
  <1>1. /\ Defaults(role, now) \in Account
        /\ Defaults(role, now).tokens_used = 0
    BY DefaultsType
  <1> QED
    BY <1>1 DEF WithinLimit, Account, Caps

LEMMA RolledWithinLimit ==
    ASSUME NEW a \in Account, NEW now \in Nat
    PROVE  WithinLimit(Rolled(a, now))
  <1>1. Rolled(a, now) \in Account /\ Rolled(a, now).tokens_used = 0
    BY RolledType
  <1> QED
    BY <1>1 DEF WithinLimit, Account, Caps

LEMMA LimitInit == Init => LimitInv
  BY DEF Init, InitStore, NoCall, LimitInv, StoredWithinLimit, DocsWithinLimit,
         DebitsAffordable, CallsAreOperations, Pending

\* a step that moves call[c] on with a document fit to be saved
LEMMA LimitAdvance ==
    ASSUME LimitInv, NEW c \in Clients, NEW stage, NEW doc,
           call \in [Clients -> CallType],
           call[c].at # "idle",
           Advance(c, stage, doc),
           stage \in {"seed", "write"} => WithinLimit(doc),
           stage = "write" /\ call[c].op.name = "debit" => CanAfford(doc, call[c].op.tokens),
           account' # Absent => WithinLimit(account')
    PROVE  LimitInv'
  <1>1. \A d \in Clients :
           call'[d] = IF d = c THEN [at |-> stage, op |-> call[c].op, doc |-> doc]
                      ELSE call[d]
    BY DEF Advance
  <1>2. StoredWithinLimit'
    BY DEF StoredWithinLimit
  <1>3. DocsWithinLimit'
    BY <1>1 DEF LimitInv, DocsWithinLimit, Pending
  <1>4. DebitsAffordable'
    BY <1>1 DEF LimitInv, DebitsAffordable
  <1>5. CallsAreOperations'
    BY <1>1 DEF LimitInv, CallsAreOperations
  <1> QED
    BY <1>2, <1>3, <1>4, <1>5 DEF LimitInv

LEMMA LimitStep ==
    ASSUME CapsStand, GrantInv, LimitInv, NEW c \in Clients,
           CallStep(c) \/ Raise(c)
    PROVE  LimitInv'
  <1>1. /\ call \in [Clients -> CallType] /\ month \in Nat
        /\ account # Absent => account \in Account /\ WithinLimit(account)
    BY LastPeriodAssumption DEF GrantInv, RaceTypeOK, TypeOK, LimitInv, StoredWithinLimit
  <1>2. CASE Read(c)
    <2>1. call[c].at = "read" /\ account' = account
      BY <1>2 DEF Read
    <2>2. CASE account = Absent /\ Advance(c, "seed", Defaults(SeedRole(call[c].op), month))
      <3> DEFINE doc == Defaults(SeedRole(call[c].op), month)
      <3>1. WithinLimit(doc)
        BY <1>1, DefaultsWithinLimit
      <3>2. Advance(c, "seed", doc)
        BY <2>2
      <3> HIDE DEF doc
      <3> QED
        BY <1>1, <2>1, <3>1, <3>2, LimitAdvance
    <2>3. CASE account # Absent /\ Advance(c, "seed", Rolled(account, month))
      <3> DEFINE doc == Rolled(account, month)
      <3>1. WithinLimit(doc)
        BY <1>1, <2>3, RolledWithinLimit
      <3>2. Advance(c, "seed", doc)
        BY <2>3
      <3> HIDE DEF doc
      <3> QED
        BY <1>1, <2>1, <3>1, <3>2, LimitAdvance
    <2>4. CASE account # Absent /\ Advance(c, AfterGet(call[c].op, account), account)
      <3> DEFINE stage == AfterGet(call[c].op, account)
      <3>1. stage = "write" /\ call[c].op.name = "debit" =>
               CanAfford(account, call[c].op.tokens)
        BY AfterGetAffordable
      <3>2. Advance(c, stage, account)
        BY <2>4
      <3> HIDE DEF stage
      <3> QED
        BY <1>1, <2>1, <2>4, <3>1, <3>2, LimitAdvance
    <2> QED
      BY <1>2, <2>2, <2>3, <2>4 DEF Read
  <1>3. CASE Seed(c)
    <2> DEFINE doc == call[c].doc
               stage == AfterGet(call[c].op, doc)
    <2>1. /\ call[c].at = "seed" /\ account' = doc /\ Advance(c, stage, doc)
      BY <1>3 DEF Seed
    <2>2. WithinLimit(doc)
      BY <2>1 DEF LimitInv, DocsWithinLimit, Pending
    <2>3. stage = "write" /\ call[c].op.name = "debit" =>
             CanAfford(doc, call[c].op.tokens)
      BY AfterGetAffordable
    <2> HIDE DEF doc, stage
    <2> QED
      BY <1>1, <2>1, <2>2, <2>3, LimitAdvance
  <1>4. CASE Write(c)
    <2> DEFINE doc == call[c].doc
               op == call[c].op
    <2>1. /\ call[c].at = "write" /\ account' = Applied(op, doc)
          /\ Advance(c, "returned", doc)
      BY <1>4 DEF Write
    <2>2. /\ doc \in Account /\ WithinLimit(doc)
          /\ op \in Operation /\ op \in Operations
          /\ op.name = "debit" => CanAfford(doc, op.tokens)
      BY <1>1, <2>1 DEF GrantInv, RaceTypeOK, TypeOK, CallType, LimitInv, DocsWithinLimit,
                        DebitsAffordable, CallsAreOperations, Pending
    <2>3. LowersNoCap(op)
      <3>1. \A any \in Operations : LowersNoCap(any)
        BY DEF CapsStand
      <3> HIDE DEF op
      <3> QED
        BY <2>2, <3>1
    <2>4. WithinLimit(account')
      BY <2>1, <2>2, <2>3, AppliedWithinLimit
    <2> HIDE DEF doc, op
    <2> QED
      BY <1>1, <2>1, <2>4, LimitAdvance
  <1>5. CASE List(c) \/ Erase(c) \/ Raise(c)
    <2>1. PICK stage \in {"erase", "returned", "raised"}, doc \in {Absent, call[c].doc} :
             Advance(c, stage, doc)
      BY <1>5 DEF List, Erase, Raise
    <2>2. call[c].at # "idle" /\ account' \in {account, Absent}
      BY <1>5 DEF List, Erase, Raise
    <2> QED
      BY <1>1, <2>1, <2>2, LimitAdvance
  <1> QED
    BY <1>2, <1>3, <1>4, <1>5 DEF CallStep

LEMMA LimitNext ==
    ASSUME CapsStand
    PROVE  GrantInv /\ LimitInv /\ [Next]_raceVars => LimitInv'
  <1> SUFFICES ASSUME GrantInv, LimitInv, [Next]_raceVars
               PROVE  LimitInv'
    OBVIOUS
  <1>1. CASE \E c \in Clients : \E op \in Operations : BeginCall(c, op)
    <2>1. PICK c \in Clients, op \in Operations : BeginCall(c, op)
      BY <1>1
    <2>2. PICK at \in {"list", "read"} :
             /\ call' = [call EXCEPT ![c] = [at |-> at, op |-> op, doc |-> Absent]]
             /\ account' = account
      BY <2>1 DEF BeginCall, Begin, Invoke, Begun
    <2>3. \A d \in Clients :
             call'[d] = IF d = c THEN [at |-> at, op |-> op, doc |-> Absent] ELSE call[d]
      BY <2>2 DEF GrantInv, RaceTypeOK, TypeOK
    <2> QED
      BY <2>2, <2>3 DEF LimitInv, StoredWithinLimit, DocsWithinLimit, DebitsAffordable,
                        CallsAreOperations, Pending
  <1>2. CASE \E c \in Clients : WriteCall(c)
    BY <1>2, LimitStep DEF WriteCall, CallStep
  <1>3. CASE \E c \in Clients : OtherStep(c)
    <2>1. PICK c \in Clients : OtherStep(c)
      BY <1>3
    <2>2. CASE CallStep(c) \/ Raise(c)
      BY <2>2, LimitStep
    <2>3. CASE End(c)
      <3>1. \A d \in Clients : call'[d] = IF d = c THEN NoCall ELSE call[d]
        BY <2>3 DEF End, Forget, GrantInv, RaceTypeOK, TypeOK
      <3>2. account' = account
        BY <2>3 DEF End, Forget
      <3> QED
        BY <3>1, <3>2 DEF NoCall, LimitInv, StoredWithinLimit, DocsWithinLimit,
                          DebitsAffordable, CallsAreOperations, Pending
    <2> QED
      BY <2>1, <2>2, <2>3 DEF OtherStep, CallStep
  <1>4. CASE NextMonth \/ AtBounds \/ UNCHANGED raceVars
    <2>1. account' = account /\ call' = call
      BY <1>4 DEF NextMonth, Tick, AtBounds, raceVars
    <2> QED
      BY <2>1 DEF LimitInv, StoredWithinLimit, DocsWithinLimit, DebitsAffordable,
                  CallsAreOperations, Pending
  <1> QED
    BY <1>1, <1>2, <1>3, <1>4 DEF Next

(***************************************************************************)
(* As long as nobody lowers the cap, no number of concurrent users and     *)
(* workers can leave an account.json with more tokens used than its cap:   *)
(* the races that account.py admits lose charges, they never overdraw.     *)
(***************************************************************************)
THEOREM RacesNeverOverdraw == ASSUME CapsStand PROVE Spec => []StoredWithinLimit
  <1>1. Init => GrantInv /\ LimitInv
    BY GrantInit, LimitInit
  <1>2. (GrantInv /\ LimitInv) /\ [Next]_raceVars => (GrantInv /\ LimitInv)'
    BY GrantNext, LimitNext
  <1>3. GrantInv /\ LimitInv => StoredWithinLimit
    BY DEF LimitInv
  <1> QED
    BY <1>1, <1>2, <1>3, PTL DEF Spec
-----------------------------------------------------------------------------
(***************************************************************************)
(* One caller.  Nobody changes the blob under its feet: what it is about   *)
(* to seed is a counter at zero for a month that the blob has not reached, *)
(* and what it is about to change is the blob.                             *)
(***************************************************************************)
OneCaller == \A c, d \in Clients : c = d

SeedIsFresh(c) ==
    /\ call[c].doc.tokens_used = 0
    /\ IF account = Absent
       THEN call[c].doc.monthly_token_limit = Ledger!OpeningCap(call[c].op)
       ELSE /\ account.usage_period < call[c].doc.usage_period
            /\ call[c].doc.monthly_token_limit = account.monthly_token_limit

Changes == {"debit", "credit", "update_limits", "reset_to_role_defaults"}

StageFits(k) ==
    /\ k.at \in {"read", "seed"} => k.op.name \in Changes \cup {"get_or_create"}
    /\ k.at = "write" => k.op.name \in Changes
    /\ k.at \in {"list", "erase"} => k.op.name = "delete_prefix"

SoleInv ==
    /\ CallsAreOperations
    /\ \A c \in Clients :
          /\ StageFits(call[c])
          /\ call[c].at = "seed" => SeedIsFresh(c)
          /\ call[c].at = "write" =>
                /\ account = call[c].doc
                /\ call[c].op.name = "debit" => CanAfford(call[c].doc, call[c].op.tokens)

LEMMA SoleInit == Init => SoleInv
  BY DEF Init, InitStore, NoCall, SoleInv, CallsAreOperations, StageFits

\* the step is that of the one caller
LEMMA SoleAdvance ==
    ASSUME OneCaller, NEW c \in Clients,
           call'[c].at # "idle" => call'[c].op \in Operations,
           StageFits(call'[c]),
           call'[c].at = "seed" => SeedIsFresh(c)',
           call'[c].at = "write" =>
               /\ account' = call'[c].doc
               /\ call'[c].op.name = "debit" => CanAfford(call'[c].doc, call'[c].op.tokens)
    PROVE  SoleInv'
  <1>1. \A d \in Clients : d = c
    BY DEF OneCaller
  <1> QED
    BY <1>1 DEF SoleInv, CallsAreOperations

LEMMA SoleStep ==
    ASSUME OneCaller, GrantInv, SoleInv, NEW c \in Clients, CallStep(c) \/ Raise(c)
    PROVE  SoleInv'
  <1> DEFINE op == call[c].op
  <1>1. call \in [Clients -> CallType] /\ month \in Nat
    BY DEF GrantInv, RaceTypeOK, TypeOK
  <1>2. op \in Operations
    BY DEF CallStep, Raise, Read, Seed, Write, List, Erase, SoleInv, CallsAreOperations
  <1>3. account # Absent => account \in Account
    BY DEF GrantInv, RaceTypeOK, TypeOK
  <1>4. call'[c].op = op
    BY <1>1 DEF CallStep, Raise, Read, Seed, Write, List, Erase, Advance
  <1>5. ASSUME call[c].at \in {"read", "seed"},
               call'[c].at = AfterGet(op, account'), call'[c].doc = account'
        PROVE  SoleInv'
    <2>1. AfterGet(op, account') \in {"returned", "rejected", "write"}
      BY DEF AfterGet
    <2>2. AfterGet(op, account') = "write" /\ op.name = "debit" => CanAfford(account', op.tokens)
      BY AfterGetAffordable
    <2>3. AfterGet(op, account') = "write" => op.name \in Changes
      BY <1>5 DEF AfterGet, SoleInv, StageFits
    <2>4. StageFits(call'[c])
      BY <1>4, <1>5, <2>1, <2>3 DEF StageFits
    <2> HIDE DEF op
    <2> QED
      BY <1>2, <1>4, <1>5, <2>1, <2>2, <2>4, SoleAdvance
  <1>6. ASSUME \/ call'[c].at \in {"returned", "raised"}
               \/ call[c].at = "list" /\ call'[c].at = "erase"
        PROVE  SoleInv'
    <2>1. StageFits(call'[c])
      BY <1>4, <1>6 DEF SoleInv, StageFits
    <2> QED
      BY <1>2, <1>4, <1>6, <2>1, SoleAdvance
  <1>7. ASSUME call[c].at = "read", call'[c].at = "seed", SeedIsFresh(c)'
        PROVE  SoleInv'
    <2>1. StageFits(call'[c])
      BY <1>4, <1>7 DEF SoleInv, StageFits
    <2> QED
      BY <1>2, <1>4, <1>7, <2>1, SoleAdvance
  <1>8. CASE Read(c)
    <2>1. CASE account = Absent
      <3>1. /\ call'[c].at = "seed" /\ call'[c].doc = Defaults(SeedRole(op), month)
            /\ account' = account
        BY <1>1, <1>8, <2>1 DEF Read, Advance
      <3>2. SeedIsFresh(c)'
        BY <1>4, <2>1, <3>1
           DEF SeedIsFresh, Defaults, SeedRole, Ledger!OpeningCap, Ledger!RoleCap
      <3>3. call[c].at = "read"
        BY <1>8 DEF Read
      <3> QED
        BY <1>7, <3>1, <3>2, <3>3
    <2>2. CASE account # Absent /\ IsPeriodStale(account, month)
      <3>1. /\ call[c].at = "read" /\ call'[c].at = "seed"
            /\ call'[c].doc = Rolled(account, month) /\ account' = account
        BY <1>1, <1>8, <2>2 DEF Read, Advance
      <3>2. /\ call'[c].doc.tokens_used = 0 /\ call'[c].doc.usage_period = month
            /\ call'[c].doc.monthly_token_limit = account.monthly_token_limit
        BY <1>1, <1>3, <2>2, <3>1, RolledType
      <3>3. SeedIsFresh(c)'
        BY <2>2, <3>1, <3>2 DEF SeedIsFresh, IsPeriodStale
      <3> QED
        BY <1>7, <3>1, <3>3
    <2>3. CASE account # Absent /\ ~IsPeriodStale(account, month)
      <3>1. /\ call[c].at = "read" /\ call'[c].at = AfterGet(op, account)
            /\ call'[c].doc = account /\ account' = account
        BY <1>1, <1>8, <2>3 DEF Read, Advance
      <3> QED
        BY <1>5, <3>1
    <2> QED
      BY <2>1, <2>2, <2>3
  <1>9. CASE Seed(c)
    <2>1. /\ call[c].at = "seed" /\ call'[c].at = AfterGet(op, call[c].doc)
          /\ call'[c].doc = call[c].doc /\ account' = call[c].doc
      BY <1>1, <1>9 DEF Seed, Advance
    <2> QED
      BY <1>5, <2>1
  <1>10. CASE Write(c) \/ List(c) \/ Erase(c) \/ Raise(c)
    <2>1. \/ call'[c].at \in {"returned", "raised"}
          \/ call[c].at = "list" /\ call'[c].at = "erase"
      BY <1>1, <1>10 DEF Write, List, Erase, Raise, Advance
    <2> QED
      BY <1>6, <2>1
  <1> QED
    BY <1>8, <1>9, <1>10 DEF CallStep

LEMMA SoleNext ==
    ASSUME OneCaller, GrantInv, SoleInv, [Next]_raceVars
    PROVE  SoleInv'
  <1>1. call \in [Clients -> CallType]
    BY DEF GrantInv, RaceTypeOK, TypeOK
  <1>2. ASSUME NEW c \in Clients, NEW op \in Operations, BeginCall(c, op)
        PROVE  SoleInv'
    <2>1. call'[c] = Begun(op)
      BY <1>1, <1>2 DEF BeginCall, Begin, Invoke
    <2>2. op \in Operation
      BY OperationsAssumption
    <2>3. StageFits(call'[c]) /\ call'[c].at \in {"list", "read"} /\ call'[c].op = op
      BY <2>1, <2>2 DEF Begun, StageFits, Changes, Operation
    <2> QED
      BY <2>3, SoleAdvance
  <1>3. ASSUME NEW c \in Clients, WriteCall(c) \/ OtherStep(c)
        PROVE  SoleInv'
    <2>1. CASE End(c)
      <3>1. call'[c].at = "idle"
        BY <1>1, <2>1 DEF End, Forget, NoCall
      <3>2. StageFits(call'[c])
        BY <3>1 DEF StageFits
      <3> QED
        BY <3>1, <3>2, SoleAdvance
    <2> QED
      BY <1>3, <2>1, SoleStep DEF WriteCall, OtherStep, CallStep
  <1>4. CASE NextMonth \/ AtBounds \/ UNCHANGED raceVars
    <2>1. account' = account /\ call' = call
      BY <1>4 DEF NextMonth, Tick, AtBounds, raceVars, storeVars
    <2> QED
      BY <2>1 DEF SoleInv, SeedIsFresh, CallsAreOperations
  <1> QED
    BY <1>2, <1>3, <1>4 DEF Next
-----------------------------------------------------------------------------
(***************************************************************************)
(* How the ledger sees a call that moves on: it stays pending, with the    *)
(* month it is about, or it is answered.                                   *)
(***************************************************************************)
Unanswered == {"read", "seed", "write", "list", "erase"}

LEMMA AskedMoves ==
    ASSUME NEW c \in Clients, NEW new, call \in [Clients -> CallType],
           call' = [call EXCEPT ![c] = new], month' = month
    PROVE  Asked' = [Asked EXCEPT ![c] = AskedOf(new, month)]
  <1>1. \A d \in Clients : call'[d] = IF d = c THEN new ELSE call[d]
    OBVIOUS
  <1>2. Asked' = [d \in Clients |-> AskedOf(call'[d], month)]
    BY DEF Asked
  <1>3. [Asked EXCEPT ![c] = AskedOf(new, month)] =
           [d \in Clients |-> IF d = c THEN AskedOf(new, month) ELSE AskedOf(call[d], month)]
    BY DEF Asked
  <1> QED
    BY <1>1, <1>2, <1>3

LEMMA AskedPending ==
    ASSUME NEW c \in Clients, call[c].at \in Unanswered
    PROVE  /\ Asked[c].at = "pending" /\ Asked[c].op = call[c].op
           /\ Asked[c].late = Overtaken(call[c], month)
  BY DEF Asked, AskedOf, Answered, Unanswered

LEMMA AskedAnswered ==
    ASSUME GrantInv, NEW c \in Clients, NEW stage \in Over, NEW doc,
           call[c].at \in Unanswered, Advance(c, stage, doc), month' = month
    PROVE  Ledger!Answer(c, Answered(stage))
  <1> DEFINE new == [at |-> stage, op |-> call[c].op, doc |-> doc]
  <1>1. call \in [Clients -> CallType]
    BY DEF GrantInv, RaceTypeOK, TypeOK
  <1>2. AskedOf(new, month) = [at |-> Answered(stage), op |-> Asked[c].op, late |-> FALSE]
    BY AskedPending DEF AskedOf, Overtaken, Over
  <1>3. call' = [call EXCEPT ![c] = new]
    BY DEF Advance
  <1> HIDE DEF new
  <1>4. Asked' = [Asked EXCEPT ![c] = AskedOf(new, month)]
    BY <1>1, <1>3, AskedMoves
  <1> QED
    BY <1>2, <1>4 DEF Ledger!Answer

LEMMA AskedStays ==
    ASSUME GrantInv, NEW c \in Clients, NEW stage \in Unanswered, NEW doc,
           call[c].at \in Unanswered, Advance(c, stage, doc), month' = month,
           Overtaken([at |-> stage, op |-> call[c].op, doc |-> doc], month)
              = Overtaken(call[c], month)
    PROVE  Asked' = Asked
  <1> DEFINE new == [at |-> stage, op |-> call[c].op, doc |-> doc]
  <1>1. call \in [Clients -> CallType]
    BY DEF GrantInv, RaceTypeOK, TypeOK
  <1>2. AskedOf(new, month) = Asked[c]
    BY DEF Asked, AskedOf, Answered, Unanswered
  <1>3. call' = [call EXCEPT ![c] = new]
    BY DEF Advance
  <1> HIDE DEF new
  <1>4. Asked' = [Asked EXCEPT ![c] = AskedOf(new, month)]
    BY <1>1, <1>3, AskedMoves
  <1>5. Asked = [d \in Clients |-> Asked[d]]
    BY DEF Asked
  <1> QED
    BY <1>2, <1>4, <1>5

\* the check of debit is the ledger's
LEMMA AffordFits ==
    ASSUME NEW a \in Account, NEW tokens \in Nat
    PROVE  CanAfford(a, tokens) <=> Ledger!Fits(tokens, a.tokens_used, a.monthly_token_limit)
  <1>1. a.tokens_used \in Nat /\ a.monthly_token_limit \in Caps
    BY DEF Account
  <1> QED
    BY <1>1, UnlimitedAssumption DEF CanAfford, FlooredAtZero, Ledger!Fits, Caps
-----------------------------------------------------------------------------
(***************************************************************************)
(* The step of AtomicLedger that each step of a call is.                   *)
(***************************************************************************)
LedgerStutter == UNCHANGED <<UsedThisMonth, StoredCap, month, Asked>>

\* an account of this month is read: a look or a rejection takes effect
LEMMA LedgerRead ==
    ASSUME GrantInv, SoleInv, NEW c \in Clients, Read(c)
    PROVE  Ledger!CallerNext(c) \/ LedgerStutter
  <1> DEFINE op == call[c].op
  <1>1. /\ account' = account /\ month' = month /\ month \in Nat
        /\ call[c].at = "read" /\ call[c].at \in Unanswered
        /\ StageFits(call[c])
        /\ op \in Operation
    BY DEF Read, Unanswered, SoleInv, GrantInv, RaceTypeOK, TypeOK, CallType
  <1>2. UsedThisMonth' = UsedThisMonth /\ StoredCap' = StoredCap
    BY <1>1 DEF UsedThisMonth, StoredCap
  <1>3. /\ Asked[c].at = "pending" /\ Asked[c].op = op /\ Asked[c].late = FALSE
        /\ Overtaken(call[c], month) = FALSE
    BY <1>1, AskedPending DEF Overtaken
  <1>4. ASSUME NEW doc \in Account, NEW stage \in {"seed", "write"}, Advance(c, stage, doc),
               ~(doc.usage_period < month)
        PROVE  LedgerStutter
    <2>1. Overtaken([at |-> stage, op |-> op, doc |-> doc], month) = Overtaken(call[c], month)
      BY <1>3, <1>4 DEF Overtaken
    <2>2. stage \in Unanswered
      BY DEF Unanswered
    <2> QED
      BY <1>1, <1>2, <1>4, <2>1, <2>2, AskedStays DEF LedgerStutter
  <1>5. CASE account = Absent /\ Advance(c, "seed", Defaults(SeedRole(op), month))
    <2>1. /\ Defaults(SeedRole(op), month) \in Account
          /\ ~(Defaults(SeedRole(op), month).usage_period < month)
      BY <1>1, DefaultsType
    <2> QED
      BY <1>4, <1>5, <2>1
  <1>6. CASE account # Absent /\ Advance(c, "seed", Rolled(account, month))
    <2>1. account \in Account
      BY <1>6 DEF GrantInv, RaceTypeOK, TypeOK
    <2>2. Rolled(account, month) \in Account /\ ~(Rolled(account, month).usage_period < month)
      BY <1>1, <2>1, RolledType
    <2> QED
      BY <1>4, <1>6, <2>2
  <1>7. CASE /\ account # Absent /\ ~IsPeriodStale(account, month)
             /\ Advance(c, AfterGet(op, account), account)
    <2>1. /\ account \in Account /\ ~(account.usage_period < month)
          /\ UsedThisMonth = account.tokens_used
          /\ StoredCap = account.monthly_token_limit
      BY <1>7 DEF GrantInv, RaceTypeOK, TypeOK, IsPeriodStale, UsedThisMonth, StoredCap
    <2>2. StoredCap # Absent
      BY <2>1, AbsentIsNoCap DEF Account
    <2>3. CASE op.name = "get_or_create"
      <3>1. AfterGet(op, account) = "returned" /\ Answered("returned") = "done"
        BY <2>3 DEF AfterGet, Answered
      <3>2. Ledger!Answer(c, "done")
        BY <1>1, <1>7, <3>1, AskedAnswered DEF Over
      <3>3. Ledger!Look(c)
        BY <1>1, <1>2, <1>3, <2>2, <2>3, <3>2 DEF Ledger!Look, Ledger!Waits
      <3> QED
        BY <3>3 DEF Ledger!CallerNext
    <2>4. CASE op.name = "debit" /\ ~CanAfford(account, op.tokens)
      <3>1. AfterGet(op, account) = "rejected" /\ Answered("rejected") = "rejected"
        BY <2>4 DEF AfterGet, Answered
      <3>2. Ledger!Answer(c, "rejected")
        BY <1>1, <1>7, <3>1, AskedAnswered DEF Over
      <3>3. op.tokens \in Nat
        BY <1>1, <2>4 DEF Operation
      <3>4. ~Ledger!Fits(op.tokens, UsedThisMonth, StoredCap)
        BY <2>1, <2>4, <3>3, AffordFits
      <3>5. Ledger!TurnDown(c)
        BY <1>1, <1>2, <1>3, <2>2, <2>4, <3>2, <3>4 DEF Ledger!TurnDown, Ledger!Waits
      <3> QED
        BY <3>5 DEF Ledger!CallerNext
    <2>5. CASE /\ op.name # "get_or_create"
               /\ ~(op.name = "debit" /\ ~CanAfford(account, op.tokens))
      <3>1. AfterGet(op, account) = "write"
        BY <2>5 DEF AfterGet
      <3> QED
        BY <1>4, <1>7, <2>1, <3>1
    <2> QED
      BY <2>3, <2>4, <2>5
  <1> QED
    BY <1>1, <1>5, <1>6, <1>7 DEF Read

\* the save of a seeded or rolled document opens the account, or is invisible
\* but for the answer that the call may get with it
LEMMA LedgerSeed ==
    ASSUME GrantInv, SoleInv, NEW c \in Clients, Seed(c)
    PROVE  Ledger!CallerNext(c) \/ LedgerStutter
  <1> DEFINE op == call[c].op
             doc == call[c].doc
  <1>1. /\ account' = doc /\ month' = month /\ SeedIsFresh(c) /\ doc \in Account
        /\ month \in Nat /\ (account # Absent => account \in Account)
        /\ doc.usage_period \in 1 .. month
        /\ call[c].at = "seed" /\ call[c].at \in Unanswered
        /\ op \in Operation /\ op.name \in Changes \cup {"get_or_create"}
        /\ Advance(c, AfterGet(op, doc), doc)
    BY DEF Seed, SoleInv, GrantInv, RaceTypeOK, TypeOK, DatedByClock, Pending, CallType,
           StageFits, Unanswered
  <1>2. doc # Absent
    BY <1>1, AbsentAssumption
  <1>3. /\ UsedThisMonth' = 0 /\ StoredCap' = doc.monthly_token_limit
        /\ doc.tokens_used = 0
    BY <1>1, <1>2 DEF UsedThisMonth, StoredCap, SeedIsFresh
  <1>4. /\ Asked[c].at = "pending" /\ Asked[c].op = op
    BY <1>1, AskedPending
  <1>5. op.name = "get_or_create" => Ledger!Answer(c, "done")
    <2> SUFFICES ASSUME op.name = "get_or_create"
                 PROVE  Ledger!Answer(c, "done")
      OBVIOUS
    <2>1. AfterGet(op, doc) = "returned" /\ Answered("returned") = "done"
      BY DEF AfterGet, Answered
    <2> QED
      BY <1>1, <2>1, AskedAnswered DEF Over
  <1>6. op.name = "debit" =>
           (CanAfford(doc, op.tokens) <=> Ledger!Fits(op.tokens, 0, doc.monthly_token_limit))
    BY <1>1, <1>3, AffordFits DEF Operation
  <1>7. op.name = "debit" /\ ~CanAfford(doc, op.tokens) => Ledger!Answer(c, "rejected")
    <2> SUFFICES ASSUME op.name = "debit", ~CanAfford(doc, op.tokens)
                 PROVE  Ledger!Answer(c, "rejected")
      OBVIOUS
    <2>1. AfterGet(op, doc) = "rejected" /\ Answered("rejected") = "rejected"
      BY DEF AfterGet, Answered
    <2> QED
      BY <1>1, <2>1, AskedAnswered DEF Over
  <1>8. ASSUME op.name # "get_or_create", ~(op.name = "debit" /\ ~CanAfford(doc, op.tokens))
        PROVE  Asked' = Asked
    <2>1. AfterGet(op, doc) = "write"
      BY <1>8 DEF AfterGet
    <2>2. Overtaken([at |-> "write", op |-> op, doc |-> doc], month) = Overtaken(call[c], month)
      BY <1>1 DEF Overtaken
    <2>3. "write" \in Unanswered /\ Advance(c, "write", doc)
      BY <1>1, <2>1 DEF Unanswered
    <2> QED
      BY <1>1, <2>2, <2>3, AskedStays
  <1>9. CASE account = Absent
    <2>1. StoredCap = Absent /\ StoredCap' = Ledger!OpeningCap(op)
      BY <1>1, <1>3, <1>9 DEF SeedIsFresh, StoredCap
    <2>2. doc.monthly_token_limit = Ledger!OpeningCap(op)
      BY <1>1, <1>9 DEF SeedIsFresh
    <2>3. Ledger!Waits(c, {"get_or_create", "debit", "credit", "update_limits",
                           "reset_to_role_defaults"})
      BY <1>1, <1>4 DEF Ledger!Waits, Changes
    <2> HIDE DEF op, doc
    <2>4. CASE op.name = "get_or_create"
      <3>1. Ledger!Open(c)
        BY <1>1, <1>3, <1>4, <1>5, <2>1, <2>3, <2>4 DEF Ledger!Open
      <3> QED
        BY <3>1 DEF Ledger!CallerNext
    <2>5. CASE op.name = "debit" /\ ~CanAfford(doc, op.tokens)
      <3>1. ~Ledger!Fits(op.tokens, 0, Ledger!OpeningCap(op)) /\ Ledger!Answer(c, "rejected")
        BY <1>6, <1>7, <2>2, <2>5
      <3>2. Ledger!Open(c)
        BY <1>1, <1>3, <1>4, <2>1, <2>3, <2>5, <3>1 DEF Ledger!Open
      <3> QED
        BY <3>2 DEF Ledger!CallerNext
    <2>6. CASE op.name # "get_or_create" /\ ~(op.name = "debit" /\ ~CanAfford(doc, op.tokens))
      <3>1. /\ Asked' = Asked
            /\ ~(op.name = "debit" /\ ~Ledger!Fits(op.tokens, 0, Ledger!OpeningCap(op)))
        BY <1>6, <1>8, <2>2, <2>6
      <3>2. Ledger!Open(c)
        BY <1>1, <1>3, <1>4, <2>1, <2>3, <2>6, <3>1 DEF Ledger!Open
      <3> QED
        BY <3>2 DEF Ledger!CallerNext
    <2> QED
      BY <2>4, <2>5, <2>6
  <1>10. CASE account # Absent
    <2>1. /\ account.usage_period < doc.usage_period
          /\ doc.monthly_token_limit = account.monthly_token_limit
          /\ account \in Account /\ account.usage_period \in Nat
      BY <1>1, <1>10 DEF SeedIsFresh, Account
    <2>2. UsedThisMonth = 0 /\ StoredCap = doc.monthly_token_limit
      BY <1>1, <1>10, <2>1 DEF UsedThisMonth, StoredCap
    <2>3. StoredCap # Absent
      BY <1>1, <2>2, AbsentIsNoCap DEF Account
    <2> HIDE DEF op, doc
    <2>4. CASE op.name = "get_or_create"
      <3>1. Ledger!Look(c)
        BY <1>1, <1>3, <1>4, <1>5, <2>2, <2>3, <2>4 DEF Ledger!Look, Ledger!Waits
      <3> QED
        BY <3>1 DEF Ledger!CallerNext
    <2>5. CASE op.name = "debit" /\ ~CanAfford(doc, op.tokens)
      <3>1. ~Ledger!Fits(op.tokens, UsedThisMonth, StoredCap) /\ Ledger!Answer(c, "rejected")
        BY <1>6, <1>7, <2>2, <2>5
      <3>2. Ledger!TurnDown(c)
        BY <1>1, <1>3, <1>4, <2>2, <2>3, <2>5, <3>1 DEF Ledger!TurnDown, Ledger!Waits
      <3> QED
        BY <3>2 DEF Ledger!CallerNext
    <2>6. CASE op.name # "get_or_create" /\ ~(op.name = "debit" /\ ~CanAfford(doc, op.tokens))
      BY <1>1, <1>3, <1>8, <2>2, <2>6 DEF LedgerStutter
    <2> QED
      BY <2>4, <2>5, <2>6
  <1> QED
    BY <1>9, <1>10

\* the save at the end of a method is the step that the method is named for
LEMMA LedgerWrite ==
    ASSUME GrantInv, SoleInv, NEW c \in Clients, Write(c)
    PROVE  Ledger!CallerNext(c)
  <1> DEFINE op == call[c].op
             stale == account.usage_period < month
  <1>1. /\ account \in Account /\ month \in Nat /\ account' = Applied(op, account) /\ month' = month
        /\ op \in Operation /\ op.name \in Changes
        /\ op.name = "debit" => CanAfford(account, op.tokens)
        /\ call[c].at = "write" /\ call[c].at \in Unanswered /\ call[c].doc = account
        /\ Advance(c, "returned", call[c].doc)
    BY DEF Write, SoleInv, GrantInv, RaceTypeOK, TypeOK, DatedByClock, Pending, CallType,
           StageFits, Unanswered
  <1>2. account' \in Account /\ account'.usage_period = account.usage_period
    BY <1>1, AppliedType
  <1>3. /\ UsedThisMonth = IF stale THEN 0 ELSE account.tokens_used
        /\ UsedThisMonth' = IF stale THEN 0 ELSE account'.tokens_used
        /\ StoredCap = account.monthly_token_limit
        /\ StoredCap' = account'.monthly_token_limit
    BY <1>1, <1>2, AbsentAssumption DEF UsedThisMonth, StoredCap
  <1>4. /\ account.tokens_used \in Nat /\ account.monthly_token_limit \in Caps
        /\ StoredCap # Absent
    BY <1>1, <1>3, AbsentIsNoCap DEF Account
  <1>5. Asked[c].at = "pending" /\ Asked[c].op = op /\ Asked[c].late = stale
    BY <1>1, AskedPending DEF Overtaken
  <1>6. Answered("returned") = "done" /\ "returned" \in Over
    BY DEF Answered, Over
  <1>7. Ledger!Answer(c, "done")
    BY <1>1, <1>6, AskedAnswered
  <1> HIDE DEF op
  <1>8. CASE op.name = "debit"
    <2>1. /\ account'.tokens_used = account.tokens_used + op.tokens /\ op.tokens \in Nat
          /\ account'.monthly_token_limit = account.monthly_token_limit
      BY <1>1, <1>8 DEF Applied, Debited, Account, Operation
    <2>2. Ledger!Fits(op.tokens, account.tokens_used, account.monthly_token_limit)
      BY <1>1, <1>8, <2>1, AffordFits
    <2>3. stale \/ Ledger!Fits(op.tokens, UsedThisMonth, StoredCap)
      BY <1>3, <2>2
    <2>4. UsedThisMonth' = IF stale THEN UsedThisMonth ELSE UsedThisMonth + op.tokens
      BY <1>3, <2>1
    <2> HIDE DEF stale
    <2>5. Ledger!Charge(c)
      BY <1>1, <1>3, <1>4, <1>5, <1>7, <1>8, <2>1, <2>3, <2>4 DEF Ledger!Charge, Ledger!Waits
    <2> QED
      BY <2>5 DEF Ledger!CallerNext
  <1>9. CASE op.name = "credit"
    <2>1. /\ account'.tokens_used = FlooredAtZero(account.tokens_used - op.tokens)
          /\ op.tokens \in Nat
          /\ account'.monthly_token_limit = account.monthly_token_limit
      BY <1>1, <1>9 DEF Applied, Credited, Account, Operation
    <2>2. UsedThisMonth' = CASE stale -> UsedThisMonth
                             [] op.tokens > UsedThisMonth -> 0
                             [] OTHER -> UsedThisMonth - op.tokens
      <3>1. CASE stale
        BY <1>3, <3>1
      <3>2. CASE ~stale
        BY <1>3, <1>4, <2>1, <3>2 DEF FlooredAtZero
      <3> QED
        BY <3>1, <3>2
    <2> HIDE DEF stale
    <2>3. Ledger!Refund(c)
      BY <1>1, <1>3, <1>4, <1>5, <1>7, <1>9, <2>1, <2>2 DEF Ledger!Refund, Ledger!Waits
    <2> QED
      BY <2>3 DEF Ledger!CallerNext
  <1>10. ASSUME op.name \in {"update_limits", "reset_to_role_defaults"},
                account'.tokens_used = account.tokens_used,
                account'.monthly_token_limit = Ledger!CapAfter(op)
         PROVE  Ledger!CallerNext(c)
    <2>1. UsedThisMonth' = UsedThisMonth
      BY <1>3, <1>10
    <2>2. Ledger!Recap(c)
      BY <1>1, <1>3, <1>4, <1>5, <1>7, <1>10, <2>1 DEF Ledger!Recap, Ledger!Waits
    <2> QED
      BY <2>2 DEF Ledger!CallerNext
  <1>11. CASE op.name = "update_limits"
    <2>1. account' = WithCaps(account, op.updates)
      BY <1>1, <1>11 DEF Applied
    <2>2. /\ account'.tokens_used = account.tokens_used
          /\ account'.monthly_token_limit =
                IF "monthly_token_limit" \in DOMAIN op.updates
                THEN op.updates.monthly_token_limit
                ELSE account.monthly_token_limit
      BY <1>1, <2>1 DEF WithCaps, Account
    <2>3. account'.monthly_token_limit = Ledger!CapAfter(op)
      BY <1>3, <1>11, <2>2 DEF Ledger!CapAfter
    <2> QED
      BY <1>10, <1>11, <2>2, <2>3
  <1>12. CASE op.name = "reset_to_role_defaults"
    <2>1. account' = WithRoleCaps(account, op.role)
      BY <1>1, <1>12 DEF Applied
    <2>2. /\ account'.tokens_used = account.tokens_used
          /\ account'.monthly_token_limit = Defaults(op.role, 0).monthly_token_limit
      BY <1>1, <2>1 DEF WithRoleCaps, Account
    <2>3. account'.monthly_token_limit = Ledger!CapAfter(op)
      BY <1>12, <2>2 DEF Defaults, Ledger!CapAfter, Ledger!RoleCap
    <2> QED
      BY <1>10, <1>12, <2>2, <2>3
  <1> QED
    BY <1>1, <1>8, <1>9, <1>11, <1>12 DEF Changes

LEMMA LedgerDelete ==
    ASSUME GrantInv, SoleInv, NEW c \in Clients, List(c) \/ Erase(c)
    PROVE  Ledger!CallerNext(c) \/ LedgerStutter
  <1>1. /\ call[c].at \in {"list", "erase"} /\ call[c].at \in Unanswered /\ month' = month
        /\ call[c].op.name = "delete_prefix"
    BY DEF List, Erase, SoleInv, StageFits, Unanswered
  <1>2. /\ Asked[c].at = "pending" /\ Asked[c].op = call[c].op
        /\ Overtaken(call[c], month) = FALSE
    BY <1>1, AskedPending DEF Overtaken
  <1>3. account' = Absent => UsedThisMonth' = 0 /\ StoredCap' = Absent
    BY DEF UsedThisMonth, StoredCap
  <1>4. account' = account => UsedThisMonth' = UsedThisMonth /\ StoredCap' = StoredCap
    BY <1>1 DEF UsedThisMonth, StoredCap
  <1>5. ASSUME Advance(c, "returned", Absent), account' = Absent
        PROVE  Ledger!CallerNext(c)
    <2>1. Ledger!Answer(c, "done")
      BY <1>1, <1>5, AskedAnswered DEF Answered, Over
    <2>2. Ledger!Close(c)
      BY <1>1, <1>2, <1>3, <1>5, <2>1 DEF Ledger!Close, Ledger!Waits
    <2> QED
      BY <2>2 DEF Ledger!CallerNext
  <1>6. ASSUME Advance(c, "raised", Absent), account' = account
        PROVE  Ledger!CallerNext(c)
    <2>1. Ledger!Answer(c, "failed")
      BY <1>1, <1>6, AskedAnswered DEF Answered, Over
    <2>2. Ledger!Fail(c)
      BY <1>1, <1>2, <1>4, <1>6, <2>1 DEF Ledger!Fail
    <2> QED
      BY <2>2 DEF Ledger!CallerNext
  <1>7. ASSUME Advance(c, "erase", Absent), account' = account
        PROVE  LedgerStutter
    <2>1. /\ "erase" \in Unanswered
          /\ Overtaken([at |-> "erase", op |-> call[c].op, doc |-> Absent], month)
                = Overtaken(call[c], month)
      BY <1>2 DEF Unanswered, Overtaken
    <2>2. Asked' = Asked
      BY <1>1, <1>7, <2>1, AskedStays
    <2> QED
      BY <1>1, <1>4, <1>7, <2>2 DEF LedgerStutter
  <1> QED
    BY <1>5, <1>6, <1>7 DEF List, Erase

LEMMA LedgerRaise ==
    ASSUME GrantInv, NEW c \in Clients, Raise(c)
    PROVE  Ledger!CallerNext(c)
  <1>1. call[c].at \in Unanswered /\ month' = month /\ Advance(c, "raised", call[c].doc)
    BY DEF Raise, Unanswered
  <1>2. UsedThisMonth' = UsedThisMonth /\ StoredCap' = StoredCap
    BY DEF Raise, UsedThisMonth, StoredCap
  <1>3. Ledger!Answer(c, "failed")
    BY <1>1, AskedAnswered DEF Answered, Over
  <1>4. Ledger!Fail(c)
    BY <1>1, <1>2, <1>3, AskedPending DEF Ledger!Fail
  <1> QED
    BY <1>4 DEF Ledger!CallerNext

LEMMA LedgerBeginEnd ==
    ASSUME GrantInv, NEW c \in Clients,
           End(c) \/ \E op \in Operations : BeginCall(c, op)
    PROVE  Ledger!CallerNext(c)
  <1>1. call \in [Clients -> CallType]
    BY DEF GrantInv, RaceTypeOK, TypeOK
  <1>2. account' = account /\ month' = month
    BY DEF End, BeginCall, Begin
  <1>3. UsedThisMonth' = UsedThisMonth /\ StoredCap' = StoredCap
    BY <1>2 DEF UsedThisMonth, StoredCap
  <1>4. CASE End(c)
    <2>1. call' = [call EXCEPT ![c] = NoCall] /\ call[c].at # "idle"
      BY <1>4 DEF End, Forget
    <2>2. AskedOf(NoCall, month) = Ledger!Idle
      BY DEF NoCall, AskedOf, Ledger!Idle
    <2>3. Asked[c] # Ledger!Idle
      <3>1. Asked[c].at = Answered(call[c].at)
        BY <2>1 DEF Asked, AskedOf
      <3> QED
        BY <3>1 DEF Answered, Ledger!Idle
    <2> HIDE DEF NoCall
    <2>4. Asked' = [Asked EXCEPT ![c] = Ledger!Idle]
      BY <1>1, <1>2, <2>1, <2>2, AskedMoves
    <2>5. Ledger!Leave(c)
      BY <1>2, <1>3, <2>3, <2>4 DEF Ledger!Leave
    <2> QED
      BY <2>5 DEF Ledger!CallerNext
  <1>5. ASSUME NEW op \in Operations, BeginCall(c, op)
        PROVE  Ledger!CallerNext(c)
    <2>1. call' = [call EXCEPT ![c] = Begun(op)] /\ call[c] = NoCall
      BY <1>5 DEF BeginCall, Begin, Invoke
    <2>2. AskedOf(Begun(op), month) = [at |-> "pending", op |-> op, late |-> FALSE]
      BY DEF Begun, AskedOf, Answered, Overtaken
    <2>3. Asked[c] = Ledger!Idle
      BY <2>1 DEF Asked, AskedOf, NoCall, Ledger!Idle
    <2>4. Asked' = [Asked EXCEPT ![c] = [at |-> "pending", op |-> op, late |-> FALSE]]
      BY <1>1, <1>2, <2>1, <2>2, AskedMoves
    <2>5. Ledger!Ask(c, op)
      BY <1>2, <1>3, <2>3, <2>4 DEF Ledger!Ask
    <2> QED
      BY <2>5 DEF Ledger!CallerNext
  <1> QED
    BY <1>4, <1>5

\* the first of a month clears the counter, and overtakes the calls that
\* hold a document
LEMMA LedgerTick ==
    ASSUME GrantInv, NextMonth
    PROVE  Ledger!NewMonth
  <1>1. account' = account /\ month' = month + 1 /\ call' = call /\ month \in Nat
    BY DEF NextMonth, Tick, GrantInv, RaceTypeOK, TypeOK
  <1>2. account # Absent => account.usage_period \in 1 .. month
    BY DEF GrantInv, DatedByClock
  <1>3. UsedThisMonth' = 0 /\ StoredCap' = StoredCap
    BY <1>1, <1>2 DEF UsedThisMonth, StoredCap
  <1> DEFINE late == {c \in Clients : call[c].at \in {"seed", "write"}}
  <1>4. late \in SUBSET {c \in Clients : Asked[c].at = "pending"}
    BY AskedPending DEF Unanswered
  <1>5. \A c \in Clients :
           AskedOf(call[c], month + 1) =
              IF c \in late
              THEN [at |-> "pending", op |-> Asked[c].op, late |-> TRUE]
              ELSE Asked[c]
    <2> SUFFICES ASSUME NEW c \in Clients
                 PROVE  AskedOf(call[c], month + 1) =
                           IF c \in late
                           THEN [at |-> "pending", op |-> Asked[c].op, late |-> TRUE]
                           ELSE Asked[c]
      OBVIOUS
    <2>1. CASE c \in late
      <3>1. call[c].doc.usage_period \in 1 .. month
        BY <2>1 DEF GrantInv, DatedByClock, Pending
      <3>2. Overtaken(call[c], month + 1) = TRUE
        BY <1>1, <2>1, <3>1 DEF Overtaken
      <3>3. Asked[c].op = call[c].op
        BY <2>1, AskedPending DEF Unanswered
      <3> QED
        BY <2>1, <3>2, <3>3 DEF AskedOf, Answered
    <2>2. CASE c \notin late
      <3>1. Overtaken(call[c], month + 1) = FALSE /\ Overtaken(call[c], month) = FALSE
        BY <2>2 DEF Overtaken
      <3> QED
        BY <2>2, <3>1 DEF AskedOf, Asked
    <2> QED
      BY <2>1, <2>2
  <1>6. Asked' = [c \in Clients |-> AskedOf(call[c], month + 1)]
    BY <1>1 DEF Asked
  <1> HIDE DEF late
  <1>7. Asked' = [c \in Clients |->
                     IF c \in late
                     THEN [at |-> "pending", op |-> Asked[c].op, late |-> TRUE]
                     ELSE Asked[c]]
    BY <1>5, <1>6
  <1> QED
    BY <1>1, <1>3, <1>4, <1>7 DEF Ledger!NewMonth

LEMMA LedgerStep ==
    ASSUME GrantInv, SoleInv, [Next]_raceVars
    PROVE  Ledger!LedgerNext \/ LedgerStutter
  <1>1. CASE AtBounds \/ UNCHANGED raceVars
    <2>1. UNCHANGED <<account, month, call>>
      BY <1>1 DEF AtBounds, raceVars
    <2> QED
      BY <2>1 DEF UsedThisMonth, StoredCap, Asked, LedgerStutter
  <1>2. CASE NextMonth
    BY <1>2, LedgerTick DEF Ledger!LedgerNext
  <1>3. ASSUME NEW c \in Clients,
               (\E op \in Operations : BeginCall(c, op)) \/ WriteCall(c) \/ OtherStep(c)
        PROVE  Ledger!CallerNext(c) \/ LedgerStutter
    BY <1>3, LedgerBeginEnd, LedgerRead, LedgerSeed, LedgerWrite, LedgerDelete, LedgerRaise
       DEF WriteCall, OtherStep
  <1> QED
    BY <1>1, <1>2, <1>3 DEF Next, Ledger!LedgerNext

(***************************************************************************)
(* For one caller at a time, whatever calls it makes and wherever they     *)
(* fail, account.py implements the ledger: every call takes effect in one  *)
(* step of the ledger while it is under way, only the clock restarts the   *)
(* month's usage, and only a deletion closes the account.                  *)
(***************************************************************************)
THEOREM OneCallerSeesALedger == ASSUME OneCaller PROVE Spec => ImplementsLedger
  <1>1. Init => Ledger!LedgerInit
    BY DEF Init, InitStore, Ledger!LedgerInit, UsedThisMonth, StoredCap, Asked, AskedOf,
           NoCall, Ledger!Idle
  <1>2. Init => GrantInv /\ SoleInv
    BY GrantInit, SoleInit
  <1>3. (GrantInv /\ SoleInv) /\ [Next]_raceVars => (GrantInv /\ SoleInv)'
    BY GrantNext, SoleNext
  <1>4. GrantInv /\ SoleInv /\ [Next]_raceVars => [Ledger!LedgerNext]_(Ledger!ledgerVars)
    BY LedgerStep DEF LedgerStutter, Ledger!ledgerVars
  <1> QED
    BY <1>1, <1>2, <1>3, <1>4, PTL DEF Spec, ImplementsLedger, Ledger!LedgerSpec
==============================================================================
