---------------------------- MODULE AccountRaces ----------------------------
(***************************************************************************)
(* AccountStore under concurrent callers, with the history the module      *)
(* docstring of app/repositories/account.py argues about: how many tokens  *)
(* debits were granted in each month, whatever later writes made of the    *)
(* stored counter.                                                         *)
(***************************************************************************)
EXTENDS AccountStore

CONSTANT MaxCalls   \* bound: how many repository calls are made in all

VARIABLES
    granted,        \* history: granted[p], tokens debited against month p
    calls           \* history: the calls begun, for MaxCalls

raceVars == <<account, month, call, granted, calls>>

Init ==
    /\ InitStore
    /\ granted = [p \in 1 .. LastPeriod |-> 0]
    /\ calls = 0

BeginCall(c, op) ==
    /\ calls < MaxCalls
    /\ Begin(c, op)
    /\ calls' = calls + 1
    /\ UNCHANGED granted

\* a debit that is saved has been granted in the month its document is for
WriteCall(c) ==
    /\ Write(c)
    /\ granted' =
          IF call[c].op.name = "debit"
          THEN [granted EXCEPT ![call[c].doc.usage_period] = @ + call[c].op.tokens]
          ELSE granted
    /\ UNCHANGED calls

OtherStep(c) ==
    /\ Read(c) \/ Seed(c) \/ List(c) \/ Erase(c) \/ Raise(c) \/ End(c)
    /\ UNCHANGED <<granted, calls>>

NextMonth == Tick /\ UNCHANGED <<granted, calls>>

\* every bound is reached and every caller has its answer
AtBounds ==
    /\ calls = MaxCalls
    /\ month = LastPeriod
    /\ \A c \in Clients : call[c] = NoCall
    /\ UNCHANGED raceVars

Next ==
    \/ \E c \in Clients :
          \/ \E op \in Operations : BeginCall(c, op)
          \/ WriteCall(c)
          \/ OtherStep(c)
    \/ NextMonth
    \/ AtBounds

Spec == Init /\ [][Next]_raceVars
-----------------------------------------------------------------------------
RaceTypeOK ==
    /\ TypeOK
    /\ granted \in [1 .. LastPeriod -> Nat]
    /\ calls \in Nat

(***************************************************************************)
(* The stored counter never claims more than was granted: however the      *)
(* read-modify-writes of account.py interleave, whatever deletes and month *)
(* rolls come between, the tokens a stored account counts as used in its   *)
(* month were all debited in that month (lost writes only ever forgive).   *)
(***************************************************************************)
NeverOverstated ==
    account # Absent => account.tokens_used <= granted[account.usage_period]

(***************************************************************************)
(* Races do not break the cap that is stored: as long as nobody lowers the *)
(* cap itself, no interleaving of reads and whole-document writes leaves   *)
(* an account.json whose usage exceeds its own limit.                      *)
(***************************************************************************)
StoredWithinLimit == account # Absent => WithinLimit(account)

\* the account as of this month, whether or not anybody has rolled it yet
UsedThisMonth ==
    IF account = Absent \/ account.usage_period < month
    THEN 0
    ELSE account.tokens_used

\* what the mapping gives as the cap of no account is the cap of none
ASSUME AbsentIsNoCap == Absent \notin Caps

StoredCap == IF account = Absent THEN Absent ELSE account.monthly_token_limit

Answered(stage) ==
    CASE stage = "returned" -> "done"
      [] stage = "rejected" -> "rejected"
      [] stage = "raised"   -> "failed"
      [] OTHER -> "pending"

\* the document the call is about to save is one of a month that has ended
Overtaken(k, now) == k.at \in {"seed", "write"} /\ k.doc.usage_period < now

AskedOf(k, now) ==
    IF k.at = "idle"
    THEN [at |-> "idle"]
    ELSE [at |-> Answered(k.at), op |-> k.op, late |-> Overtaken(k, now)]

Asked == [c \in Clients |-> AskedOf(call[c], month)]

Ledger == INSTANCE AtomicLedger WITH
    Callers    <- Clients,
    DefaultCap <- DefaultTokenLimit,
    NoCap      <- Unlimited,
    NoAccount  <- Absent,
    used       <- UsedThisMonth,
    cap        <- StoredCap,
    today      <- month,
    asked      <- Asked

(***************************************************************************)
(* With one caller at a time, account.py is an atomic ledger: a call that  *)
(* is answered has taken effect exactly once, at one of its saves; one     *)
(* that is rejected has not taken effect, and one that fails or dies has   *)
(* taken effect at most once and never by half.  Seeding and rolling the   *)
(* document are invisible, and the month's usage restarts when the clock   *)
(* enters a month and at no other time.  A call that read the account in a *)
(* month and saves it in the next is an entry of the month it read.        *)
(***************************************************************************)
ImplementsLedger == Ledger!LedgerSpec
==============================================================================
