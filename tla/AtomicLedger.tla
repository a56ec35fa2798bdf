---------------------------- MODULE AtomicLedger ----------------------------
(***************************************************************************)
(* What app/repositories/account.py promises one caller at a time: a cap   *)
(* and the tokens used this month, changed by calls that take effect at    *)
(* one moment between being asked and being answered.  It has no blob, no  *)
(* document in memory and no seeding: a debit fits under the cap and       *)
(* counts in full, or is rejected and changes nothing; a refund stops at   *)
(* zero; the counter restarts when the clock enters a month, and only      *)
(* then.  A call that is answered has taken effect exactly once, one that  *)
(* failed or whose caller left may have been cut short before.             *)
(*                                                                         *)
(*   idle --Ask--> pending --its effect--> done, rejected --Leave--> idle  *)
(*                         --Fail--> failed ----------------Leave--> idle  *)
(***************************************************************************)
EXTENDS Integers

CONSTANTS
    Callers,
    Operations,     \* the calls, named and parameterised as in AccountStore
    DefaultCap,     \* the cap of a member
    NoCap,          \* the cap of an unlimited account
    NoAccount       \* the cap of an account that does not exist

VARIABLES
    used,           \* tokens used in the month of the clock
    cap,
    today,          \* the month of the clock
    asked           \* asked[c]: the call that c is making and how it stands

ledgerVars == <<used, cap, today, asked>>

Idle == [at |-> "idle"]

RoleCap(role) == IF role = "admin" THEN NoCap ELSE DefaultCap

\* the cap an account gets from the call that finds none
OpeningCap(op) ==
    IF op.name \in {"get_or_create", "reset_to_role_defaults"}
    THEN RoleCap(op.role)
    ELSE DefaultCap

\* the cap an override or a change of role leaves
CapAfter(op) ==
    CASE op.name = "reset_to_role_defaults" -> RoleCap(op.role)
      [] op.name = "update_limits" /\ "monthly_token_limit" \in DOMAIN op.updates ->
            op.updates.monthly_token_limit
      [] OTHER -> cap

Fits(tokens, u, k) == tokens = 0 \/ k = NoCap \/ u + tokens <= k

Waits(c, names) == asked[c].at = "pending" /\ asked[c].op.name \in names

Answer(c, outcome) ==
    asked' = [asked EXCEPT ![c] = [at |-> outcome, op |-> asked[c].op, late |-> FALSE]]
-----------------------------------------------------------------------------
Ask(c, op) ==
    /\ asked[c] = Idle
    /\ asked' = [asked EXCEPT ![c] = [at |-> "pending", op |-> op, late |-> FALSE]]
    /\ UNCHANGED <<used, cap, today>>

\* the first call on an account that does not exist opens it; a mere look is
\* answered with that, and so is a debit that the new account cannot carry
Open(c) ==
    /\ Waits(c, {"get_or_create", "debit", "credit", "update_limits", "reset_to_role_defaults"})
    /\ cap = NoAccount
    /\ cap' = OpeningCap(asked[c].op)
    /\ used' = 0
    /\ CASE asked[c].op.name = "get_or_create" -> Answer(c, "done")
         [] /\ asked[c].op.name = "debit"
            /\ ~Fits(asked[c].op.tokens, 0, OpeningCap(asked[c].op)) -> Answer(c, "rejected")
         [] OTHER -> UNCHANGED asked
    /\ UNCHANGED today

Look(c) ==
    /\ Waits(c, {"get_or_create"})
    /\ cap # NoAccount
    /\ Answer(c, "done")
    /\ UNCHANGED <<used, cap, today>>

\* a debit that the end of its month overtakes was checked, and counts, there
Charge(c) ==
    /\ Waits(c, {"debit"})
    /\ cap # NoAccount
    /\ asked[c].late \/ Fits(asked[c].op.tokens, used, cap)
    /\ used' = IF asked[c].late THEN used ELSE used + asked[c].op.tokens
    /\ Answer(c, "done")
    /\ UNCHANGED <<cap, today>>

TurnDown(c) ==
    /\ Waits(c, {"debit"})
    /\ cap # NoAccount
    /\ ~Fits(asked[c].op.tokens, used, cap)
    /\ Answer(c, "rejected")
    /\ UNCHANGED <<used, cap, today>>

Refund(c) ==
    /\ Waits(c, {"credit"})
    /\ cap # NoAccount
    /\ used' = CASE asked[c].late -> used
                 [] asked[c].op.tokens > used -> 0
                 [] OTHER -> used - asked[c].op.tokens
    /\ Answer(c, "done")
    /\ UNCHANGED <<cap, today>>

Recap(c) ==
    /\ Waits(c, {"update_limits", "reset_to_role_defaults"})
    /\ cap # NoAccount
    /\ cap' = CapAfter(asked[c].op)
    /\ Answer(c, "done")
    /\ UNCHANGED <<used, today>>

Close(c) ==
    /\ Waits(c, {"delete_prefix"})
    /\ cap' = NoAccount
    /\ used' = 0
    /\ Answer(c, "done")
    /\ UNCHANGED today

\* storage fails: nothing more happens for this call
Fail(c) ==
    /\ asked[c].at = "pending"
    /\ Answer(c, "failed")
    /\ UNCHANGED <<used, cap, today>>

\* the caller takes its answer, or dies
Leave(c) ==
    /\ asked[c] # Idle
    /\ asked' = [asked EXCEPT ![c] = Idle]
    /\ UNCHANGED <<used, cap, today>>

\* the clock enters a month; some calls under way turn out to be about the
\* month that ended
NewMonth ==
    /\ today' = today + 1
    /\ used' = 0
    /\ \E late \in SUBSET {c \in Callers : asked[c].at = "pending"} :
          asked' = [c \in Callers |->
                       IF c \in late
                       THEN [at |-> "pending", op |-> asked[c].op, late |-> TRUE]
                       ELSE asked[c]]
    /\ UNCHANGED cap

LedgerInit ==
    /\ used = 0
    /\ cap = NoAccount
    /\ today = 1
    /\ asked = [c \in Callers |-> Idle]

CallerNext(c) ==
    \/ \E op \in Operations : Ask(c, op)
    \/ Open(c) \/ Look(c) \/ Charge(c) \/ TurnDown(c) \/ Refund(c) \/ Recap(c) \/ Close(c)
    \/ Fail(c) \/ Leave(c)

LedgerNext == NewMonth \/ \E c \in Callers : CallerNext(c)

LedgerSpec == LedgerInit /\ [][LedgerNext]_ledgerVars
==============================================================================
