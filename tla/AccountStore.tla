---------------------------- MODULE AccountStore ----------------------------
(***************************************************************************)
(* One user's account.json and AccountRepository (app/repositories/        *)
(* account.py) as its callers see it.  Every repository method reads the   *)
(* blob, changes the document in memory and writes it back, and every      *)
(* `await` on the blob store lets any other caller run in between: a call  *)
(* is a record that remembers the document it read.                        *)
(*                                                                         *)
(*   idle --Begin--> read --Read--> [seed --Seed-->] write --Write--> over *)
(*                                                                         *)
(* The detour through "seed" is the save inside get_or_create, taken when  *)
(* the blob is missing or its period is stale.  A call that is over has    *)
(* returned, was rejected (InsufficientBalanceError) or raised (the blob   *)
(* store failed); its caller collects the outcome with End.                *)
(***************************************************************************)
EXTENDS Credits

CONSTANTS
    Clients,        \* the concurrent callers: API requests and workers
    Operations,     \* the calls they make, see Operation
    LastPeriod      \* bound: the last month the clock reaches

VARIABLES
    account,        \* users/{uid}/account.json
    month,          \* datetime.now(UTC) as a month
    call            \* call[c]: the repository call that c is making

storeVars == <<account, month, call>>

(***************************************************************************)
(* The calls: get_or_create, debit, credit, update_limits,                 *)
(* reset_to_role_defaults, and the prefix delete of users/{uid}/ that      *)
(* clear_account, delete_account and admin_delete_user issue.              *)
(***************************************************************************)
GetOrCreate(role)     == [name |-> "get_or_create", role |-> role]
Debit(tokens)         == [name |-> "debit", tokens |-> tokens]
Credit(tokens)        == [name |-> "credit", tokens |-> tokens]
UpdateLimits(updates) == [name |-> "update_limits", updates |-> updates]
ResetToRole(role)     == [name |-> "reset_to_role_defaults", role |-> role]
DeletePrefix          == [name |-> "delete_prefix"]

\* the caps an UpdateLimitsRequest names (admin_update_limits refuses a body
\* that names none; a body that names several is left out)
CapUpdates ==
    [motor_limit : Caps] \cup [simulation_limit : Caps] \cup [monthly_token_limit : Caps]

Operation ==
    [name : {"get_or_create", "reset_to_role_defaults"}, role : Roles]
        \cup [name : {"debit", "credit"}, tokens : Nat]
        \cup [name : {"update_limits"}, updates : CapUpdates]
        \cup [name : {"delete_prefix"}]

ASSUME OperationsAssumption == Operations \subseteq Operation

ASSUME LastPeriodAssumption == LastPeriod \in Nat \ {0}

NoCall == [at |-> "idle", op |-> DeletePrefix, doc |-> Absent]

Stages == {"idle", "read", "seed", "write", "list", "erase",
           "returned", "rejected", "raised"}

Over == {"returned", "rejected", "raised"}

\* the role get_or_create seeds a missing account with: debit, credit and
\* update_limits leave it at its default
SeedRole(op) ==
    IF op.name \in {"get_or_create", "reset_to_role_defaults"}
    THEN op.role
    ELSE "member"

\* what a method does once get_or_create has given it the document
AfterGetUnchecked(op, doc) ==
    IF op.name = "get_or_create" THEN "returned" ELSE "write"

AfterGet(op, doc) ==
    CASE op.name = "get_or_create" -> "returned"
      [] op.name = "debit" /\ ~CanAfford(doc, op.tokens) -> "rejected"
      [] OTHER -> "write"

\* the document a method saves
Applied(op, doc) ==
    CASE op.name = "debit"  -> Debited(doc, op.tokens)
      [] op.name = "credit" -> Credited(doc, op.tokens)
      [] op.name = "update_limits" -> WithCaps(doc, op.updates)
      [] op.name = "reset_to_role_defaults" -> WithRoleCaps(doc, op.role)
      [] OTHER -> doc

\* what exc.remaining tells the caller of a rejected debit
Remaining(c) == TokensRemaining(call[c].doc)
-----------------------------------------------------------------------------
InitStore ==
    /\ account = Absent
    /\ month = 1
    /\ call = [c \in Clients |-> NoCall]

Begun(op) ==
    [at  |-> IF op.name = "delete_prefix" THEN "list" ELSE "read",
     op  |-> op,
     doc |-> Absent]

\* a caller with no call under way, or done with one, makes the next
Invoke(c, op) == call' = [call EXCEPT ![c] = Begun(op)]

Begin(c, op) ==
    /\ call[c] = NoCall
    /\ Invoke(c, op)
    /\ UNCHANGED <<account, month>>

Advance(c, stage, doc) ==
    call' = [call EXCEPT ![c] = [at |-> stage, op |-> call[c].op, doc |-> doc]]

\* get_or_create up to its first write: the clock is read after the blob
Read(c) ==
    /\ call[c].at = "read"
    /\ \/ /\ account = Absent
          /\ Advance(c, "seed", Defaults(SeedRole(call[c].op), month))
       \/ /\ account # Absent
          /\ IsPeriodStale(account, month)
          /\ Advance(c, "seed", Rolled(account, month))
       \/ /\ account # Absent
          /\ ~IsPeriodStale(account, month)
          /\ Advance(c, AfterGet(call[c].op, account), account)
    /\ UNCHANGED <<account, month>>

\* the save of a seeded or rolled document; the method then goes on with it
Seed(c) ==
    /\ call[c].at = "seed"
    /\ account' = call[c].doc
    /\ Advance(c, AfterGet(call[c].op, call[c].doc), call[c].doc)
    /\ UNCHANGED month

\* the save at the end of debit, credit, update_limits and
\* reset_to_role_defaults: it writes the whole document, whatever the blob
\* holds by now
Write(c) ==
    /\ call[c].at = "write"
    /\ account' = Applied(call[c].op, call[c].doc)
    /\ Advance(c, "returned", call[c].doc)
    /\ UNCHANGED month

\* delete_prefix lists first and deletes what it listed
List(c) ==
    /\ call[c].at = "list"
    /\ Advance(c, IF account = Absent THEN "returned" ELSE "erase", Absent)
    /\ UNCHANGED <<account, month>>

\* deleting a blob that another caller has deleted raises NotFound
Erase(c) ==
    /\ call[c].at = "erase"
    /\ account' = Absent
    /\ Advance(c, IF account = Absent THEN "raised" ELSE "returned", Absent)
    /\ UNCHANGED month

\* the blob store refuses the pending access
Raise(c) ==
    /\ call[c].at \in {"read", "seed", "write", "list", "erase"}
    /\ Advance(c, "raised", call[c].doc)
    /\ UNCHANGED <<account, month>>

\* the caller takes the outcome, or dies with the call half done
Forget(c) == call' = [call EXCEPT ![c] = NoCall]

End(c) ==
    /\ call[c].at # "idle"
    /\ Forget(c)
    /\ UNCHANGED <<account, month>>

CallStep(c) == Read(c) \/ Seed(c) \/ Write(c) \/ List(c) \/ Erase(c)

\* the first of a month, UTC
Tick ==
    /\ month < LastPeriod
    /\ month' = month + 1
    /\ UNCHANGED <<account, call>>

-----------------------------------------------------------------------------
(***************************************************************************)
(* Types: a call holds no document before its read, and one from then on.  *)
(***************************************************************************)
CallType ==
    [at : Stages, op : Operation, doc : Account \cup {Absent}]

TypeOK ==
    /\ account \in Account \cup {Absent}
    /\ month \in 1 .. LastPeriod
    /\ call \in [Clients -> CallType]
    /\ \A c \in Clients :
          call[c].at \in {"seed", "write", "rejected"} => call[c].doc \in Account
==============================================================================
