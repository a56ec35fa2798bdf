------------------------------- MODULE Credits -------------------------------
(***************************************************************************)
(* The credit arithmetic of app/schemas/credits.py: a UserAccount with its *)
(* nested CreditAccount, flattened into one record, and the pure           *)
(* operations on it.  Calendar months YYYY-MM are natural numbers, which   *)
(* order exactly as the strings do.                                        *)
(***************************************************************************)
EXTENDS Integers

CONSTANTS
    Unlimited,                  \* a cap that is None
    Absent,                     \* what reading a blob that does not exist gives
    DefaultMotorLimit,          \* Settings.default_motor_limit
    DefaultSimulationLimit,     \* Settings.default_simulation_limit
    DefaultTokenLimit           \* Settings.default_monthly_token_limit

(***************************************************************************)
(* None is told apart from every number.                                   *)
(***************************************************************************)
ASSUME UnlimitedAssumption == Unlimited \notin Int

ASSUME DefaultsAssumption ==
    /\ DefaultMotorLimit \in Nat
    /\ DefaultSimulationLimit \in Nat
    /\ DefaultTokenLimit \in Nat

Roles == {"admin", "member"}

Caps == Nat \cup {Unlimited}

Account == [motor_limit         : Caps,
            simulation_limit    : Caps,
            monthly_token_limit : Caps,
            tokens_used         : Nat,
            usage_period        : Nat]

(***************************************************************************)
(* A missing account blob is told apart from every account.                *)
(***************************************************************************)
ASSUME AbsentAssumption == Absent \notin Account

FlooredAtZero(n) == IF n < 0 THEN 0 ELSE n

\* CreditAccount.tokens_remaining
TokensRemaining(account) ==
    IF account.monthly_token_limit = Unlimited
    THEN Unlimited
    ELSE FlooredAtZero(account.monthly_token_limit - account.tokens_used)

\* can_afford without its subtraction: compares with the cap instead of with
\* what is left of it
CanAffordIgnoringUsage(account, tokens) ==
    \/ account.monthly_token_limit = Unlimited
    \/ account.monthly_token_limit >= tokens

CanAfford(account, tokens) ==
    \/ account.monthly_token_limit = Unlimited
    \/ FlooredAtZero(account.monthly_token_limit - account.tokens_used) >= tokens

\* a stale check that also fires for the month itself
StaleOrCurrent(account, now) == account.usage_period <= now

IsPeriodStale(account, now) == account.usage_period < now

\* AccountRepository._defaults with CreditAccount.fresh
Defaults(role, now) ==
    [motor_limit         |-> IF role = "admin" THEN Unlimited ELSE DefaultMotorLimit,
     simulation_limit    |-> IF role = "admin" THEN Unlimited ELSE DefaultSimulationLimit,
     monthly_token_limit |-> IF role = "admin" THEN Unlimited ELSE DefaultTokenLimit,
     tokens_used         |-> 0,
     usage_period        |-> now]

\* the roll that moves the period and forgets the counter
RolledKeepingUsage(account, now) == [account EXCEPT !.usage_period = now]

\* get_or_create: a new month starts from zero
Rolled(account, now) ==
    [account EXCEPT !.tokens_used = 0, !.usage_period = now]

Debited(account, tokens) == [account EXCEPT !.tokens_used = @ + tokens]

\* a refund without the floor
CreditedUnfloored(account, tokens) == [account EXCEPT !.tokens_used = @ - tokens]

Credited(account, tokens) ==
    [account EXCEPT !.tokens_used = FlooredAtZero(@ - tokens)]

\* reset_to_role_defaults: the caps only
WithRoleCaps(account, role) ==
    [account EXCEPT
        !.motor_limit         = Defaults(role, 0).motor_limit,
        !.simulation_limit    = Defaults(role, 0).simulation_limit,
        !.monthly_token_limit = Defaults(role, 0).monthly_token_limit]

\* update_limits: an administrator's override of the caps it names
WithCaps(account, updates) ==
    [account EXCEPT
        !.motor_limit =
            IF "motor_limit" \in DOMAIN updates THEN updates.motor_limit ELSE @,
        !.simulation_limit =
            IF "simulation_limit" \in DOMAIN updates THEN updates.simulation_limit ELSE @,
        !.monthly_token_limit =
            IF "monthly_token_limit" \in DOMAIN updates THEN updates.monthly_token_limit ELSE @]

\* usage never exceeds a finite cap
WithinLimit(account) ==
    account.monthly_token_limit # Unlimited =>
        account.tokens_used <= account.monthly_token_limit
==============================================================================
