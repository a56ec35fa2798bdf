# A formal model of machwave-api

machwave-api runs internal-ballistics simulations of rocket motors for signed-in
users and charges them *tokens* for it. It has no database: every record is a JSON
blob in a Cloud Storage bucket, every change is read-modify-write of a whole blob,
and nothing is transactional. An API (FastAPI, asyncio) and a pool of workers
(Cloud Run, fed by a Pub/Sub push subscription) share those blobs. Everything that
can go wrong in this program goes wrong *between* two awaits, so the models take
every `await` on the blob store, on Pub/Sub or on a repository as a step.

Paths below are relative to the repository's root.

## 1. Inventory

| Component | State | Operations | Talks to |
|---|---|---|---|
| User account (`app/repositories/account.py`, `app/schemas/credits.py`) | `users/{uid}/account.json`: three caps, `tokens_used`, `usage_period` | `get_or_create` (seeds, rolls the month), `debit`, `credit`, `update_limits`, `reset_to_role_defaults` | called by simulation, motor, usage and user routers and by the workers |
| Simulation requests (`app/routers/simulations.py`) | none of their own | submit, retry, delete, estimate, rerun-all, clear-all, reads | account, simulation blobs, Pub/Sub |
| Simulation blobs (`app/repositories/simulation.py`, `cost.py`) | `config.json`, `status.json` (a trail of events), `cost.json`, `results.json` per simulation | whole-blob saves, `append_status_event`, listing, prefix delete | written by API and workers |
| Dispatch (`app/worker/dispatch.py`, `server.py`) | the topic and its push subscription | publish, push, ack, redelivery | API to workers |
| Worker (`app/worker/run.py`) | local variables of `run` | the seven steps of a run, reconciliation, `fail` | account, simulation blobs |
| Teams (`app/routers/teams.py`, `app/repositories/team.py`) | team, account, members, invites under `teams/{tid}/`; pointers under `users/{uid}/teams/`; the invite index `invites/{token}.json` | create, update, delete; change role, remove; invite, revoke, accept; views and limits of the pool | account of the team, users' pointers |
| Team simulations (`app/routers/team_simulations.py`, `app/repositories/team_resources.py`, `app/auth/teams.py`) | as for users, under `teams/{tid}/` | as for users, charged to the team's pool, behind a check of the caller's role | worker, team account, the hard delete of the team |
| Motor catalogue (`app/routers/motors.py`, `app/repositories/motor.py`) | one blob per motor under `users/{uid}/motors/` | create with a quota check, update, delete, an administrator's clear-all | account, the wipe of the user |
| Team motors (`app/routers/team_motors.py`) | as for users, under `teams/{tid}/` | create, update, delete | team account |
| User administration (`app/routers/users.py`, `app/routers/usage.py`, `app/auth/rbac.py`) | a user's role, three times: the Firebase claim, the ID tokens issued with it, the caps in `account.json`; the disabled flag | set role, disable, delete, clear; look up and override caps | Firebase, account, prefix deletes |
| Estimator, schemas, auth, assembly | none | pure functions, token verification, routing | |

What is hard in it, and what would make each part correct:

* **Account.** Two callers that overlap lose writes. The module docstring accepts
  that usage may be *under*-recorded; it must never be over-recorded, the stored
  counter must never pass its own cap, and a single caller must see an exact ledger
  however calls fail half way.
* **Requests and blobs.** The check for an active simulation and the writes it
  allows are six awaits apart; a submission may be cut off between the debit, the
  three saves and the publish; deletes remove blob after blob while a worker writes.
* **Worker.** Delivery is at-least-once, so a run may be repeated, overlap with its
  own second delivery, or be delivered after the simulation was deleted. Billing is
  best-effort by design (`run.py:193`), the status is not.
* **Clock.** The first of a month may fall between any two steps; charges name a
  month, the counter belongs to one.
* **Teams.** Memberships and invites are two blobs each; owner counts, membership
  caps and invite checks are read before the write they guard. A role is read once,
  before a route of the team starts; the team may be gone when it goes on, and nothing
  stops a worker that has a run of the team.
* **Motors.** The quota is a listing followed by a save, and an update writes back
  what it read, whether or not it is still there.
* **Roles.** A request is authorised by its token, which neither a new claim nor
  deleting the user takes back. Claim and caps are changed one after the other, storage
  and Firebase user are deleted one after the other, and the second half may not come.

`PROJECT.json` lists the hazards line by line with the properties aimed at them.

## 2. Modules

```
Credits ── AccountStore ─┬─ AccountRaces (refines AtomicLedger) ── MCAccountRaces
                         │
                         ├─ SimulationStore ─┬─ SimulationApi ────┐
                         │                   └─ SimulationWorker ─┴─ SimulationLifecycle ─┬─ MCSimulations
                         │                                                                └─ TeamSimulations ── MCTeamSimulations
                         └─ MotorCatalogue ── UserAdministration ── MCUsers
TeamStore ── TeamMembership ── MCTeams

AccountStoreProofs ─┬─ AccountRacesProofs                               (AccountRaces)
                    ├─ MotorCatalogueProofs ── UserAdministrationProofs (MotorCatalogue, UserAdministration)
                    └─ SimulationLifecycleProofs ── SimulationResultsProofs ── TeamSimulationsProofs
                                                              (SimulationLifecycle, TeamSimulations)
TeamMembershipProofs                                                    (TeamMembership)
```

**Credits** — the arithmetic of `CreditAccount` and `UserAccount` as operators on a
record. Months are naturals (they order as the `YYYY-MM` strings do), `None` is the
constant `Unlimited`.

**AccountStore** — one `account.json` and its concurrent callers. `call[c]` is the
repository call a caller is making and the document it holds in memory:
`read → (seed) → write`, where `seed` is the save inside `get_or_create`. `Write`
writes the whole document back, whatever the blob holds by then; that is the lost
update of the code. `List`/`Erase` are the two halves of a prefix delete, `Raise` is
a storage failure, `End` lets a caller collect its result or die.

**AtomicLedger** — what the account promises a single caller: a cap, a counter, a
clock, and calls (`asked[c]`) that are asked, take effect at one moment and are answered.
`Charge`, `TurnDown`, `Refund`, `Recap` and `Close` are the effects; each needs the pending
call it belongs to and answers it, so that no call counts twice. The counter restarts in
`NewMonth` only, which is a step of the clock. It has no blob, no document, no seeding.

**AccountRaces** — AccountStore with the history of what was granted per month, the
invariants, and the refinement mapping to AtomicLedger: `asked` comes from the caller's
stage (`Answered`), the ledger's clock is the clock. A call that has read the account in
one month and saves it in the next (`Overtaken`) is an entry of the month it read.

**SimulationStore** — the four blobs of every simulation, the listing, the order of
a prefix delete, the topic (`queue[s]`, a multiset of messages), and `retired`, the
net charges of cost records that were overwritten or deleted (history).

**SimulationApi** — one action per await of each request; `req[r]` keeps what the
coroutine has read. Requests call the account through AccountStore's `Invoke` and go
on when `call[r]` has returned. `Abort` cuts a request off anywhere: the instance
dies, storage or Pub/Sub raises, the client goes away.

**SimulationWorker** — `run()` step by step, with `fail()` as a shared tail.
`Crash` is a push that is not acknowledged (500 or a dead instance: the message
returns), `Redeliver` an ack deadline that passes while the worker goes on,
`StorageRaises` a failure in each place where `run()` catches it.

**SimulationLifecycle** — API, workers, account and clock together, the fairness,
and the properties.

**TeamSimulations** — the same API, workers and account, read as one team's
simulations and its token pool, which is what `team_simulations.py` and
`team_resources.py` are ("line-for-line"). `Enter` is the read of the caller's
membership; `pass[r]` is the route whose check a request has passed, and it goes on
whatever happens to the membership or the team. `delete_team` removes the team's
prefix in listing order: `DissolveList` lists it, then account, members and the blobs
of simulations go one call each. `resting`/`gone` (history) are the simulations nobody
was handling when a dissolution listed the blobs; `condemned` those a delete has named.

**TeamStore**, **TeamMembership** — the team blobs with both copies of each
membership and invite, and every state-changing request of `app/routers/teams.py`
in the same style, with `ClearAccount`, the part of a user's prefix delete that takes
the pointers under `users/{uid}/teams/` and leaves the memberships. `lost` (history)
collects the memberships that stand without their pointer: a request died before it
wrote it, a clear took it, or the second delete of a removal did, from a member who
had joined again.

**MotorCatalogue** — the motors of one user beside the account whose `motor_limit`
they obey: create (account, listing, save), update, delete, clear-all, and the wipe
that takes `account.json` along. `lastQuota` (history) is the limit of the last
admission.

**UserAdministration** — MotorCatalogue with the people who act on it. `claim[u]` is
what Firebase says, `outlived[u]` the roles on tokens that are older than the last
change of `u`, `task[r]` what a request is for and for whom. Requests start with any
role of a token that is still good; `SetClaims` and `DeleteUser` are the calls to
Firebase, the account calls and the wipe are MotorCatalogue's steps. `Submit` and `Charge` are what
simulations do to the same account: the look and the debit of a submission or retry, a
worker's overage or refund. Their `debit` and `credit` seed a missing account with a
member's caps whoever it belongs to (`SeedsAsMember`). `faithful` and
`disturbed` (history) record what the promises of the module depend on.

A definition directly before the one it resembles, and named for a mistake
(`RolledKeepingUsage`, `CheckAnyOwner`, ...), is a plausible bug in that definition;
no specification uses it. Substituting it breaks the property `PROJECT.json` lists
it under, which is the evidence that the property depends on that code.

### Abstractions

* A listing (`list_summaries`, `count_owners`, `list_for_user`) is one step, although
  the code reads the blobs it lists one by one. The check-then-act races survive this;
  a listing torn within itself is not shown.
* `get_or_create` reads the blob and then the clock; both are one step.
* Reads whose result is only returned to the client are left out, unless they may seed
  or roll an account (`view`). `ResultsAnswer` is the exception: it is the answer of
  `GET /results` had its three reads happened at once.
* A configuration is the estimate it gives; an estimate and an actual are any member
  of `Estimates` and `Actuals`, the account refuses or accepts them.
* The user's motor is read before a submission starts and is embedded in the job, so
  it does not appear.
* The pool of a team is present or absent; its amounts are those of a user account,
  which AccountStore models (`TeamAccountRepository` mirrors `AccountRepository`).
* In TeamSimulations a membership only disappears with its team; promotions, demotions,
  removals and their overlaps are TeamMembership's. A view
  of the team's usage is a view of any kind. The other blobs of the team (motors,
  invites, `team.json`) go in the same cascade and are not looked at.
* UserAdministration stores the blobs of one user, `Subject`; of the others it has the
  claim and the tokens, because they act on the subject. A motor is its id; a wipe
  takes account and motors (simulations and pointers are SimulationApi's and
  TeamMembership's part of the same prefix). A token's signature is Firebase's matter.
* Tokens expire at any moment (`ExpireToken`): an hour is not measured.

## 3. Runs

| Run | Question | Bounds | Result |
|---|---|---|---|
| `account_concurrent` | Do races overstate usage or break the cap that is stored? | 2 callers, 4 calls of 8 kinds, cap 2, 2 months | holds |
| `account_serial` | Is account.py an atomic ledger for one caller, each call counting once? | 4 calls of 12 kinds, failures and deaths anywhere, 2 months | refines AtomicLedger |
| `serial` | Do the credit system's promises hold for a user who waits? | 4 requests, 2 simulations, 2 months, runs under and over the estimate, a cap that an overage may exceed, 1 request cut off | holds |
| `deletions` | Can a delete, rerun or account wipe leave a done run without results? | 2 requests at once of 3, 1 worker, 1 early redelivery | holds |
| `settles` | Does a run settle that is submitted, then retried or rerun? | 2 requests about 1 simulation, 2 workers, 1 crash and the redelivery after it | holds under fairness |
| `team_simulations` | What is left of a team's runs by cut-off requests, storage failures and the delete of the team? | 2 requests at once of 3, 1 simulation, 1 member, 1 worker, 1 request cut off, 1 storage failure, 2 months | holds |
| `users` | Do caps, claim, motors and deletion stay together, beside submissions and workers? | 2 requests at once of 3, each of which may be cut off, 2 users, 3 motors, quota 1, charges and refunds of 1 token, 2 months | holds |
| `teams_serial` | Do the team operations keep owners, pointers and deletes straight? | 6 serial requests of 10 kinds, 2 teams, 2 users and an administrator | holds |
| `teams_joining` | How far do races, deaths and clears overrun the membership cap and single-use invites? | 2 requests at once of 5 of 5 kinds, 4 users, 3 teams, cap 1, 1 invite, 1 death | bounded |
| `two_submissions` | One active simulation with two submissions at once? | 2 requests | **violated** |
| `failed_at_month_end` | Do failed runs cost nothing at the end of a month? | 1 request, 2 months | **violated** |
| `teams_cleared` | Does the membership cap survive a clear of the account? | 3 serial requests, 2 teams | **violated** |

Why the bounds are enough. Every property is about one account, one simulation or one
team and the *pair* of actors that disagree over it, so two callers, two requests or
two workers are the smallest instance in which each race exists, and what can be
proved is proved for any number of them (section 4). A worker beside two requests is
such a pair twice over (`deletions`, `team_simulations`). Three motors under a quota of
one are what two creations and an update can bring about together; the administrator
and the subject are the two sides of every role change. A second simulation is needed where
the quota or the retired charges matter, a third request where a retry follows a
retry, a second month for the roll; a third month adds no new relation between
a record's month and the clock. Caps and amounts are chosen so that a debit fits, fits
exactly, leaves a remainder that a partial charge takes, and does not fit at all.
Properties that need a failure not to happen say so themselves
(`aborts = 0` in `LedgerExact`, `faithful`, `disturbed`), so that the failures run
beside them in the same run.
Counters that would grow for ever (`MaxCalls`, `MaxRequests`, `MaxAborts`,
`MaxFaults`, `MaxCrashes`, `MaxRedeliveries`, `LastPeriod`) are bounded in guards.
Symmetry is used over callers, workers, requests, users and teams,
never with a liveness property (`LastAdministratorStands` is an action property, and
treats requests alike). Deadlock is checked in every run: `AtBounds`/`AtRest` are enabled
only when every request, job and message has been dealt with, so a state in which
somebody waits for ever would be reported.

Fairness (`FairSpec`, used by `settles` only). Weak fairness of every request and
worker step and of every account step: the event loop resumes a coroutine whose
storage call has returned and storage answers. Weak fairness of delivery: Pub/Sub
redelivers until acknowledged. Nothing is fair that users or failures decide.

### What the violated runs show

* **Two submissions at once** (`app/routers/simulations.py:103-123`). Both list before
  either has saved its status, both are charged and dispatched, although the 409 says
  "A simulation is already ...; wait for it to finish" and retry is "Blocked while any
  other simulation is active".
* **A failure at the end of a month** (`app/routers/simulations.py:99`,
  `app/worker/run.py:123`). `period` is taken before the account is debited; if the
  month ends in between, the debit counts in the new month, the record names the old
  one, and `fail()` does not refund it: "failed runs cost nothing" does not hold.
* **A clear between two teams** (`app/routers/users.py:210`). The prefix delete takes
  the pointers that the membership cap counts (`teams.py:77`), not the memberships that
  authorisation reads: one request after the other brings a member over "Maximum number
  of teams a non-admin user can belong to" (`config.py:40`).

### Other divergences met while modelling

* README.md:84 says that a run cheaper than its estimate is refunded the difference;
  `run.py:202-204` says and does the opposite ("The estimate is the floor").
* README.md:86 says that deleting a simulation refunds its charge;
  `simulations.py:410` "Does **not** refund" is what the code does.
* `app/schemas/simulation.py:86` calls the status an append-only trail. It is one for
  serial users (`TrailTellsLifecycle`); an append of the API that overlaps one of a
  worker loses an event.
* `delete_team` sweeps the pointers of the members it listed first; whoever accepts an
  invite in between keeps a pointer, or a membership, of a team that is gone. It also
  leaves `invites/{token}.json` behind, which no longer resolves.
* `admin_update_team_limits` does not ask whether the team exists and creates the
  account of one that does not; this is why `DeletedTeamsLeaveNothing` leaves
  `account.json` out.
* `debit` and `credit` pass no role: when an administrator's account is wiped between
  a request's `get_or_create` and its `debit`, or before a worker's overage or refund,
  it comes back with a member's caps.
* Two owners who leave at once (`teams.py:308-314`) each count two, and the team is left
  without one: "Last-owner removal is blocked unconditionally" (`teams.py:289`) holds for
  one request at a time. An owner who deletes the account can be a team's only owner;
  the membership stays and nobody can act on it.
* "Hard delete: cascades the entire ``teams/{tid}/`` prefix" (`teams.py:222`): a worker
  that has a run of the team writes status, results and cost back afterwards, and its
  `debit` or `credit` recreates the pool; a member's request that had passed its check
  does the same. `DissolvedTeamsKeepNoRestingRuns` says what is certain to be gone.
* `update_motor` (`motors.py:119`) saves what it read: a motor that was deleted in
  between, or its user with it, is back. This is one unit of `MotorOverrunIsBounded`,
  and the reason why `DeletedUsersKeepNoMotors` excuses what runs beside a deletion.
* "So storage stays consistent with the claim" (`users.py:116`): a role change that is
  cut off between its two calls leaves the old caps, and two that cross may leave the
  claim of one with the caps of the other. A token that is older than the change seeds a
  missing account with its old role's caps, and a lookup that fails (`_target_role`)
  with a member's. `CapsFollowClaim` holds from one complete change until the next begins
  or an override does, a token or lookup says another role, or a debit or credit seeds as
  above.
* `GET /admin/users/{uid}/account` seeds an account for a user who has been deleted, and
  tokens of a deleted user go on to work, and to store, until they expire.
* A submission that is cut off between its saves and its publish stays pending, blocks
  its owner, and cannot be retried, being not terminal: `EveryRunSettles` needs
  `MaxAborts = 0`. `OnlyCutOffSubmissionsStrand` shows that nothing else does this, and
  that each cut-off request does it to one run at most.
* A worker that dies between a refund and the save of `refunded` refunds again on the
  next delivery: `LedgerExact` needs `MaxCrashes = 0`.
* When the storage refuses that save, tokens are refunded that the cost record goes on
  claiming; when it refuses the read of the record, a failed run stays charged. With
  `MaxFaults = 1` in `MCSerial.cfg` TLC shows the first for `LedgerExact` and
  `ThisMonthsChargesCounted`, the second for `FailedRunsRefundedInTime`.

## 4. Proofs

What is proved holds for any number of callers, requests, motors, simulations and
users, any caps and any bounds. The assumptions are those the modules declare:
defaults are naturals, `Unlimited` is no number, `Absent` is no account, no cap, no role
and no motor, the months are a natural number of them, `Operations` are operations of the
account; requests may be infinite in number except where they are counted
(`MotorRequestsAreFinite`, `RequestsAreFinite`), and so may simulations except where their
charges are added up (`IsFiniteSet(SimIds)`).

`AccountStoreProofs` has the lemmas about the operations of `credits.py`
(`DefaultsType`, `RolledType`, `AppliedType`) and about one repository call under
`StoreInv`: types, and that a call that is under way or has returned holds a document.

`AccountRacesProofs`:

* `TypesHold` — `account.json` always validates. In particular a refund cannot make
  the counter negative in any interleaving, which would make every later read of the
  account raise.
* `CounterNeverOverstates` — what the account counts as used in a month was debited in
  that month. This is not inductive: a stale document in some caller's memory may be
  saved at any time. `GrantInv` adds that the documents calls may still save
  (`Pending`) do not overstate either, and that no document is dated beyond the clock,
  without which the first of a month could be "rolled" twice.
* `RacesNeverOverdraw` — if no operation lowers the token cap (`CapsStand`), the
  stored counter never exceeds the stored cap, although writes are lost. `LimitInv`
  carries the bound on every document in memory, and the affordability that `debit`
  established from the very document it is about to save. `CapsStand` is necessary:
  `update_limits` may put a cap below what is used.
* `OneCallerSeesALedger` — for a caller that is alone (`OneCaller`), `account.py` step by
  step implements the atomic ledger: the write of an operation is the effect of the call
  that is pending, which it answers, so that an answered call counts exactly once; the
  seed of a missing account opens it; a storage failure or a death answers or ends the call
  without an effect of its own; the month's usage restarts when the clock enters a month
  and in no other step. The save of a rolled document is a stutter. A call that has read in
  one month and saves in the next changes nothing of the new month (`late`). `SoleInv` says what the caller's memory has to do with the blob
  meanwhile: what is about to be seeded is a counter at zero of a month that the blob has
  not reached, and what an operation is about to change is the blob as it is.

`MotorCatalogueProofs`:

* `MotorOverrunBounded` — the catalogue stays below the last admitting limit plus the
  requests in flight. The number of motors alone is not inductive, since a save may
  bring back what a delete has removed. `MotorInv` bounds `Reachable`, the motors that
  exist together with those that some request will still save: a save leaves it as it
  is, a delete or an update does not enlarge it, and an admission resets it, because
  below the limit each other request adds one motor at most (`ImageIsBounded`).

`UserAdministrationProofs`:

* `UserTypesHold` and `UsersKeepMotorBound` — every step of UserAdministration is a step
  of MotorCatalogue or leaves it alone (`StepRefines`, `SpecRefines`), so that its types
  and its bound hold there too. `TasksOK` says what a request in the middle of a task
  looks like.
* `DeletionLeavesNoMotors` — a user that Firebase no longer has left no motor, unless
  something ran beside the deletion. `Swept` follows one deletion: what is not yet
  deleted is in its list, whatever was cut off before.
* `LastAdministratorIsSafe` — an action property: the step that leaves no administrator
  is the only administrator's own deletion, or is taken for somebody whose token is out
  of date. It needs that an administrator's task about somebody else has its aim fixed when
  it is accepted (`EndpointsHold`).
* `CapsKeepToTheClaim` — the stored caps are those of the claim after a role change, or a
  clear, that had the account to itself, until another role change, an override, a role
  that is not the claim's, or a debit or credit that finds no account and seeds a member's
  for another role. Submissions, a worker's charges, rolls and wipes otherwise keep it. Not inductive: a `get_or_create` in flight may seed or roll
  afterwards. `FaithInv` has it that the documents of every request in flight are in line
  with the claim too (`InLine`), and follows the change, or the clear, that is alone.

`SimulationLifecycleProofs`:

* `LifecycleTypesHold` — every blob, message count, request and worker stays
  well-formed under all of SimulationLifecycle, storage failures, crashes and cut-off
  requests included. The types are not inductive. `SimInv` adds what a request or a
  worker must remember at each stage: a submission that debits knows its simulation and
  its price, a worker past its cost record holds that record, and a debit that was
  rejected could not be afforded by the document it read, without which the partial
  overage charge could be unlimited instead of a number.

`SimulationResultsProofs`:

* `DoneRunsHaveResults` — `/results` answers 404 for no simulation that is listed as
  done. Two facts carry it. `Ordered`: whatever a prefix delete still has to do, it does
  not take `results.json` while `config.json` is there to stay. `FreshInv`: an id for
  which nothing has been stored is known to nobody but the one submission it was
  issued to, so a `config.json` that was deleted never comes back under results that are
  gone. `Concluding` follows a worker from `save_results` to the status `done`. Nothing
  needs to be assumed of the queue, the number of deliveries, or the bounds.
* `OneActiveAtATime`, `DoneRunsStayPaid`, `TrailsTellLifecycles` — what the credit system
  and the status trail promise a user who waits for every answer, for any number of
  workers, simulations and months, and with submissions cut off anywhere. The hypothesis
  `OneAtATime` is what the first violated run and the trail's divergence call for: one
  request at a time, which submits, retries or looks, and messages delivered once. Storage
  may fail the workers, except in the third theorem, where a failed read of the
  configuration would take a run from pending straight to failed. The three hold together or not at all, so there is one invariant,
  `SerialInv`: at most one simulation is active and it has either a request that will
  publish it, or one message, or one busy worker (`Alone`, `Waits`); the worker's cost
  record pays as long as the run may still be done (`JobFits`); what a request has
  checked still holds when it writes (`RequestFits`); and the trail is `Orderly`.
* `AccountsAreExact`, `MonthsKeepTheirCharges`, `FailedRunsAreRefunded` — the same user's
  books (`LedgerExact`, `ThisMonthsChargesCounted`, `FailedRunsRefundedInTime`), for any
  finite number of simulations, any months and any estimates and actual costs, where the
  storage answers the workers. Each of them needs that (section 3). Counter and records agree only when everything has
  settled, so the inductive invariant `LedgerInv` compares every document that is the
  account *or that a repository call still holds and may save* with the records of its
  month and with what its callers owe, in the sense of tokens debited and not yet in
  a record, or refunded and still in one (`Owes`; at most one caller owes anything,
  `RequestAlone`, `WorkerAlone`). What is left, `Slack`, is never negative, and in the first
  month, as long as no submission was cut off, it is exactly `retired` (`InOrder`). Around it:
  a document is only seeded for a month that no record belongs to yet (`CallFits`), a charge is
  booked to the month it was asked for in or a later one (`PeriodFits`), a worker's
  copy of the cost record is the stored one but for the charge it is about to save, and
  a refund takes the latest month's record (`RecordFits`), without which the credit could
  hit the floor at zero and the month keep too little. TLC found `LedgerInv` to hold on the
  instance of `MCSerial` and on one with three months before it was proved.

  The sums are the community modules' `MapThenSumSet`, a recursive function on subsets. What the
  proofs need of it (`TotalType`, `TotalAtLeast`, `TotalsDiffer`, `TotalOfNothing`) would
  be inductions over the set; they are proved from well-foundedness instead, which the
  library states without an operator parameter: a claim that fails, fails for some smallest
  number of elements (`Counting`).

`TeamSimulationsProofs`:

* `TeamRunsAreComplete` — no team run reaches a worker without configuration, status and
  cost record, unless it or its team is being deleted. The types of SimulationLifecycle
  hold for the steps of a dissolution too (`TeamKeepsTypes`). `DispatchInv` says which
  blobs a submission or retry has already stored at each of its stages, and that
  whatever a delete, a wipe or a dissolution has on its list is `condemned`.
* `OnlyCutOffRunsStrand` — the active runs that nobody will move on are no more than the
  requests that were cut off, with any number of members, workers, crashes and duplicate
  deliveries. That somebody is at work on a run is not inductive, because a worker that
  has only its answer left, or a request that will be turned down, moves nothing on.
  `StrandInv` counts the `Loose` runs: active, or missing their configuration, with no
  message, no worker that owes a status, and no request that has nothing but storing and
  publishing before it. No step but a cut-off adds to them, and a cut-off adds one.
* `DissolutionsSweepRestingRuns` — when `delete_team` has run to its end, nothing is left
  of the simulations that nobody was handling at its listing and that no member has
  retried or deleted since; a retry stores blobs again and is not swept. `RestInv` follows them: none of
  their blobs is missing from the listing (`Swept`), nobody has a message, a job or a
  request about them (`Rests`), and once they are gone no retry can find a status to
  start from, nor a submission be given their id.

`TeamMembershipProofs`:

* `TeamTypesHold` — memberships, pointers, invites and indexes stay well-formed.
* `CapOverrunBounded` — nobody is a member, by `members/{uid}.json`, of more teams than the
  cap, plus one for each further request in flight, plus one for each team whose pointer
  the standing membership has lost. All kinds of request take part, and any number of
  deaths. The memberships are not what admission bounds, because the check counts pointers.
  What is inductive is a pair: `Covered`, that each membership has its pointer, or a request
  that is about to write it, or has lost it; and `CapHolds`, that `InReach` without the
  lost ones stays below the cap plus the requests. `InReach` are the teams of the user's
  pointers together with those that creations, acceptances and role changes in flight
  will still add. The last term is needed: without it the run `teams_joining`
  fails.
* `InviteUseBounded` — an invite admits at most as many users as requests can be in
  flight, and one more for each that died. `UseHolds` counts the memberships an invite
  has granted together with the requests that found it usable (`Pendings`); as long as it
  is open, every grant belongs to a request about to mark it used (`Markings`) or to one
  that died; and nothing is known of a token before its invite is stored, so that a
  used invite is not overwritten by a fresh one.
* `TeamsKeepTheirOwners`, `CopiesMirrorMemberships`, `HardDeletesLeaveNothing` — for one
  request at a time that is never cut off (`OneByOne`; the divergences above break each of
  them without it): a team that exists has an owner, `members/{uid}.json` and
  `users/{uid}/teams/{tid}.json` agree but for what a clear took, and a hard delete leaves
  neither members, pointers nor usable invites. None is inductive, since a request is
  between two writes most of the time. `SerialInv` says for every stage which team is being
  formed or deleted and which membership has one of its blobs only (`Owned`, `Mirrors`,
  `Gone`), and what the request found at its checks that its writes rely on (`Serves`).

Only model-checked: liveness, and with it `ENABLED`, are out of the provers' reach and stay
with TLC (`EveryRunSettles`). Every invariant and every action property that a passing run
checks is stated by a theorem.

## 5. Not modelled, and what is left

Not modelled:

* Team motors: the steps of MotorCatalogue over another prefix and another account, behind
  the role check of TeamSimulations. Its bound is proved for any limits and requests, so
  a second instance would show nothing new.
* The estimator's and machwave's physics: floating point; any positive number stands for
  them.
* JSON, schemas and geometry validation, `propellants.py`, token verification, routing,
  CORS and logging: no state that changes.
* An administrator's override of a team's caps, apart from the account it creates: the
  effect of changed caps on the counter is AccountRaces'.
* Reads and listings that only answer the client.

Left to do:

* the listing of a prefix blob by blob, where a quota check reads a simulation that is
  half deleted.
