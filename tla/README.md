# Quotejar in TLA+

A verification project for quotejar, a FastAPI service that runs on AWS Lambda
over PostgreSQL (RDS) and keeps its rate-limit counters in DynamoDB. The modules
here model what the code does when requests race, when the store or the database
fails, when Lambda kills an execution, when accounts disappear, and when the
schema, the secrets and the image change under running instances. TLC checks them
on small instances; TLAPS proves every safety property of the passing runs, and the
refinement, for every instance.

    tlc -workers 2 -config MCRateLimiter_check.cfg MCRateLimiter.tla
    tlapm RateLimiterProofs.tla

## The system

| Part | State it keeps | Operations | What makes it correct |
| --- | --- | --- | --- |
| Rate limiter, `app/ratelimit.py` | one DynamoDB item (count, expires_at) per scope, identifier and window | `check`, `peek`, `record`; `increment`, `get`; TTL deletion | a limit is overshot by a known amount only; a refusal is justified; nobody is locked out by being refused; TTL never changes an answer |
| What clients are told, `Decision`, `dependencies.py:178-192` | nothing | `Retry-After`, on a 429 | a refused client gets back in, and soon |
| Children and quotes, `routers/children.py`, `routers/quotes.py` | tables `children`, `quotes` (soft delete) | create, list, get, delete | every change and every row shown belongs to the caller; no orphans; a 201 is durable, a 204 final |
| Accounts, `routers/auth.py`, `security.py`, `get_current_user` | table `users`; tokens held by clients | register, login, me; lookup on every request | one account per address; a token opens one account or none; a refused login looks the same whether or not there is an account |
| Pages of quotes, `list_quotes` | nothing; the client keeps an offset | count, rows, LIMIT/OFFSET | a walk repeats or misses a quote only for a reason that can be counted |
| Seed, `scripts/seed.py` | an account and its two children, in one transaction | `main` | whole or not at all, also when it races |
| Sessions and pool, `app/db.py` | one transaction per request, 1 + 1 connections per instance | commit, rollback on close; checkout, pre-ping, recycle | no transaction outlives its request; the pool is never exhausted; no stale connection is used |
| Configuration, `app/config.py` | secrets, read once per cold start | resolve | a failure is explained by a rotation only if the instance's password is not the database's |
| Health, `routers/health.py` | none | liveness, readiness | readiness fails only for a reason |
| Migrations, `alembic/` | schema version, columns and rows of `users` | upgrade, downgrade | all or nothing; version and columns agree; failures have a reason; it ends |
| Delivery, `.github/workflows/cd.yml` | image of the function, runs of the workflow | build, update, wait, smoke test | the newest commit wins; a run is verified only while the function is set to its image; runs end |
| Wiring, schemas, Terraform | none | routing, validation, resources | - |

They interact through calls only: a dependency authenticates (one SELECT), a
second one asks the limiter (two GetItems, one UpdateItem), the handler then runs
its own statements in the same session. Concurrency is between Lambda instances,
each serving one request at a time, at most five at once. The hard behaviours are

- the limiter's read-decide-count sequence, which nothing makes atomic, and its
  two readings of the clock, which can fall into different windows;
- the failures that are swallowed on purpose: fail open on reads, a lost count on
  writes, an SDK that repeats an `ADD` whose answer was lost;
- handlers that look at a row in one statement and rely on it in the next, at
  READ COMMITTED, while the account can go with all it owns;
- a unique constraint that decides registration races after the work was done;
- pages that are separate requests over a set that changes between them, in an
  order with ties;
- connections that die while their instance is frozen, and a password that
  changes in two steps while instances keep the one they started with;
- migrations that are one transaction and wait for everyone who has touched
  `users`, run by two operators at once, interrupted, or deadlocked;
- merges faster than deploys, and a smoke test that any instance may answer.

`PROJECT.json` lists each of them at its line, under `hazards`.

## Modules

    SlidingWindow ─┬─ RateLimiter ─┬─ MCRateLimiter        (TLC)
                   │               └─ RateLimiterProofs ─── RateLimiterBoundsProofs
                   └─ RetryClient                          (TLC)
                           └─ RetryClientProofs            (TLAPS)
    Jar  <── refined by ── Quotes ─┬─ MCQuotes             (TLC)
                                   └─ QuotesProofs         (TLAPS)
    Paging ─┬─ MCPaging                                    (TLC)
            └─ PagingProofs                                (TLAPS)
    Accounts ─┬─ MCAccounts                                (TLC)
              └─ AccountsProofs                            (TLAPS)
    Migration ─┬─ MCMigration                              (TLC)
               └─ MigrationProofs                          (TLAPS)
    Instances ─── Rollout ─┬─ MCRollout                    (TLC)
                           └─ RolloutProofs                (TLAPS)

**SlidingWindow** holds the arithmetic of `_decide`: the window of an instant,
the estimate, the decision. Time is a whole number of ticks and a window is its
index. The estimate is scaled by `Window`, so it stays an integer; the code's
floating point is taken to be exact.

**RateLimiter** is one limit key and the executions that use it. Each action is a
step between two points where something else can happen: `Start` (the first
`time.time()`), `ReadCurrent`, then `Admit` or `Refuse` (the second GetItem and
the decision), `FailOpen` (either GetItem raised), `ReadClockAgain`
(`_increment`), `WriteAnswered`, `WriteUnanswered`, `WriteFails` (the UpdateItem
and its retries), `Kill` (Lambda's timeout, or a crash), `DeleteExpired` (TTL),
`Tick`. With `Counting = "admissions"` the sequence is `check`; with `"failures"`
it is login's `peek`, the password check (`AttemptSucceeds`, `AttemptFails`) and
`record`. `expires_at` is computed from the clock `_increment` read; the code
reads the clock once more for it, so real items live slightly longer. Ghost
variables count what the store does not know: requests let through per window,
decisions that failed open, counts that were lost.

**RetryClient** is one client, alone on its key, that either waits for
`Retry-After` or retries every second. The limit headers are only sent with a
429 (`_too_many_requests`), so a client that is served is told nothing. Only two
windows are ever read, so time is the phase in the current window and can run
for ever; that makes liveness checkable without a horizon.

**Jar** states what the children and quotes endpoints promise, every operation one
atomic step on behalf of one user. **Quotes** has the handlers as they are: one
action per statement, uncommitted writes that hold PostgreSQL's row locks,
`COMMIT`, the `refresh` after it, and a connection that can break anywhere, during
`COMMIT` with either outcome. `Authenticate` is `get_current_user`, `Throttle` the
429 of `enforce_user_limit`; `Listed` is the query of `list_quotes` with its child
filter. `DeleteUser` is a manual `DELETE` with its cascade; no endpoint deletes
accounts, but tokens and handlers must survive it. Jar knows nothing of soft
deletion: its `quotes` are the rows of Quotes that can be seen, so `ImplementsJar`
also says that no race makes a retired quote visible again. `RetireAgain` is there
because of two deletes that both saw the quote: the second writes `deleted_at`
once more and answers 204.

**Paging** is one client that walks through `GET /quotes` while the same owner's
other clients create and delete. A page is a count and a SELECT. `rank` stands for
(`said_on`, `created_at`), which a new row may have anywhere in the order, and
which two rows may share; `Pages` is the set of all the pages PostgreSQL may then
return.

**Accounts** has register (hash, INSERT that waits on the unique index, COMMIT,
refresh), login (lookup by the address as typed, a bcrypt of the hash that was
found or of the dummy, token or recorded failure), the lookup of a token's subject,
and the seed script as one more client: its SELECT, the flush of its INSERT, and
its one COMMIT. `Canonical` is what `EmailStr` does to an address: a domain in
lower case; the local part stays as typed. `Hashes` is the `try` of
`verify_password`: bcrypt raises a ValueError, before it computes anything, for a
password over 72 bytes (`TooLong`) and for a stored hash that it cannot read, which
`Spoil` puts into a row. The first is the same for every account and for none. The
second is not: such an account answers faster than an unknown address, and
`FailuresLookAlike` excepts it. The comment at security.py:97-104 counts the
backfilled accounts among these, but the hashes that `a9327a283123` writes are
bcrypt's own, so it takes a hand in the database or a bad migration.

**Migration** is `alembic upgrade head` and `downgrade -1`, run by several
operators against a database that is serving. A run is one transaction
(`env.py:75`): its changes are in `draft` until `CommitMigration`. What orders the
runs and the requests is PostgreSQL's lock on `users`: an ALTER TABLE queues
(`QueueForTable`), lets nobody in behind it, and has the table to itself once
everyone before it is gone (`Granted`). The statements of `a9327a283123` are
`AddColumn`, `Backfill`, `Tighten`; of its downgrade `FillNames`, `FinishFill`,
`NarrowName`, `DropColumn`; `DropTables` is the downgrade of `0bad12f9d217`, which
a `downgrade -1` planned on that revision runs. Users come from registration and,
before there were passwords, from the seed script of that time, which is not in the
repository: what it inserted is known from the columns there were (external). No
endpoint of that revision inserts users. A request that meets a table without the
columns it names fails and leaves nothing behind, so it is not a step.

**Instances** is the life of a Lambda instance with its pool: `ColdStart` reads the
secrets, `Checkout` reuses the pooled connection if it answers the pre-ping and
connects otherwise, `Close` gives it back. A request has an `excuse` to fail if it
finds the database down or its instance's password outdated when it comes, if either
becomes so while it runs, or if its connection breaks when a statement is about to
use it; the steps of the instance itself never give it one. Around it connections break unnoticed,
the database goes down, its password is rotated (in the database and in Secrets
Manager, in either order) and instances are discarded. A recycled connection is a
new one, so `pool_recycle` is covered by `Connect`. **Rollout** extends it with
`cd.yml`: merges, the concurrency group (one run at work, one waiting, the rest
cancelled), build, `update-function-code`, the waiter, and the smoke test, whose
request is one of the events that the instances serve.

In every module the definitions named as mistakes (`EstimateWithoutRequest`,
`HoldsNothing`, ...) are not part of the specification. Each is a plausible bug of
the definition that follows; with it substituted, the property it belongs to in
`PROJECT.json` (`mutants`) is violated.

## Runs

| Run | Instance | What it shows |
| --- | --- | --- |
| `MCRateLimiter_check` | 2 executions, limit 2, windows 0..4 of 2 ticks, one lost count | `ChargesBounded`: at most limit + executions - 1 + lost counts requests are let through in a window. `RefusalJustified`: no refusal comes from a stale read. `LockoutBounded`: refusals cannot feed on refusals. `TwoWindowsBounded`: two neighbouring windows never both reach the ceiling. `ExpiryIsHousekeeping`: TTL deletes nothing that is still looked at |
| `MCRateLimiter_faults` | 2 executions, `peek`/`record`, two attempts per write, one failed read, one lost count | `OvershootBounded`, `ChargesBounded` under every fault at once; `IInv`, the invariant the proofs use |
| `RetryClient_retry` | limit 3, window of 12 ticks, 2 ticks per second, both clients | `RefusalsBounded` (three, the limit being above one), `WaitBounded` (two windows), `HammeringWaitBounded` (a window and 1/limit), `Recovers` (liveness) |
| `MCQuotes_race` | 2 users, 2 children, 1 quote, 2 requests, 1 error | `ImplementsJar`; `NoOrphans`, `CreatedIsStored`, `DeletedIsGone`, `OwnRowsOnly` |
| `MCQuotes_answers` | 1 user, 2 children, 2 quotes, 2 requests, fair | `ListSkewBounded`: `total` and the rows differ by no more than what came or went between their statements, filtered or not. `AllAnswered`: nobody waits for ever for a row lock |
| `MCPaging_walk` | 4 quotes, ranks 1..4, pages of 1 | `RepeatsBounded`: a page repeats a quote at most once per new quote and per tie. `MissesBounded`: a finished walk has missed at most one quote per deletion, per late arrival and per tie |
| `MCAccounts_race` | 2 ids, 1 address in 2 spellings, 3 passwords, one of them over 72 bytes, 2 requests, 1 error, 1 spoilt hash | `OneAccountPerAddress`. `ConflictWasReal`: a 409 is not the work of a registration that failed. `FailuresLookAlike`: a refused login is recorded once and costs what its password costs, account or not, unless the stored hash is unreadable. `TokenOpensItsAccount`, `SeedIsWhole` |
| `MCMigration_alembic` | 2 operators, 2 requests, 2 ids, 1 interruption, fair | `RevisionMatchesSchema`: version and columns agree through interruptions, failures and rivals. `FailuresExplained`: alembic fails only because of a rival, or a downgrade because of a registration it did not see. `PasswordsAreOwners`: no migration makes a password that opens somebody's account. `AlembicEnds` (liveness, through deadlocks too) |
| `MCRollout_deploy` | 1 instance, 3 commits, 2 attempts, 1 outage, 1 rotation, fair | `FailureWasReal`: readiness has no false negatives; what died while an instance was frozen is no reason to fail. `OneConnectionEach`. `NewestWins`: no deploy puts back an older image. `SmokeTestAfterUpdate`: while a run tests, the function is set to its image and no update is in progress. `RunsEnd` (liveness) |

No run switches deadlock checking off.

Three runs are expected to fail: each checks one sentence of the documentation or
the tests that the code does not bear out.

| Run | Statement | What the code does |
| --- | --- | --- |
| `RetryClient_documented` | README.md:1330, honouring `Retry-After` returns the quota "as documented" | when the window ends it weighs in full as the previous one: refused again |
| `MCAccounts_spelling` | tests/test_auth.py:155, a registered user can log in | not with the address as registered, if its domain had capitals |
| `MCAccounts_removed` | README.md:1526-1528, deleting an account "does not invalidate a token already issued. Expiry is the only revocation mechanism" (config.py:106-109 too) | `get_current_user` looks the account up on every request and answers 401 when it is gone (dependencies.py:78-83, tests/test_auth.py:210) |

### Bounds

- Executions: 2. Every hazard of the limiter is between one execution and the
  others' effect on a counter; the proofs cover any number.
- Limit 2 and windows of 2 ticks: one admitted request before the race, a window
  that can end between any two steps, and enough windows for an item to expire and
  be deleted while the clock is still allowed to move.
- `MaxAttempts` 2 (one repeat), `MaxOpenings` 1, `MaxLosses` 1: the bounds in the
  properties are linear in these, and each can happen with each other.
- RetryClient: limit 3 lets a burst straddle a window boundary in every
  proportion; 2 ticks per second make the truncation of `Retry-After` visible.
  `Patience` saturates the counters above every bound that is checked.
- Quotes and Accounts: two requests are enough for every pair of statements to
  race; ids are never reused, so `IdsLeft` stops creates when they run out. Two
  children, so that the filter of `list_quotes` tells rows apart.
  Accounts: two passwords that bcrypt takes, a right and a wrong one, and one that
  it does not; `MaxSpoilt` 1 leaves an account whose hash is sound beside it.
  Permutations of interchangeable ids, users and requests are symmetric; runs of
  liveness use no symmetry.
- Paging: pages of one put a page boundary between any two quotes; four quotes
  leave room for some that stay, one that comes, one that goes and a tie.
- Migration: two operators make every pair of upgrade and downgrade; two requests
  put one before and one behind an ALTER TABLE. `MaxAborts` 1 interrupts a run at
  any statement.
- Rollout: instances share only the database, its password and the reserved
  concurrency, and the workflow looks at one of them; one that is discarded and
  started again at any point is enough, and the proofs cover any number. Three
  commits: one at work, one waiting, one that replaces it. 2 attempts stand for
  the 6 of cd.yml: a first, a last and the retry between them.

### Fairness

RetryClient: time passes, and a client that was refused does come back when its
wait is over. Quotes: a request that is being served runs its next statement
whenever PostgreSQL lets it. Migration: a request that is being served ends (Lambda
kills it otherwise), and a run of alembic is strongly fair, because PostgreSQL
hands out a lock in the order in which it was asked for: whoever finds it free
again and again gets it. Rollout: GitHub runs what it has started, each step of a
job and each smoke test has a timeout, and Lambda finishes an update or gives it
up. Nothing is assumed of clients that have no request under way, of errors, of
account removal, of operators who have not started, of interruptions, of outages
ending, or of TTL deletion.

## What is proved

Every invariant and action property of the passing runs is a theorem, for every value of
the constants that the assumptions of the modules allow; TLC evaluates those
assumptions on every run. Each inductive invariant was model-checked before it was
proved. A proof module has its inductive invariant first, then one lemma per
action or per conjunct that says that it is kept, and the theorems.

| Module | Theorems |
| --- | --- |
| `RateLimiterProofs` | `TypeCorrect`, `IInvInvariant`, `OvershootIsBounded` |
| `RateLimiterBoundsProofs` | `HousekeepingOnly`, `RefusalsAreJustified`, `LockoutIsBounded`, `ChargesAreBounded`, `TwoWindowsAreBounded` |
| `RetryClientProofs` | `TypeCorrect`, `PoliteWaitIsBounded`, `PoliteRefusalsAreBounded`, `HammeringIsBounded` |
| `QuotesProofs` | `TypeCorrect`, `NothingIsOrphaned`, `CreationsAreDurable`, `DeletionsAreFinal`, `AnswersShowOwnRows`, `ListsAreNearlyRight`, `HandlersImplementJar` |
| `PagingProofs` | `TypeCorrect`, `RepeatsAreBounded`, `MissesAreBounded` |
| `AccountsProofs` | `TypeCorrect`, `AddressesAreUnique`, `ConflictsAreReal`, `FailuresAreAlike`, `SeedsAreWhole`, `TokensOpenTheirAccount` |
| `MigrationProofs` | `TypeCorrect`, `SchemaIsItsRevision`, `AlembicFailsForAReason`, `NobodyIsGivenAPassword` |
| `RolloutProofs` | `TypeCorrect`, `FailuresAreReal`, `OneConnectionPerInstance`, `SmokeTestsFollowUpdates`, `NewestAlwaysWins` |

### The limiter

For any finite set of executions that is not empty (the reserved concurrency is
five), any limit, window, timeout, number of SDK attempts and bound on faults, and
for both ways of counting. `TimesAssumption` asks that an item outlives the window
after its own by at least the time an execution may run: `ExpiryIsHousekeeping`
rests on it.

`OvershootBounded` is not inductive: it says nothing about increments that are
decided and not yet written. `IInv` gives every such increment a token.
`Tokens(w)` is the set of pairs of an execution and one of its remaining attempts,
for the executions that may still add to the counter of `w`: their key is already
that of `w`, or they started in an earlier window and may find the clock in `w`
when they read it again, or they started in `w` and found its counter below the
limit. `RoomForTokens` says that the counter plus its tokens fits under the
ceiling. A write spends a token and raises the counter by one; a read grants
tokens only while the counter is below the limit, when there is room for those of
all executions (`RoomIfBelowLimit`); failing open raises the ceiling by the
tokens it grants. `FutureIsEmpty` is needed because an execution that starts in
a window older than `w` has a token for `w` from the beginning, which is only
sound while `w` is empty. `ReadClocks` says that no execution has read a clock of
the future.

`RateLimiterBoundsProofs` has three more invariants.

- `CInv` is about time: no execution outlives its timeout (`InTime`), an item
  outlives the window after its own by the slack and exists because of a recent
  charge (`Kept`), and what an execution has read of a counter is not more than
  what the counter says now (`Ordered`). With it TTL deletion is housekeeping; a
  counter that refused when it was read refuses when the answer is sent, because
  decisions are monotone in the counters; and a refusal has a charge in the last
  two windows behind it.
- `BInv` accounts for the requests let through in `w`. While the clock is in `w`,
  each is in the counter, or lost, or pending (`CountedInTime`); once it has
  left, only executions that were running when it did may be missing
  (`CountedAfterwards`); and those that have been let through, or may yet be, fit
  (`RoomForCharges`).
- `TInv` weighs a window with the one before it. `Strokes(w)` are the increments
  that may still hit either counter. An admission that sees the previous counter
  in use leaves it less of the limit, so both counters and their strokes stay
  under twice the ceiling (`RoomForStrokes`).

### What clients are told

For any limit, any window of whole seconds and any ticks per second. The bounds on waiting come from
where a refused client stands: `Lead`, how far it has come past the beginning of
the window in which it was first refused, and `Due`, when it will ask again. A
polite client comes back at the end of that window, perhaps twice, because
`Retry-After` is cut to whole seconds, or within the first second of the next one,
where the full window behind it may refuse it once more. `PoliteRefusalsAreBounded`
has the hypothesis `Limit >= 2`: under a limit of one, a single request weighs on
the whole of the next window, and TLC finds a fourth refusal. All the limits in
`config.py` are above one.

### Children and quotes

For any users, ids, requests and number of errors. The inductive invariant says of
each request what it may rely on at each statement: that the row it looked at was
its user's, which stays so because ids are issued once and rows change no owner
(`ReadyToWrite`); while its transaction is open, that the row it hangs on is still
there, which PostgreSQL's lock has kept true (`Writing`, `LocksInv`); and then
what its answer goes on saying (`Answered`). `Skewed` says that the count and the
rows that could be selected now differ by no more than came and went.
`HandlersImplementJar` takes each statement in turn: all of them stutter in
`Jar` except the one that commits, answered or not, and `DeleteUser`. The second
delete of a quote is `RetireAgain` because `NoOrphans` and `OwnKid` say that its
child and its user are still there.

### Pages

For any ids, ranks and page size. What matters is which quotes the client has
`Reached`, those not below all it was shown, counted against its offset. If there
are more, the next pages repeat the difference; a new quote among them adds one
(`RepeatsInv`). If there are fewer, as many quotes slip by, unless fewer are left
(`MissesInv`, whose second disjunct is needed after short and empty pages: the
offset grows though nothing is passed over). A page either stays within what was
reached or takes all that is left of it and goes on (`PageReaches`); then what it
has newly reached beyond itself ties with its last row, which pays for it in
`Ties` (`TiesGrow`). That `Pages` is a set of sets does not matter: the proof
picks one page and what comes before it.

### Accounts

For any ids, addresses, passwords, requests and number of
errors (and any idempotent `Canonical`). The inductive invariant has
`OneAccountPerAddress` and
`SeedIsWhole` themselves, `IndexInv` (rows that are not committed yet hold their
places in the unique index, against each other and against the table: uniqueness
is decided at the INSERT, before the COMMIT that shows it), `TablesInv` (ids are
issued once, also to rows that have gone since) and `RequestsInv`, what each
request knows at each of its statements: a login that records a failure has spent
what its password costs (`Cost`), unless the row it read has a spoilt hash; a
lookup carries the token of one row. `ConflictsAreReal` and `FailuresAreAlike` say
no more than their properties: the account behind a conflict may have gone since it
was stored, and an unreadable hash is excepted.

### Migrations

For any operators, requests, ids and interruptions. Whoever has altered `users` is
alone with it (`ExclusionInv`), so no request is under way with a row for columns
that are about to go (`RequestFits`). What a run read at its beginning is still so,
or a rival has committed meanwhile (`StillHolds`), and the tables it alters are
there until it lets go of them; and its draft matches the
revision it is about to set (`Drafted`). A row without a name is one that the
downgrade's UPDATE has seen, or the registration was late: that is the failure
`FailuresExplained` speaks of.

### Rollout

For any number of slots, events, commits, attempts, outages and rotations;
`NewestAlwaysWins` is an action property. The
inductive invariant has two parts. `InstancesInv` ties each instance's statement
to its connections (one is checked out or pooled, never both) and says that a
connection that is dead under a request has given it an excuse, and so has whatever
would refuse it a new one. `WorkflowInv` says that the
runs at work are one (`Grouped`), that they are older than the ones that wait and
newer than what is configured (`Ordered`), and that the update in progress belongs
to the run that waits for it, or to one that gave up and is older (`UpdateIsOwn`).
`NewestWins` needs all three: a run may time out, leave its update behind, and the
next run may find it still in progress.

### Only model-checked

Liveness (`Recovers`, `AllAnswered`, `AlembicEnds`, `RunsEnd`): the prover handles
neither fairness nor ENABLED. The type invariants of Accounts, Rollout and
RetryClient are the other way round: proved, and not repeated in a run.

## What is not modelled

- Floating point: an estimate within rounding of the limit could go either way.
- Several limit keys at once (the IP and the address at login): keys share nothing
  but the clock. `client_ip` only chooses the key.
- A write of a killed execution that lands later than the kill.
- Validation and response filtering (`schemas.py`), except for `EmailStr`, which
  changes an address; response headers other than `Retry-After`; logging. Offsets
  beyond PostgreSQL's bigint.
- Cryptography and expiry times of tokens: any token may be found expired. The
  rotation of the JWT key, which cuts off tokens as expiry does.
- The settings of `config.py` other than the secrets: constants of the modules
  that use them.
- Which image answers a smoke test: the code of the old image is not here, and a
  probe tells both apart as little as the workflow does. Deploys and rollbacks by
  hand and re-runs of old workflow runs, which bypass cd.yml's order.
- alembic's offline mode, which only prints SQL. A migration at the same time as a
  rollout, other than by the requests that the schema lets through.
- `ci.yml` and `terraform.yml`: checks, and resources declared. Concurrency,
  timeout and TTL enter the models as constants.
- Application wiring: routes have no state.

## Plan

1. Done: every component with state has its module, every invariant and action
   property of the runs is proved, and so is `Spec => J!Spec`.
2. Left: shorter proofs where several modules repeat an argument (requests that
   wait while another one takes a step; sizes of sets that gain or lose one row),
   and theorems about combinations that no run checks, first that the limits of
   `RetryClient` hold for a client that mixes waiting and hammering.
