# A verification of ugsys-identity-manager

TLA+ models of the identity manager (`src/src`, Python, FastAPI on AWS Lambda,
DynamoDB and EventBridge), checked with TLC and, where it matters most, proved
with TLAPS for every number of requests, events, tokens, keys, accounts and ticks.
`PROJECT.json` maps each definition to the lines it stands for.

## 1. The system

| Part | State it keeps | Operations |
|---|---|---|
| `User` (`domain/entities/user.py`) | one record: status, password hash, roles, failed attempts, lock, verification token, `updated_at` | activate, deactivate, roles, profile, lock and counter, verification |
| `AuthService` | none of its own; works on one user item, on tokens, on the outbox | register, authenticate, refresh, forgot/reset password, verify e-mail, resend, logout, validate, service tokens |
| `UserService` | none of its own | profile, roles, deactivate, suspend, activate, require password change, list, get |
| User repository, unit of work | the users table and its `email-index`; `put_item` of the whole item, or one transaction with an outbox item | save, update, find by id / e-mail / verification token, list |
| `JWTTokenService` | keys; the tokens it gave out live with their holders | four kinds of token, verify, JWKS |
| Token blacklist | items `{jti, ttl}`, deleted by DynamoDB after `ttl` | add, is_blacklisted |
| Outbox repository, `OutboxProcessor`, outbox Lambda | items with status and retry count, `StatusIndex` | record, find_pending, mark, increment_retry, process_pending |
| `EventBridgePublisher` | none | publish |
| Routers, exception handler, envelopes | none | verify the bearer token, call a service, translate exceptions, cut and count pages |
| `RateLimitMiddleware` | one list of time stamps for each key, per process | let through, refuse with 429, report what is left |
| Configuration, `jwks.py` | signing key and retiring key, read at cold start | sign, verify by kid, serve the key set |
| `scripts/migrate_from_registry.py` | none; writes into the users table | scan both tables, map roles and status, put account after account |

**How they interact.** A router verifies a bearer token (which asks the
blacklist) and calls a service. A service reads the user item, works on its own
copy and writes the whole item back without a condition, then publishes events;
or, for critical events and where it was wired with an outbox, writes item and
event in one transaction. A scheduled Lambda drains the outbox to the bus. All
state is shared through DynamoDB; Lambda instances share nothing else. The
rate limiter sits before everything and counts by itself in each process. The
signing key lives in Secrets Manager, is read once by each instance, and its
public half is fetched by other services from whichever instance answers. The
migration script writes into the users table directly, beside the service.

**What is hard.** Requests interleave at every `await`: two of them read the
same item and each puts its copy back. `get_item`, the indexes and the scan are
read eventually consistent. A call may raise although it took effect. A Lambda
may die between a write and the publish that should follow. The processor may
run twice at a time on an index that trails the table. `verify_token` compares
the expiry before it asks the blacklist, and the blacklist forgets. After a
rotation, instances with the old and with the new key serve side by side. A
registration looks an address up and stores it later. A page is cut from a table
that changes from page to page. The migration dies, or fails halfway, and is
started again over accounts that have been used since. Three windows of time
share one list.

**What makes each part correct.**

- *Account*: what is stored is always something a handler built; a new password
  and its event are stored together; guesses are bounded by the lock; a request
  does not undo a verification or a suspension it has no business with; an
  account that is deactivated is announced.
- *Outbox*: at-least-once delivery; no event is marked published without having
  been delivered, none is given up before its attempts were made; each one is
  settled in the end.
- *Tokens*: a revoked token stays out; a logout that succeeds revoked both
  tokens; a session that ended cannot be brought back.
- *Registration*: one account for one address, and each account announced.
- *Migration*: a run that ends clean left nobody behind; no run undoes what the
  service did since, or gives rights the registry does not.
- *Listing*: a walk through the pages misses nobody.
- *Keys*: a rotation invalidates no live token; a replaced key dies out.
- *Rate limiting*: never more than a window's limit in any window, nobody is
  refused for having been refused, and the headers tell the truth.

## 2. The modules

| Module | Models | Kind |
|---|---|---|
| `EventDelivery` | what the outbox promises the platform | abstract specification |
| `Outbox` | outbox table, `StatusIndex`, overlapping processor runs, bus | state machine; implements `EventDelivery` |
| `OutboxProofs` | | 6 theorems about `Outbox` |
| `LoginLock` | what the lock of an account promises | abstract specification |
| `UserEntity` | the methods of `User` as functions of a record and the time | pure operators |
| `AccountService` | one account under all operations of both services, repository, outbox write, publisher | state machine over `UserEntity`; implements `LoginLock` |
| `AccountProofs` | | 4 theorems about `AccountService` |
| `AccountSerialProofs` | | 4 more, about requests one after another |
| `TokenSession` | tokens, clock, blacklist, logout / refresh / reset / validate | state machine |
| `TokenProofs` | | 4 theorems about `TokenSession` |
| `KeyRotation` | secret, instances, tokens, key sets with their caches | state machine |
| `KeyRotationProofs` | | 3 theorems about `KeyRotation` |
| `SlidingWindows` | what the rate limiter promises | abstract specification |
| `RateLimiter` | the middleware's lists, requests and headers | state machine; implements `SlidingWindows` |
| `RateLimiterProofs` | | 6 theorems about `RateLimiter` |
| `AddressBook` | what registration promises | abstract specification |
| `UsersTable` | the table as the next three see it, its reads, its updates | shared state |
| `Registration` | `register`, with and without outbox | actions on `UsersTable`; implements `AddressBook` |
| `Migration` | the migration script | actions on `UsersTable` |
| `UserListing` | `GET /users` and a client that walks through it | actions on `UsersTable` |
| `Directory` | the three together, with the service's updates | composition |
| `DirectoryProofs` | | 7 theorems about `Directory` |
| `MC...` | sets and functions the configurations use | instances |

**How state corresponds.** `Outbox.table` and `AccountService.item` are the
DynamoDB items; `index` and `replica` are the images that an eventually
consistent read may return, and `Replicate` brings them up to date. `pc` names
the `await` a handler or run is at; `job`, `todo` and `seen` are its local
variables, among them the copy of the item it is going to write back. A handler
runs without interruption between two awaits, so one action is one such
stretch: in `AccountService` a handler reads and decides in one action
(`Authenticate`, `VerifyEmailRequest`, ...), writes in `Commit`, publishes in
`Publish`, each call with a `...Raises` twin in which it fails, applied or not.
`TokenSession` splits `verify_token` at its one await: `Present` decodes,
`Check` asks the blacklist. `Outbox` has one action for each call of
`process_pending`, in the order of its loop and with its except clause.
`RateLimiter.Dispatch` is the stretch of `dispatch` up to `call_next`, which has
no await, and `Respond` the rest. In `Directory` an id stands for its place in
the order of a scan; `form` is the user that `register` is about to store,
`script` the script's local variables, `walk` those of a client and of the scan
for its current page. `Touch` stands for all the updates of `AccountService`,
once for each account.

**History variables** (not in the code, and read by no action): `tries`,
`accepted` in `Outbox`; `wrong`, `inForce` and `issued` in `AccountService` (there
`issued` also identifies tokens); `revoked` in `TokenSession`, copied into a request as
`barred`, and a token's `session`; `since`, `replaced`, `retired` in
`KeyRotation`; `admitted` and a request's `before` and `early` in `RateLimiter`;
`touched` and a walk's `first` in `Directory`.

**Faults.** Every state machine takes a set `Faults`; each kind enables the
actions that model it, so that a run or a theorem says under which failures it
holds: `"bus"` (publish raises), `"answer"` (publish raises although the bus took
the event), `"store"` (a DynamoDB call raises, applied or not), `"crash"`,
`"stale"` (reads trail the table), `"page"` (the one-page scan of
`find_by_verification_token` misses the account), `"sweep"` (a blacklist entry
is deleted in the middle of a check), `"roles"` (the migration's role query
fails), `"overlap"` (registrations interleave). `KeyRotation` and `RateLimiter`
have no such set: instances stop whenever they like in the one, and a process
that starts anew in the other is another process.

**Abstractions.** An event is its place in `created_at` order; a token its jti,
numbered in order of creation; a password a model value; a role likewise; a
password's hash is the password it verifies and a salt, which is that of the
request that made it. An account starts as one that was registered, has verified
its address since, or was migrated with a password hash (without one, bcrypt
raises at the first login, and that is left out).
Names, e-mail texts, payloads, status codes and logs are left out. Whether a
caller may act as an admin is a free choice between the operation and a
refusal. Signatures, algorithms, audiences and key ids are left out of
`TokenSession`: every token in it is one this service made; `KeyRotation` has a
key where a token has its kid, and none of the rest; a secret with only one of
the two retiring fields verifies nothing by them (`jwt_token_service.py:103`) and
is one without. The number `process_pending` returns is not kept, and
`json.loads` of a payload, inside its `try` (`outbox_processor.py:50`), reads what
`json.dumps` wrote and does not raise. `authenticate` asks `is_locked()` again
after its writes and publishes (`auth_service.py:224`) to choose between two
refusals; the model chooses when the password is checked, and no property tells
the two apart. A rate limit key is a value, however it
is extracted; time is a whole number of ticks, `Second` of them to a second,
because `int()` cuts Retry-After down to seconds. The rate limiter reads
`time.time()` (`rate_limiting.py:81`), a wall clock that may be set back; the
clock of the model never is. The registry does not change
while it is migrated; its addresses and role names are compared in lower case,
by the constant `Lower`; the filter of the list is the one by status.

## 3. The runs

Bounds are in the `.cfg`; the counters of the code are capped by `RetryCap`,
`MaxTime`, `MaxTokens` and by the finite sets of requests, keys and ids.

| Run | Instance | Checks |
|---|---|---|
| `OutboxOverlap` | 1 event, 2 runs that restart freely, 2 retries, all faults | `TypeOK`; `PublishedWasDelivered`; `FailedOnlyWhenExhausted`; `ImplementsDelivery`: the processor refines `EventDelivery` |
| `OutboxFresh` | 2 events in one batch, 3 runs, bus faults, index up to date | `RetryOvershootBounded`, `DuplicatesBounded`: overlap costs at most one retry and one delivery for each run |
| `OutboxLiveness` | 2 events, batches of 1, 1 run, all faults, fairness | `EventuallySettled`: also behind an event that keeps failing |
| `AccountOverlap` | 2 requests, all 13 operations, overlapping, all faults, on a registered, a verified or a migrated account | `TypeOK`; `StoredItemConsistent`; `PasswordChangeIsRecorded` |
| `AccountSerial` | 4 requests one after another, the 6 operations that decide on password, lock, status or verification, a scan that may miss the account, clock to 3, on a registered, a verified or a migrated account | `GuessesBounded`; `FailuresLock`; `NothingUndone`; `ImplementsLoginLock`: the services refine `LoginLock` |
| `SessionRevocation` | 2 requests of all kinds, 4 tokens, clock to 3, failing calls and crashes | `TypeOK`; `RevokedStaysOut`; `EndedForGood` |
| `SessionLogout` | 3 requests of all kinds, 2 tokens, stale reads, early deletion, crashes | `RevocationComplete` |
| `KeyRotation` | 3 keys, 2 instances, 1 consumer, 2 types of token, an overlap that covers one of them, clock to 6 | `TypeOK`; `LiveTokensVerify`; `KeysDieOut` |
| `RateLimiter` | 4 requests on 2 lists, windows of 1, 6 and 8 ticks with limits 1, 2 and 3, two ticks to a second | `TypeOK`; `WindowsRespected`; `RefusedOnlyWhenFull`; `RetryAfterHonoured`; `RemainingHonoured`; `ImplementsSlidingWindows`: the middleware refines `SlidingWindows` |
| `Directory` | 2 registrations for one address, 2 people (one with that address), 4 ids, pages of 2, scans in two pieces, updates, failing calls, crashes, failing role queries | `TypeOK`; `OneAccountPerAddress`; `CleanRunIsComplete`; `NobodyPromoted`; `WalkMissesNobody`; `ChangesSurvive`; `ImplementsAddressBook`: registration refines `AddressBook` |

Why these bounds are enough to be interesting: two requests are what it takes
for one to write back what another changed, and one may fail while the other is
anywhere; with three runs on one event the retry counter passes its limit by
more than one run's doing; one failing event ahead of another, with batches of
one, is a blocked queue; four logins with a limit of 2 and a lock of one tick
reach the lock, outlive it and lock again; four tokens are two sessions, or one
that was refreshed, and a clock of 3 outlives every token; two rotations make a
key that was active, then retiring, then gone, while tokens signed with it may
live, and 6 ticks see it out of the last cache; windows of 1, 6 and 8 let a
stamp be in each combination of windows, and four requests on one list fill
every window; four accounts make two pages, with fresh ids before and behind
those of the registry, and two registrations are one and its retry. Larger tables
and people without address are left to the proofs, for which they are open; of
status filters and page sizes above the maximum `WalkMissesNobody` says nothing,
because there the code does miss accounts (below).
Each property has a mutant of the code, defined next to what it replaces and
marked `Mutant:`, that breaks it under the run's own configuration.

### Where the code does not do what is said of it

Two runs check one statement of a document each, and TLC refutes it.

| Run | Statement | What happens |
|---|---|---|
| `LostDeactivation` | critical events can never be silently lost (enterprise-patterns `design.md:12`) | `suspend_user`, and `deactivate` as wired, publish after the write |
| `RetiringKeyServed` | the retiring key is still served during the overlap (im-security-hardening `requirements.md:54-56`) | `jwks.py:31` makes a token service of its own, without it |

Further divergences, which follow from the actions of the models and have no run
of their own:

- A suspended user's login should get a 401 (phase-1 `tasks.md:408`);
  `authenticate` tests for PENDING only and hands out tokens
  (`auth_service.py:258`, `AccountService.Authenticate`).
- The loss of a log-and-continue event, `login_success`, `login_failed` and
  `account_locked` among them, is acceptable (enterprise-patterns
  `requirements.md:24`, and `design.md:624` of the fallback without an outbox):
  `publish` logs and raises (`event_publisher.py:78-90`), and no handler catches
  it. A right password whose login is already stored is answered with an error
  and no tokens (`auth_service.py:286`, `AccountService.PublishRaises`), and so
  are the other handlers that publish directly. No property asks that tokens
  come with their event: by the document they need not.
- 5 consecutive failures should lock the account (phase-1 `requirements.md:20`).
  One after another they do (`FailuresLock`); two wrong passwords side by side
  overwrite each other's counter (`auth_service.py:195`).
- 24 hours to verify (phase-1 `requirements.md:19`): the token's age is taken
  from `updated_at`, which a resend does not move, so that a token resent a day
  after registration is refused at once (`auth_service.py:539`).
- After logout both tokens are blacklisted (im-security-hardening
  `requirements.md:196-199`): any failure of the second revocation is logged and
  dropped (`auth_service.py:641`); hence `RevocationComplete` is checked where the
  blacklist answers.
- A duplicate address should get a 409: two registrations that overlap, or that
  come faster than the index, both pass the look-up, and `attribute_not_exists(pk)`
  is about the new user's own id. With `"overlap"` or `"stale"` among the faults
  there are two accounts for one address.
- The migration skips by id, not by address: a person who registered before the
  migration has two accounts after it. It also stores addresses in lower case
  (`migrate_from_registry.py:149`), while `find_by_email` compares as is.
- A role query that fails in the migration costs the person every role, with a
  warning, exit status 0, and no second chance: the next run skips the account.
- With a page size above 100 the service gives pages of 100 and the envelope
  counts pages of the size asked for, so that a client stops early
  (`users.py:90`). With a status filter an account that leaves the filter moves
  the others up, and a walk can miss one.
- Retry-After is counted from the oldest stamp of the hour, for the minute
  (`rate_limiting.py:104`): with a stamp older than a minute on the list it is 1,
  whatever window is full.
- An instance that started before a rotation refuses the tokens of those that
  started after it (`jwt_token_service.py:110`), and the overlap that
  `requirements.md:57-59` asks for, the life of an access token, does not cover
  refresh tokens, nor instances that do not know of the rotation yet.
  `key_rotation.detected` is never logged: `_previous_key_id` is None whenever
  `config.py:102` looks at it.

The passing runs have conditions that are needed; without them TLC finds a
counterexample, and these are properties of the code rather than of the model:

- `GuessesBounded`, `FailuresLock` and `ImplementsLoginLock` need requests one after
  another, reads that are up to date, and writes that are not lost: a wrong
  password whose write fails is not counted.
- `NothingUndone` needs requests one after another and fresh reads: beside a
  suspension or a new password, or after a stale read, a login writes the copy it
  read back, old status and old password included (`auth_service.py:283`). That
  old password has its event all the same, so `PasswordChangeIsRecorded` does not
  see it; what that property excludes, under overlap and stale reads too, is a
  new hash in force without an event of its own, and an event without its hash.
- `RevokedStaysOut` needs reads of the blacklist to be up to date: `get_item`
  without `ConsistentRead` may miss an entry just written
  (`dynamodb_token_blacklist.py:51`).
- `RevocationComplete` needs the blacklist to answer.
- `DuplicatesBounded` needs that only the bus refuses: a `mark_published` that
  raises sends the event again, and counts it as a failure.
- `EndedForGood` needs entries to outlast the requests that look for them: DynamoDB deletes
  them hours or days after `ttl`, so this is not a practical restriction.
- `LiveTokensVerify` speaks of instances that started after the token's key came
  into use, and of tokens whose life and an instance's fit into the overlap;
  `KeyRotation.Retire` and `Tick` hold the operator and Lambda to `Overlap` and
  `MaxWarm`. Nothing in the code enforces either.
- `RetryAfterHonoured` needs a list without stamps older than a minute, room in
  the hour, and one second more than the header says; the client then has room
  in all three windows.
- `OneAccountPerAddress` and `ImplementsAddressBook` need registrations one after
  another and an index that is up to date; `ChangesSurvive` a scan that is.
- `ChangesSurvive` and `CleanRunIsComplete` need one run of the migration script at
  a time (`Migration.Start`): nothing in the script prevents two, and the puts of
  one would go over what was changed after the other had put it.
- `WalkMissesNobody` needs a walk without filter, fresh reads and a page size of at
  most 100 (`MaxPage`).
- A logout with an expired access token is refused and revokes nothing, which
  requirement 3.6 of im-security-hardening (`requirements.md:189`) excludes.

### Fairness

`Outbox.FairSpec`: the scheduler invokes the Lambda again and again
(`main_outbox.py`) and the store and the bus are not down for good, so a step
that is enabled again and again is taken in the end, hence strong fairness on
each call's success; replication and the return of a run go on by themselves,
hence weak fairness. Recording events and all failures are left unfair.
`AccountService.FairSpec`: a request that is under way takes its next step,
with success or failure (weak fairness); no request is obliged to arrive.

## 4. The proofs

Proofs are by induction over steps: a strengthening `IInv`, checked with TLC
before it was proved, with `Init => IInv`, `IInv /\ [Next]_vars => IInv'`, and
`IInv => Inv`. Assumptions are those on the constants (`OutboxAssumption`,
`EntityAssumption`, `ServiceAssumption`, `SessionAssumption`,
`RotationAssumption`, `LimiterAssumption`, `UsersAssumption`,
`RegistrationAssumption`, `MigrationAssumption`, `ListingAssumption`); TLC
evaluates them in the runs.

**`OutboxProofs`** (any events, runs and retry limit, all faults):
`TypeCorrect`, `PublishedDelivered`, `FailedExhausted`, `OvershootBounded` (if
the index is up to date), `DuplicatesAreBounded` (if, besides, only the bus
refuses), `OutboxImplementsDelivery`. A run acts on copies, so
`IInv` says of them what makes the verdicts right: copies are past states of the
item (`CopiesArePast`), a run between publish and verdict stands at an event it
was right to try (`AttemptsAreJustified`), every count in `retry_count`, and
every count a run is about to add, has a publish call of its own
(`RetriesWereTried`), and counts
beyond the limit are paid for by runs that read
the event in time (`OvershootIsPaidFor`). Deliveries are paid for in the same
way (`DeliveriesAreCovered`): until the event is settled each one has its run
still about to mark it; once it is, those made and those that runs holding the
event may yet make are at most one for each run. Implementation is then one step of
`EventDelivery`, or a stutter, for each action.

**`AccountProofs`** (any number of requests, all faults): `TypeCorrect`,
`ItemConsistent`, `PasswordRecorded`. The item alone is not inductive, since an
old copy may come back at any time: `IInv` says the same of *every* image of the
account, stored, lagging or in the hands of a request. `PasswordRecorded` counts:
with an outbox there are as many `password_changed` events on record as password
hashes came into force after the first. The salt of a request is in no hash that
is in force before the request has stored it (`SaltsAreFresh`), and a copy about to
be written either carries such a hash together with its event, or one that was in
force already (`CopiesRecorded`): so each write adds a hash and an event, or
neither.

**`AccountSerialProofs`** (any number of requests, limit and period; lemmas say
once how each handler begins, `HandlersBegin`, and how it goes on, `NextSteps`).
`NothingIsUndone` needs requests one after
another and fresh reads: the copy about to be written was made of the item as
it still is (`WritesAllowed`). `GuessesAreBounded`, `FailuresDoLock` and
`LoginLockImplemented` need, besides, that only the bus refuses or the one-page
scan misses: a failure whose write is lost is not counted, and the limit does
not hold. `CountInv` says that the counter, in the item or in the copy on its way
to it, is the number of wrong passwords since the last login, and that the lock
has taken a period of its own for each of them from the limit on. The refinement
maps the lock of `LoginLock` to that of the item or, between a failed login's
check and its write, to that of its copy (`LockInForce`); every other operation
is a stutter.

**`TokenProofs`** (any number of requests and tokens, any clock):
`TypeCorrect`; `RevokedOut` (no stale reads); `Complete` (calls do not fail,
reads may be stale); `SessionsEnd` (no stale reads, no early deletion). `IInv`
relates the blacklist to the tokens (`EntriesLast`: an entry carries its token's
expiry and stays until then), what a request carries to the place it is at
(`JobsFit`), and says that a request with a revoked token gets no further than
the check (`BarredIsStopped`). `SessionsEnd` follows from `OnwardStep`: a new
refresh token belongs to a new session or to that of a refresh that passed its
check, and an ended session has none.

**`KeyRotationProofs`** (any keys, instances, consumers, lives and overlap):
`TypeCorrect`, `LiveTokens`, `OldKeysDieOut`. `IInv` says what the secret may
have forgotten (`SecretFits`: every key that was ever active is in it or has had
its overlap), that an instance knows what was true when it started (`LoadedFits`),
and how long tokens and caches can outlast a key (`TokensFit`, `CachesFit`).

**`RateLimiterProofs`** (any processes, keys, windows, limits, requests):
`TypeCorrect`, `WindowsHold`, `RefusalsJustified`, `WaitingHelps`,
`WindowsImplemented`, `PromisesKept`. `ListsComplete` says that a pruned list holds every admission of
the last hour; then a count on it is the count of a window that ends now, and a
window that ended before only loses by the passing of time; and each decision is the one that
`SlidingWindows` makes from the complete record of the same process and key
(`RoomIsKnown`). `PromisesFit`: what
is left of the requests a header counted, and what it promised, fit into the
minute. `WaitsAreLongEnough`: the list of a refused client that keeps still only
shrinks and is from before the refusal, and the stamp it waits for is on it, or
there is room; a burst window of at most a second (`LimiterAssumption`) is over by
then. The counting
rests on lemmas about cardinalities of parts, and `WaitFits` on what `int()`
cuts off.

**`DirectoryProofs`** (any table, registry and requests, page sizes up to `MaxPage`,
walks without a filter, all faults unless a property excludes one): `TypeCorrect`, `OneAccount`, `Implementation`,
`ChangesAreSafe`, `CleanRuns`, `NoPromotion`, `WalksAreComplete`. `FormsFit` and
`LookUpHolds` carry what a registration found free until it stores it;
`ScriptFits` says that those a run has passed without error are in the table and
those before it, if not scanned, are not; `WalkFits` that an account which was
there and was not seen yet stands behind the pages passed, in the list that the
current scan is sure to have (`Certain`): an insertion, whether the scan sees it
or not, only moves it back. Implementation maps each step to `Enrol`, `Announce`
or a stutter of `AddressBook`.

**Only model-checked:** liveness (`EventuallySettled`; `DeactivationAnnounced`
is refuted, as is `ServedKeysVerify`), which is out of the prover's reach. Every other property of a
passing run is stated by a theorem.

## 5. Not modelled, and the plan

| Part | Why, and what is planned |
|---|---|
| Authorization | tests of claims or of stored roles that unit tests reach; every model lets a caller pass or be refused |
| Cookies, bodies, input validation, status codes | no state; the models take the refusal as a choice |
| Password rules | tests reach them; the models take the outcome as a choice |
| Account and outbox composed | a password change recorded by `AccountService` meets `EventDelivery` in the outbox table only; each side is modelled with the other as environment |
| Middleware for ids, logs, tracing, headers; health; ports and commands | no state that another part reads |
| `delete` and `list_all` of the user repository | called by nothing |
| The dry run of the migration; the smoke test; workflows | write nothing, or describe deployment |
| `find_by_verification_token` reading one page | a fault of `AccountService` (`"page"`); no property says more than the line |
| `main_outbox.py:35` closes the client it hands on | decided by the library; the model lets every call of a run fail |

What is left: an abstract specification of what sessions promise, with
`TokenSession` shown to implement it, and one of a key rotation for `KeyRotation`;
and the composition of an account's outbox record with `EventDelivery`, so that
"a stored password change is delivered" becomes one statement over both.
