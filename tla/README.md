# Formal models of the FastAPI production template

TLA+ models of the service the cookiecutter template generates
(`src/{{cookiecutter.project_slug}}/app`), checked with TLC and, where it says
so, proved with TLAPS. Paths below are relative to that `app` directory; `docs/`
and `tests/` are beside it.

## 1. Inventory

The service is one FastAPI application over PostgreSQL (asyncpg), with an
optional Redis. Its own logic is in the way requests share the database, the
rate-limit storage and the Redis client. Everything runs on one event loop per
worker process, several workers per deployment: the interleaving points are the
awaits, and between workers every statement.

| Component | State | Operations | Talks to | What is hard | What makes it correct |
|---|---|---|---|---|---|
| Refresh-token rotation: `usecases/{authenticate_user,issue_token_pair,refresh_access_token}.py`, `repositories/refresh_token_repository.py`, `database/session.py` | `refresh_tokens` and `users` rows; one transaction per request | login, refresh (read token, read user, revoke, cleanup, insert), COMMIT, rollback | database, admin edits of the same rows | overlapping refreshes, COMMIT before or after the response, rows deleted meanwhile, lock waits in a circle, expiry between two statements, worker death | spent once, replays refused, revoke and issue atomic, nobody else's cleanup costs a token, requests end |
| Registration and accounts: `usecases/register_user.py`, `repositories/user_repository.py`, `models/user.py` | `users.email` | register, sign-in lookup, staff rename and delete | database, event bus, counter | check-then-insert, two notions of "same address", failure after counting | one account per address, late duplicates refused, accounts stable |
| Rate limiter: `infrastructure/ratelimit.py`, `api.py`, `middleware/rate_limit_headers.py` | buckets in the storage; `request.state.rate_limit` | hit, read statistics, refuse or go on, twice per request | storage in worker threads, exception handlers | two storage calls per limiter, window ends, rounding, several workers | burst bounds, refusals with a cause, honest headers |
| Event bus: `events/bus.py` | handler registry | subscribe, publish, dispatch | routes; handlers run inside the request | concurrent handlers that fail or are cancelled, before the COMMIT; subscribers that cannot be called | what a handler raises fails no request, none outlives its request |
| Health probes and Redis client: `health/`, `infrastructure/cache.py` | the cached client | live, ready, health, close; cache get/set/delete/clear, which nothing calls | database session, Redis, the connection pool | concurrent checks, timeouts, a check that closes the client others are using, a cancelled SELECT that spoils the COMMIT | probes end and say what is so; failures do not feed themselves |
| Request pipeline: `middleware/`, `exceptions/`, `application.py`, `http/{response,openapi}.py` | request state, the answer decided on | each stage of a route, each way out | all of the above | which layer answers, outages and full pools at any stage, COMMIT before or after the response | the answer and the database agree; a 5xx has its cause on the request's own way; answers are traceable and documented |
| Access tokens, roles, admin sessions: `modules/users/{deps,admin}.py`, `security/jwt.py`, `infrastructure/admin_auth.py` | none (signed tokens, signed cookies) | current user, superuser, get and list; admin login, check, edit | users table | rights read once and used after further awaits; edits in another transaction than the check | rights are those of the moment |
| Pagination, client address: `http/pagination.py`, `http/net.py` | none | page arithmetic, walk through pages, forwarded chain | repositories, limiter | boundaries; pages that shift under inserts and deletions | walks miss and repeat only what they must; one bucket per caller |
| Tasks, broker, scheduler, e-mail | external queue | one task, nothing enqueues it | TaskIQ, SMTP | retries | |
| Life cycle, SQLite set-up, envelope and OpenAPI, settings, i18n, observability, CLI, migrations | configuration, formatting | | | shared SQLite connection | |

`PROJECT.json` lists each with its status, and under "hazards" every place in
the code that is hard to test, with the properties that cover it or the reason
why none does.

## 2. Modules

| Module | Role |
|---|---|
| `SingleUseTokens` | abstract specification: what the refresh contract promises a client |
| `TokenRotation` | login and refresh, one action per database statement |
| `MCTokenRotation` | TLC instance (symmetry) |
| `TokenRotationProofs` | theorems about `TokenRotation`: types, atomicity, replays |
| `TokenLocksProofs` | extends it: row locks, and what holds because of them |
| `TokenContractProofs` | extends that: `TokenRotation` implements `SingleUseTokens` |
| `Accounts` | registration and staff edits, one action per statement |
| `MCAccounts`, `AccountsProofs` | TLC instance, theorems |
| `RateLimit` | the two limiter dependencies, one action per storage call |
| `ClientAddress` | the caller's address behind a chain of proxies; extended by `RateLimit` |
| `MCRateLimit`, `RateLimitProofs` | TLC instance, theorems |
| `Worker` | what the requests of a worker share: both servers and the connection pool |
| `Health` | extends `Worker`: the two checks of a probe and the shared Redis client |
| `EventBus` | extends `Worker`: publish and its concurrent handlers |
| `RequestPipeline` | composes `Health` and `EventBus`: a request from the outermost middleware to its answer |
| `MCRequestPipeline`, `RequestPipelineProofs` | TLC instance, theorems |
| `Pagination` | page arithmetic and the page SELECT |
| `Directory` | extends `Pagination`: the users API and the admin interface over the users table |
| `MCDirectory`, `DirectoryProofs` | TLC instance, theorems |

The definitions whose comment starts with "Mutant:" are deliberate mistakes that
stand next to the definition they are variants of. No action uses them. They
record, for each property, a bug that the property detects.

### TokenRotation

| Model | Code |
|---|---|
| `row`, `exp`, `owner` | `refresh_tokens` rows: `revoked_at`, `expires_at`, `user_id`. A request mints at most one token, so that token has the request's name |
| `users` | `users.is_active`, and deletion |
| `Login`, `Refuse`, `Present` | the door: password check, `decode_token` and its type and `exp` checks |
| `ReadToken`, `ReadUser` | `refresh_access_token.py:42-61`, the plain SELECTs |
| `Revoke`, `BeginCleanup`/`CleanupRow`/`EndCleanup`, `Insert` | the UPDATE by primary key, the DELETE of expired rows (row by row, since it takes its locks one by one), the INSERT under its foreign key |
| `Respond`, `Commit`, `Leave`, `Fail`, `Abandon` | `get_session`: commit, rollback, worker death |
| `SetActive`, `DeleteUser`, `DeleteToken` | the admin views, one transaction each |

Database: READ COMMITTED, the server's default, because the engine sets nothing
else. `Holds`, `WaitsFor`, `Deadlocked` are PostgreSQL's row locks, and
`BreakDeadlock` its detector. A transaction's uncommitted writes are not a
variable: they follow from where its request stands (`Revoked`, `Inserted`,
`deletes`), and `Commit` applies them, all in one step, since the server commits
a transaction as a whole: what `RotationAtomic` can catch is a write that escapes
a rollback, or one that is revoked too late, not half a COMMIT.

`RespondBeforeCommit`: `session.commit()` runs in the exit code of a `yield`
dependency. FastAPI runs that code before the response from 0.106 to 0.117 and
after it from 0.118 on; `pyproject.toml:12` allows both (`>=0.115`). Runs name
the order they assume; the theorems hold for both unless they say otherwise.

`EvaluateRaises`: `cleanup_expired` compares an aware column with a naive
datetime, and the ORM evaluates that criterion in Python on the spent token in
its session. With asyncpg that raises. Every other run sets it to FALSE (what
SQLite does). That loses no behaviour of the other setting as far as the tables
go: raising there is `Fail` at the same point, and those runs have `Faults` on.
It keeps the rest of the refresh in view.

`Serialised`: whether clients follow the contract's advice (docs/api-contract.md:262)
never to have two refreshes of one token under way.

An account that is deactivated after `ReadUser` still gets the pair its request
was about to mint, in the code as in the model; `UnavailableLocksOut` is about
refreshes sent afterwards.

Left out: the jti hash (tokens are their identity; the hash is a lookup key),
the access token of the pair (in `Directory`), the counters of
refreshes and sign-ins.

### Accounts

Addresses are pairs: what is left after case folding, and the spelling.
`Matches` is `lower(email) = ...` (`models/user.py:51`); `TakenKey` and
`PendingKey` are the unique index on the raw column (`models/user.py:26`), which
makes an INSERT wait for an uncommitted one of the same key. `Lookup`, `Insert`,
`Publish`, `Respond`, `Commit` are the steps of one registration, `Rename` and
`Delete` the admin edits. `late` is a history variable: registrations that were
sent for an address whose owner already knew it was theirs.

Left out: passwords, `full_name`, `is_active` (in `TokenRotation` and
`Directory`), the `seed` command (in `Directory`). Creating a user in the admin
interface is not an action because it cannot succeed: the form (`admin.py:29`) has no `hashed_password`, which is NOT NULL.

### RateLimit

A bucket is the set of requests it counts, whose times are in `hitAt`. `Hit` and `Stats` are the
two `run_in_threadpool` calls of `ratelimit.py:130-133` with what follows each;
`HitGlobal`/`StatsGlobal` are the router's dependency, `HitRoute`/`StatsRoute`
the route's. The client, storage and route of a request are fixed with its first
hit, as nothing shared happens before. `Counted`, `Used`,
`Admits`, `AfterHit`, `Remaining`, `ResetTime` stand for the `limits` library: a fixed window opens
with its first hit and counts refused requests as well; a moving window counts
the admitted ones and includes its far end. `Second` is the number of clock
ticks per second, so that `int(...)` has something to cut off.

`caller` is who a request really comes from and `client` the address it is
counted under, which `ResolveClientIp` finds in the header: `Forwarded` is what
arrives when every proxy appends the address it was called from, to the right of
whatever the caller wrote there itself (`Claims`). `Proxies` and
`TrustedProxyHops` agree, as `settings.py:35-37` demands. `HostOf` is the host of
the connection, `UnknownClient` if there is no peer (`NoPeer`, `net.py:42`). Over
TCP the server always reports one, so `PeerAssumption` says that callers have
one, and `OneBucketPerCaller` is about those; without a peer all share a bucket.

`BurstBound` is about one storage. With storage in memory every worker has its
own, so a client of N workers has N times the bound; the property does not say
otherwise.

Left out: the sliding-window strategy; storage failures, which are in
`RequestPipeline`. On a 429 of the route's limiter the headers are those of the
app-wide one, because `request.state.rate_limit` was written by it and the raise skips
the second write; the model shows it (`stash`), no property is about it.

### RequestPipeline, Worker, Health, EventBus

| Model | Code |
|---|---|
| `Stages` | what a route asks of a request, in the order FastAPI solves it: door (host, route, body), the router's and the route's rate limit, the account of the token, the use case, the event, the token pair; or the checks of a probe |
| `todo`, `pc` | what is left of them, and what the request is doing |
| `EarlyRefusals`, `LateRefusals`, `Refuse`, `RefuseHost` | the AppErrors, HTTPExceptions and validation errors of each stage, before and after it asked the database |
| `Break`, `PoolTimesOut` | an unreachable storage or database, a full pool, a subscriber that cannot be called: answered by the handler for `Exception`, which Starlette puts outside all middlewares |
| `StatementRaises`, `MayRaise` | what statements raise with both servers up, answered by the same handler: the duplicate INSERT of a registration, the stale UPDATE or the deadlock of a refresh, `MultipleResultsFound` of an address that finds two accounts, the `TypeError` of the cleanup's condition, an OFFSET too large for the database. Which request meets one is left open; `Accounts` and `TokenRotation` say when |
| `Stack`, `Passes` | the middlewares of `application.py:77-89`, outermost first: the last one added runs first. An answer made in one layer passes those outside it |
| `Return`, `Respond`, `Commit`, `CommitRaises`, `Unwind`, `End` | the way out: `get_session`'s COMMIT before or after the response (`order`), its rollback, the connection given back |
| `conn`, `PoolFull`, `Connect`, `DatabaseTurns` | the session's connection; an outage breaks those in use |
| `dbCheck`, `redisCheck`, `cut`, `CloseClient` | the two checks of `health/checks.py`; a PING that fails otherwise than by timeout closes the shared client, which takes the connections of all other PINGs |
| `task`, `Publish`, `HandlerEnds`, `Gathered`, `CanPublish` | `gather(..., return_exceptions=True)`; coroutines are built before `gather` sees them, so a subscriber that cannot be called (`Uncallable`) raises out of `publish` |
| `troubled` | history: requests that met an outage, a full pool or a cut PING |
| `clashed` | history: requests whose statement raised although the database answered it |

A server is up, down (it refuses, connections break) or hung (it accepts and
does not answer). The rate-limit storage is taken to be on the Redis server of
`REDIS_URL`, or in memory without one. Use cases return one event at most, so
`dispatch_events` is one publish.

`FaultsStayLocal` gives the causes a 5xx can have, and the routes on which each can
strike. It does not say that no request fails for another's sake: two requests
that need the same row, key or lock can cost one of them its answer (`clashed`),
and those that fill the pool can do so, too.

Two places where the code does less than its documents say are not claimed to
agree with them. A request answered by the handler for `Exception` carries no
`X-Request-ID` and is not logged by the middleware, although
docs/api-contract.md:207 promises both; `AnswersAreTraceable` speaks of the other
answers. `bus.py:66-67` promises that one broken subscriber cannot fail the
request; one whose signature does not fit can, and `FaultsStayLocal` lists it as a
cause. A third is the finding of run `probe_outage`: a probe whose SELECT is
cancelled or loses its connection is answered 500 when the COMMIT comes first.

Left out: worker death (in `TokenRotation` and `Accounts`); what use cases read
and write (there, too); the checks' error texts; `cache_*`, which nothing calls;
shutdown.

### Directory, Pagination

`status` and `supers` are the users table, accounts are numbered by
`created_at`. `Send` to `Turn` are the users API: `get_current_user` and
`require_superuser` read the row once (`Authorize`, `Forbid`, `Reject`), `Get`
finds the caller's own record in the session's identity map and others with a
SELECT, `Count` and `ListPage` are the two statements of a list, `Turn` is a
client that follows `has_next`, as docs/api-contract.md:71 tells it to. `SignIn`,
`Post`, `Authenticate`, `Edit` are the admin interface: `authenticate` reads
`is_superuser` in one session, sqladmin edits in another, with a form that may
have been opened any time before. `Appear` is the COMMIT of a registration or of
`seed`; since `created_at` is set before the COMMIT, accounts appear in any
order. The other variables are history: who had the rights a request needs since
it was sent, and what a walk of the list has missed and met.

`OnlyTheEntitled` and `EditorsHaveRights` bound how long lost rights last: as
long as the requests that are under way. `EditorsHaveRights` is about
`is_superuser` alone, since `admin_auth.py` never asks for `is_active`.

Left out: rows with equal `created_at` (the ORDER BY leaves their order open);
requests that fail altogether (in `RequestPipeline`); an admin edit is one
transaction, although sqladmin loads and flushes in two statements; `page` is
only ever the next one.

## 3. Runs

Passing runs:

| Run | Properties | What it shows |
|---|---|---|
| `rotation_race` | `TypeOK`, `ReplayRejected`, `RotationAtomic`, `GivenTokenStands`, `UnavailableLocksOut`, `NoOrphanRow`, `NeverRevived` | three concurrent requests of one account with faults, staff and expiry: rotation is atomic, replays and unavailable accounts are refused, no other request costs a client its token, rows never come back |
| `rotation_serial` | `SingleUse`, `ImplementsContract` | with clients that serialise their refreshes, a token is spent once and the statement-level model implements `SingleUseTokens` |
| `rotation_liveness` | `EveryRequestEnds` | with two tokens that expire between check and cleanup, deadlocks included, every refresh ends |
| `accounts` | `TypeOK`, `OnePerSpelling`, `LateDuplicateRefused`, `StoredIsAnnounced`, `OnlyStaffChangeAccounts` | registrations, faults and staff edits: keys unique, owned addresses refused in any spelling, accounts stable |
| `rate_limit` | `TypeOK`, `BurstBound`, `RefusedForCause`, `RemainingHonoured`, `RetryAfterNearlyHonoured`, `OneBucketPerCaller` | two callers behind two proxies, through a fixed window over a moving one: bursts bounded, refusals caused by admitted requests of the same client, the reported budget reliable, `Retry-After` short by no more than the rounding and the far end of a moving window, nobody counted under an address of their own making |
| `request_pipeline` | `TypeOK`, `AnswerMatchesDatabase`, `FaultsStayLocal`, `NoHandlerOutlivesItsRequest`, `ProbeTellsTheTruth`, `AnswersAreTraceable`, `RefusalsAreDocumented`, `RecoveryIsLasting`, `EveryRequestEnds` | any kind of request beside a probe, over servers that fail, hang and recover: answer and database agree, every 5xx has one of the known causes, a probe's 200 and 503 say what is so, once the last check of an outage is over no PING fails again, every request ends |
| `directory` | `TypeOK`, `OnlyTheEntitled`, `EditorsHaveRights`, `WalkMissesLittle`, `WalkRepeatsLittle`, `OwnRecordIsFound` | a client of the users API beside two admin sessions and registrations: rights are those of the moment, walks of the list miss and repeat only what rows that came and went explain |

Runs that find a disagreement between the code and its documentation
(`PROJECT.json`, "findings", quotes both sides):

| Run | Property | What it shows |
|---|---|---|
| `single_use_race` | `SingleUse` | two overlapping refreshes of one token are both answered 200. With `EvaluateRaises = FALSE`: on asyncpg the finding of `aware_timestamps` hides this behind a 500, on SQLite both answers are reached |
| `aware_timestamps` | `RefreshReturnsPair` | with aware timestamps from the driver, one undisturbed refresh is answered 500 |
| `accounts_race` | `OneAccountPerAddress` | two letter cases of one address registered at once both become accounts, after which neither can sign in; no staff (`SpecWithoutStaff`) is needed |
| `retry_after` | `RetryAfterHonoured` | a client that waits exactly `Retry-After` is refused again |
| `probe_outage` | `UnavailableIsSaid` | a readiness probe that finds the database gone is answered 500, not 503, when `get_session` commits before the response |

A replay sent after a 200 whose COMMIT is still to come (`RespondBeforeCommit`)
would get a second pair; that is why `ReplayIsRejected` assumes the other order.
No run reports it, because no supported set-up shows it today: it takes separate
transactions and a cleanup whose condition can be evaluated, and asyncpg lacks
the second, SQLite's one shared connection the first. It becomes real once the
comparison of `aware_timestamps` is repaired.

### Bounds

- Requests are one-shot, two to four per run. A violation of the rotation
  properties needs two refreshes of a token and a third request whose cleanup or
  minted token meets them; `rotation_race` has three. `accounts` needs two
  registrations that overlap and a late one. `rate_limit` has four requests,
  the number at which the bound 2*2-1 of a fixed window of two can be exceeded.
- `MaxTime` bounds the clock. In `rotation_race` and `rotation_liveness` tokens
  live one tick and the clock has two, so a token can expire between any two
  statements and be cleaned up by a third request. In `rate_limit` the
  app-wide window is two ticks long and the route's one, and the clock reaches 2:
  both end, and a refused client can come back after either. There `Second` is 1, so nothing is
  cut off `Retry-After`; run `retry_after` and theorem `RetriesAreAdmitted` cover that.
- In `request_pipeline` two requests share one connection, so that each can find
  the pool full because of the other, and both can be probes on the one client.
  The second is a probe; the first takes any of five routes that between them
  have every stage (`refresh`, `me` and `list_users` have no stage of their own).
  Two handlers, one event whose subscriber cannot be called, one that can. The
  theorems cover any routes, requests, handlers and pool sizes.
- In `directory` four accounts, two of them there at first, and pages of two: a
  page boundary can fall before and after every row that comes or goes, and a
  walk can have three pages. Two sessions, so that one can demote the other
  between its check and its edit. One caller, since callers share nothing but
  the table.
- In `rate_limit` headers with up to one forged entry behind two proxies.
- One user where interference between accounts only comes from the cleanup, which
  does not look at users; the theorems cover any number.
- `CHECK_DEADLOCK FALSE` everywhere: the requests are one-shot and the clock is
  bounded, so every behaviour stops once they are done. That no request gets
  stuck is `EveryRequestEnds`.
- Symmetry over interchangeable names, never in the liveness run.

### Fairness

`FairSpec` in `TokenRotation` is `WF_vars(Advance(r))` per request: the event
loop runs every ready task, the database answers a statement that waits for no
lock, and its detector breaks cycles. Weak fairness is enough because nothing
disables a request's step again and again: a lock is held by a transaction that
itself advances. Clients, staff, faults and the clock get no fairness.

`FairSpec` in `RequestPipeline` is the same per request. A step there waits for a
server that hangs, for a connection, for handlers or for the checks of a probe.
Nothing makes servers recover, hence the exception in `EveryRequestEnds` for a
request whose own next step needs one that hangs (`WaitsForHung`). Other
requests must end whatever hangs, and so must the checks of a probe, which have
their own timeouts; only its COMMIT or rollback is excused. A full pool needs no fairness of the pool's timeout,
since the requests that fill it end. Handlers are assumed to end; `publish` has no
timeout of its own. Weak fairness is enough because a step that a recovering
server disables (a timeout, a failure) is replaced by another of the same request,
and `Advance(r)` stays enabled.

## 4. Proofs

All theorems are for every value of the constants (any number of users,
requests, addresses), under the named assumptions of the modules, which only
separate names and bound modes and times.

`TokenRotationProofs`:

- `TypeCorrect`: `Spec => []TypeOK`.
- `RotationInvariant`, from which `AtomicRotation`: `RotationAtomic` is not
  inductive. `Commit` stores the minted token as "live" and the presented one as
  "revoked", so one has to know that these differ and that the COMMIT happens
  once; otherwise a COMMIT could bring a spent row back as "live". `RotationInv`
  adds that the row of a minted token exists only after its request's COMMIT,
  that a request past its SELECT presents a token whose own COMMIT is over, and
  that a committed request has no write left to do.
- `ReplayIsRejected`, assuming `~RespondBeforeCommit`: `ReplayInv` says that
  every answered or answering request has committed, and every replay is doomed:
  it is before its SELECT while the presented row is not live, or it is over. The
  lemma `LiveRowIsNew` shows that no step makes a spent row live again. Without
  the assumption the claim is false of the model: the replay may reach its SELECT
  before the COMMIT (see section 3 on when the code does so).

`TokenLocksProofs`:

- `RowLocksExclude`: no two open transactions have written the same row, and a
  row stays in its table while one has it. `LockInv` contains `RotationInv` and what
  open transactions have deleted. Locks are not a variable: they follow from where
  requests stand, so the proof is about every way a request gets on.
- `TokensStayDead`: `NeverRevived`, for any step. A COMMIT writes "live" into the
  row of its own minted token only, which did not exist before.
- `NoOrphans`: `NoOrphanRow` is not inductive, since a request that has inserted
  its row commits it later. `OrphanInv` adds that the account of such a request
  exists: its INSERT holds the foreign key's lock on it. `OwnersKnown` says whose
  account that is.
- `CommittedTokenStands` and, assuming `~RespondBeforeCommit`, `GivenTokenIsKept`
  (`GivenTokenStands`). `CleanupInv` says that a cleanup has only deleted rows
  that had expired, `StandsInv` that a committed, unspent and unexpired token has
  its row. A client that is answered before the COMMIT may hold a token whose
  COMMIT fails, hence the assumption.
- `UnavailableStaysOut`: `LockedOutInv` says that a refresh sent while its
  account was unavailable has its account still to read, or is refused.

`TokenContractProofs`, assuming `Serialised` and `~RespondBeforeCommit`, which is
what run `rotation_serial` checks a small instance of:

- `SerialisedSingleUse`: at most one refresh of a token is answered 200.
  `single_use_race` shows that it is false without `Serialised`.
- `ContractImplemented`: `ImplementsContract`. Initial states map to initial
  states. The COMMIT of a login is `Issue`, that of a refresh `Rotate`, with the
  rows its cleanup deleted; an edit of staff is `Withdraw`; every other statement,
  lock wait, rollback or death of a worker is a stutter.

`AccountsProofs`: `AccountsTypeCorrect`, `AccountsInvariant` and its four
consequences. `OnePerSpelling` needs `Keys`: a registration between INSERT and
COMMIT owns its key although no row is visible; otherwise `Commit` could collide
with a staff rename. `LateDuplicateRefused` needs `LateInv`: as long as a late
registration has its lookup to do, the lookup will find a row. `Order` connects
a registration's place with what it wrote, and gives that a COMMIT never
overwrites a row. `AccountsAreStable` is an action property from the same
invariant.

`RequestPipelineProofs`: all safety properties of `request_pipeline`, for any
number of requests, any routes, handlers and pool size, in both orders of COMMIT
and response. None is inductive. `Inv(r)` says of one request: how much of its
route is left and what it holds (`Way`), that it was answered exactly when it
should have been (`Told`), that its status and layer fit its route (`Decided`,
`Traced`), that a 5xx has one of the causes of `FaultsStayLocal` and a lost connection its
cause in `troubled` (`Faults`, `Excused`), that checks run only while it waits for them (`Checking`), that what
is stored fits where it stands (`Written`) and that a probe's answer fits its
checks (`Probed`). `OthersKeep` shows that a request's steps disturb no other
request's part, `ServersInv` does it for servers that turn; what remains is one
lemma per action about the request's own part. `RecoveryLasts` needs no
invariant but the types: with Redis up and nothing cut or closing, no step cuts a
PING.

`DirectoryProofs`: all safety properties of `directory`, for any finite set of
accounts, any clients and page size. `HasNextIsExact` is the arithmetic:
`has_next` is true exactly when the total goes beyond the page, by the division
theorem. `WalksMissLittle` rests on an invariant about the rank of a row: what a
walk has not listed yet and is not excused has more than `(page - 1) * PageSize`
rows in front of it, itself included, which a page SELECT and a COUNT preserve
when nothing younger leaves or appears. `WalksRepeatLittle` is its mirror image:
rows already listed stay in front of the next page.

`RateLimitProofs`: all properties of `rate_limit`, for any callers, proxies,
storages, amounts, windows and either strategy of each limiter.

- `BucketsAreCallers`, from `CallerIsResolved`: the entry that the outermost
  trusted proxy wrote is the caller, whatever stands to its left. It needs
  `PeerAssumption`.
- `StepKinds` reduces the actions to two: a hit of one limiter (`HitStep`) and a
  step that leaves storage and history of hits alone (`QuietStep`). All that
  follows is about these.
- `RateLimitTypes`: `TypeOK` is not inductive, as the end of a window comes from
  the storage. `BookInv` adds what the books agree on: a bucket holds requests
  that were hit, under its own key, at times not after the clock.
- `BurstsBounded` and `RefusalsHaveCause` rest on `StoreInv`, which connects a
  bucket with the history of admissions. `MovingBook`: a bucket has at most the
  amount, all of them admitted, and those it has dropped are out of reach.
  `FixedBook`: a window was opened by an admitted request, holds at most the
  amount of them, and that many if it holds a refused one; less than an amount of
  what earlier windows admitted is still in reach, because the request that
  opened the last window was not when this one opened. Hence twice the amount less
  one.
- `BudgetsAreHonoured` is an action property: `BudgetInv` says that a client that
  was told that something remains, and has not been counted since, finds room.
- `RetriesAreAdmitted`: `WindowInv`, `KeptInv`, `FullInv`, `LastInv`, `ReturnInv`
  follow a refused client from its refusal to its next hit: the window it was
  refused in, the bucket it was told about, that nobody else was counted under
  its key since, and so that there is room when it comes back (`RoomOnReturn`).
  `ComeBackEnough` is the arithmetic of `int(...)`. Waiting for what the header
  says is too short (`retry_after`); the theorem says by how much: less than a
  second, and for a moving window one more tick, its far end being included.

Only model-checked: `EveryRequestEnds`, in both modules, as liveness under
fairness is outside what the prover handles. Every other property of a passing
run is a theorem. Of the properties of the runs that find a disagreement,
`SingleUse` is a theorem under the hypotheses that `single_use_race` shows to be
needed; the others are false of the code.

## 5. Plan

Done: `TokenRotation` with `SingleUseTokens`, `Accounts`, `RateLimit` with
`ClientAddress`, `RequestPipeline` with `Worker`, `Health` and `EventBus`,
`Directory` with `Pagination`, and the proofs of section 4. What is left, in
order of importance:

1. The sliding-window strategy in `RateLimit`.
2. Ties of `created_at` in `Directory`.

### Not modelled

- TaskIQ tasks, broker, scheduler and e-mail: the one task wraps a synchronous
  SMTP call, nothing in the code enqueues it, and delivery belongs to TaskIQ.
- The life cycle: one sequence at start-up and one at shutdown, when the server
  has ended its requests. What `create_app` sets up is in `RequestPipeline`.
- The SQLite set-up (`engine.py:15-19`), where all sessions share one connection
  and so one transaction; tests and development only.
- The cache helpers, i18n: nothing calls them.
- The fields and formats of bodies, schemas and examples; settings,
  observability, code generation and migrations: no state that events race on.
