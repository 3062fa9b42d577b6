# Verification of the auth service

TLA+ models, TLC runs and TLAPS proofs for the Go authentication service in this
repository: accounts, refresh token rotation, the brute-force lock, the admin
bootstrap of concurrent pods, the Redis rate limiter, the cached read path with its
threat summaries, and the pipeline that migrates and deploys the service.

    tlc -workers 2 -config rotation.cfg MCAuthService.tla
    tlapm AuthServiceProofs.tla

`PROJECT.json` lists components, runs, mutants (one for each property: a plausible
bug the property catches), the source lines of every definition, findings, hazards
and theorems.

## 1. Inventory

| Component (source) | State | Operations | Hard behaviour | Correct means |
|---|---|---|---|---|
| Repositories (`internal/repository`) | tables `users`, `refresh_tokens`, `login_attempts`, `audit_events` | one SQL statement each | statements of requests interleave; a statement fails, or commits and reports failure | UNIQUE email; rows never deleted |
| Auth service (`internal/service/auth_service.go`, `internal/handler`) | none of its own | Register, Login, Refresh, Logout | each is 2 to 4 statements without a transaction | rotation is bounded, a spent token stays spent, a lock is bounded and ends, a confirmed account keeps its password |
| Bootstrap, start-up, shutdown (`internal/bootstrap`, `cmd/api`, `internal/server`) | how far the pod is | EnsureAdmin, Run, Shutdown | pods race each other and registrations; a pod dies between statements | a pod given an administrator serves only when there is one; requests end and pods come up |
| Rate limiter (`pkg/ratelimit`, `middleware/ratelimit.go`, `brute_force.go`) | one Redis hash per key | Allow | the pod's clock is read before the script runs; eviction, expiry, resent calls, outages | admissions stay within burst and refill |
| Response cache (`middleware/response_cache.go`, `pkg/cache`) | Redis keys `cache:GET:*` | look-up, store | the read and the store are apart; eviction | no data of others, bounded age, no cached failures |
| Threat summary (`service/threat_service.go`, `pkg/llm`) | Redis keys `threat:summary:*` | SummarizeUser | the model is slow and fails; a stop cuts it off; lists are cut by a limit | as above; failures are its own; the window tells how far the summary looked |
| Middleware chain (`internal/router`, `internal/middleware`) | the request's context | Recovery, RequestLogger, Audit, Auth, RequireRole, RateLimitByRole | order of registration decides; panics unwind it; the limiter fails open | no answer goes round the limiter; every request leaves through Audit (a panic does not: a finding) |
| Audit trail (`middleware/audit.go`) | `audit_events` | one INSERT per request | written after the handler, best effort | every non-probe request has its row |
| JWT service | none | sign, parse | the role in a token is a copy | the role claimed is covered by the row |
| Probes (`/livez`, `/readyz`) | none | ping Postgres and Redis | readiness depends on Redis, which the handlers can do without | the Service has an endpoint again after an outage |
| Pipeline (`.github/workflows/build-and-deploy.yml`, `k8s/production/jobs`) | stage of each push, the migrate Job, the version table | build, migrate, deploy, run again | pushes overlap, builds overtake one another, a job of an older push is run again, a timed-out Job goes on, a migrator dies in the middle of a file | the version table is true, an image is deployed behind its migrations, pushes end |
| Rollout (`k8s/production/deployment.yaml`, `cmd/api/main.go`) | pods of each image, ready or not | rolling update, start, probe | broken image, faulty ConfigMap, outage or lost pod in the middle of it | no pod runs ahead of its schema; endpoints return |
| Configuration (`config/config.go`, `k8s/production/configmap.yaml`) | none | Load | a lost setting falls back to a development default, a garbled number to zero | a pod that serves was given what it needs |
| Logger, request logger, hash, swagger | - | - | output or pure functions | - |

How they interact. An HTTP request is a goroutine of one pod. It runs down the
middleware chain into a handler, which calls a service, which runs SQL statements;
nothing larger than a statement is atomic and no request holds a lock. Pods share
Postgres and Redis and nothing else. Requests influence one another only through
rows and keys. The client, the database's and Redis' failures, the model behind
`pkg/llm` and Kubernetes are the environment. Between pods of different releases there
is one more interaction: a push changes the ConfigMap, then the schema, then the
image, while pods of earlier images run on.

## 2. Modules

| Module | Models | Builds on |
|---|---|---|
| `Repositories` | the three tables and the statements run on them | |
| `AuthService` | Register, Login, Refresh, Logout, one action per statement | `Repositories` |
| `Sessions` | what the API promises of accounts and refresh tokens, abstractly | |
| `AuthProperties` | properties of `AuthService` and the invariants behind them | `AuthService`, instantiates `Sessions` |
| `AuthSystem` | pods around the service: bootstrap, serve, drain, die | `AuthProperties` |
| `TokenBucket` | what a rate limit promises, abstractly: a bucket whose requests may be off by `Drift` | |
| `RedisLimiter` | `redis_limiter.go`, for one key | instantiates `TokenBucket` |
| `ReadPath` | the authenticated GETs: chain, two caches, handlers, and the end of a pod under them | |
| `ThreatWindow` | the window of a threat summary, as operators on rows and lists | `ReadPath` |
| `Config` | what `Load` makes of the ConfigMap and the Secret | |
| `Pipeline` | the workflow of concurrent pushes, the migrate Job and golang-migrate | |
| `Release` | what the pipeline promises of the cluster, abstractly | |
| `Rollout` | the production Deployment, its pods from start to readiness, outages | `Pipeline`, `Config`, instantiates `Release` |
| `MC...` | values for the runs | the module they name |
| `AuthServiceProofs`, `LockProofs`, `AccountProofs`, `AuthSystemProofs`, `LimiterProofs`, `ReadPathProofs`, `ThreatWindowProofs`, `DeliveryProofs` | theorems | the module they are about |

Operators whose comment begins with "Variation:" are not part of any
specification. Each is a plausible bug in the operator that follows it and
is what the mutants of `PROJECT.json` put in its place.

### Repositories and AuthService

A statement is one action; what the code does between two statements is part of
the earlier one. `pc[r]` is the statement request `r` runs next, `acct`, `pw`,
`tok` and `role` are the local variables that survive from one statement to the
next, and `resp` is the code `respondError` reports. A slot `r` is used again when
its request has ended, so any number of requests follow one another while no more
than `Reqs` run at a time.

| Code | Actions |
|---|---|
| `Register` | `RegisterFind` (FindByEmail), `RegisterCreate` (INSERT) |
| `Login` | `LoginCount`, `LoginFind`, then `LoginFail`, or `LoginOK` and `Issue` |
| `Refresh` | `RefreshFind`, `RefreshUser`, `RefreshRevoke`, `Issue` |
| `Logout` | `LogoutFind`, `LogoutRevoke` |
| a dying process | `Crash` |
| `EnsureAdmin` of some pod | `Bootstrap` (refined by `AuthSystem`) |

Faults are chosen per run: `error` (a statement without effect), `lostAck` (it
committed, the caller saw an error), `crash`. Two variables are about clients and history: `held`,
the account as which a client holds a refresh token, if one does, and `lineage`, which
token was paid for with which; only `held` is read by an action, to enumerate what a
client can present.

Data. A user is its email. A token's id, hash and string are one value. A stored
hash is the password it was made from; `Unhashable` are the passwords of more than 72
bytes, which bcrypt refuses to hash although `dto.go` lets them through: registering with
one ends in INTERNAL before any INSERT, and a bootstrap with one fails at every start.
(That bcrypt compares no more than 72 bytes at a login is left out.) Time is relative: `left` until expiry
(liveness includes 0, because the code asks `After`), `age` since creation
(counted up to and including `Window`, because the query asks `>=`). Rows age on one clock;
the code compares them with each pod's `time.Now`, so that pods whose clocks are apart
see a row by that much older or younger than the model does.

`Sessions` is the same service without statements, tables or faults. An account is
made once and after that only promoted (`Join`, `Promote`). A token is given once, to
an account, at a login (`Open`) or for another token (`Exchange`). Whoever is to
exchange a token must have come while it was usable (`Come`), leaves with one
successor, of the same account, and not before the token is used up. The mapping takes
for usable what is neither revoked nor expired, and for the buyers of a token the
requests between `RefreshFind` and their end. The promise of `auth_handler.go:80`, one
successor per token, is *not* in `Sessions`, since the code does not keep it; what
`Sessions` grants is one for each of those who came in time.

### AuthSystem

`pod[p]` goes from `down` through the statements of `EnsureAdmin` (`find`,
`create`, `promote`) to `serving`, then `draining` after SIGTERM, and back; any
error of the bootstrap is `failed`, the exit with status 1. A pod whose environment
names no administrator serves as `unseeded`; which of the two a start is, is left open,
because the Secret behind the environment may be edited between the starts of two
pods. A draining pod ends when its requests have (`PodDrained`), when the 10 s of
Shutdown run out (`ShutdownTimesOut`: `Run` returns an error and the process exits with
what is left), or at any time (`PodDies`). The last two are `AuthService!Crash` of the
requests it hosts.

### RedisLimiter

One key. Levels are counted in units of what one tick refills, so a token is worth
`Cost = 1000 / ratePerSec` of them and all arithmetic is exact. Fractions of a unit
(a rate that is no divisor of 1000, floating point in Lua) are not modelled. `Allow`
reads the pod's clock, `Script` runs atomically up to `MaxDelay` later, with that
reading. `MaxDelay` is a bound of the instance, not of the code: dialling for 3 s, reading
for 500 ms and retrying, go-redis may run a script well past the 1000 ms of slack in
its PEXPIRE, and no property assumes that it does not. Redis expires by its own clock. History variables: `taken`, `first`,
`latest`, and `gift`, what was refilled for time that had not passed.

`TokenBucket` knows no hash, no stamps and no expiry. A request finds the level off by
no more than `Drift` and leaves it off by no more than `Drift` below and twice that
above (`Leaves`). `RedisLimiter` implements it with a `Drift` of
`MaxDelay + Spread`, where `Spread` bounds the offset of a pod's clock from that of
Redis. With a `Drift` of zero and no faults it is the textbook bucket.

### ReadPath

A request's context goes through `limit`, `cache`, `read` or
`user`/`signals`/`generate`, `set`, `audit`. Auth and RequireRole depend on the
access token alone and are part of the request's arrival: a bearer token is its claims,
whether it is signed and whether it is expired. A body is what it is
about and its age; rows may change at any time, so age is all that can be said of
how current an answer is. The verdict of the limiter is free here and that of
`RedisLimiter` there; `charge` says whether it took a token or, with Redis out of reach, let
the request pass for nothing.

`Cut` is the end of a pod under a request, in an orderly stop after 10 s or at once.
How long a stop has been going on is not in this module.

### ThreatWindow

A row is its time; `Listings(table, limit)` is the set of lists that
`ORDER BY created_at DESC LIMIT limit` may return, rows of one time in any order.
`Earliest` takes the last of each list, as `earliest` does.

### Config, Pipeline and Rollout

`Config` is data: the defaults, the ConfigMap of production, the Secret laid over it,
and `Load` with its conversions: a number or duration that cannot be read becomes zero. A
faulty ConfigMap is one that has lost the settings `Dropped` and garbled the settings
`Garbled`; the run drops `REDIS_HOST`, which `Load` then silently takes for `localhost`, and
garbles `REDIS_DB`, which does no harm.

`stage[c]` is how far the workflow of push `c` has come. The three jobs are ordered by
`needs`, the concurrency groups of migrate and deploy run one job at a time and hold one
that waits, which a later one cancels. What has ended can be run again (`Rerun`): from its
build, from migrate once there is an image, from deploy once its migrations ran
("so a deploy retry doesn't rebuild", README.md:378). So an older push can be deployed
after a newer one, onto a newer schema; its migrate job then fails, since golang-migrate
knows no file for the version it finds, but its deploy job does not ask. `migrator[c]` is the container of its migrate Job:
it takes golang-migrate's advisory lock, reads the version once, and for each file
notes the version as dirty, runs the file and notes it as clean. A Job that is deleted or
killed loses its session and with it the lock, its file committed or not.
`table` is what golang-migrate writes, `schema` (history) what the database has.

| Code | Actions |
|---|---|
| jobs test and build | `Push`, `Build` |
| "Re-run jobs" | `Rerun` |
| job migrate | `MigrateStarts` (the ConfigMap is applied here), `JobCreated`, `JobComplete`, `WaitTimesOut` |
| job deploy | `DeployQueued`, `DeployStarts`, `ManifestsApplied` |
| a failing step or runner, in any of the two | `JobFails`, with what it had applied by then |
| golang-migrate | `Locks`, `Reads`, `Begins`, `FileDone`, `FileFails`, `Finishes`, `MigratorDies` |
| main up to `server.Run` | `Boot`, with `Load`, `OpensDatabase`, `OpensRedis`, `Listens` |
| `/readyz` and the kubelet | `Readyz`, `Probed` |
| the Deployment's controller | `ScaleUp`, `ScaleDown`, `Drained` |
| the environment | `Outage`; `PodLost`: node, memory limit, liveness probe or exit |

`Release` knows no pushes, jobs or migrators. The schema grows by one migration at a
time (`Migrate`), a deployment needs no more of them than the schema has (`Deploy`), and pods
run what was deployed (`PodStarts`, `PodsGone`).
`Rollout` implements it, with a release known by the last migration it needs.

Which strategy is modelled. README.md:70 says of rollouts that they use `Recreate`, with 15
to 30 s without a pod. Only the manifest of staging does. `Rollout` models
`k8s/production/deployment.yaml`, which names no strategy, so that the default
RollingUpdate applies; with one replica that is one pod more and none fewer. No property
says that a rollout keeps an endpoint: besides a dependency that does not answer, a pod
is lost with its node, over its memory limit (256Mi), to its liveness probe or because
the process exits. `EndpointsReturn` says that there is one again. It would not hold of
`Recreate`, under which an image that does not start leaves no pod of the one before (this
is the variation `ScaleDownFirst`).

## 3. Runs

| Run | Shows | Bounds |
|---|---|---|
| `rotation` | `RotationBound`, `LineageSound`, `SpentStaysSpent`, `DeliveredTokensBacked`, `RequestsSound`, `TypeOK`, and `AuthService` implements `Sessions` | 2 requests, 4 tokens, 2 accounts, no registration, failing and unacknowledged statements, dying processes |
| `lockout` | `FailuresBounded`, `LockExpires`, `LockedStaysQuiet` | 2 requests at a time, logins and the registration of the account they name, limit 1, window 1, right and wrong password, failing statements, dying processes |
| `accounts` | `AdminReady`, `CreatedAccountHoldsPassword`, `ConfirmedOnce`, `RoleClaimCovered`, `SysTypeOK`, and `AuthSystem` implements `AuthService` | 2 pods, 1 request each, the admin's address free or registered, a password bcrypt refuses, all faults |
| `progress` | `RequestsEnd`, `PodsComeUp`, `InternalTells`, `FailedBootsLeaveAccount` | 2 pods, 1 request each, an empty database, every statement takes effect but its acknowledgement may be lost, Register, Login and Refresh (Logout has no loop and no wait the others lack) |
| `limiter` | `Conservation` (with `AdmissionsBounded`), `GiftsExplained`, `LimiterTypeOK`, and the hash implements `TokenBucket` | 2 calls at a time, 5 in all, 10 ticks, slack 2, delay 2, clocks 1 apart (so that a call may run later than the slack covers), all faults |
| `read_path` | `AnswersBelong`, `AnswersFresh`, `FailuresAreOwn`, `HitsAreCharged`, `SummariesTellTheirWindow`, `PathTypeOK` | 2 requests at a time, pods that end under them, a viewer and an admin, entries live 1 tick, handling takes 1, all failures; six rows at three times, limits 2 and 1 |
| `delivery` | `TableTellsSchema`, `SchemaCoversPods`, `EndpointsReturn`, `PushesEnd`, `RolloutTypeOK`, and `Rollout` implements `Release` | 2 runs of the workflow after the first release, of pushes (with two migrations and one) or of jobs run again, every mishap, each push sound, with a broken image or with a faulty ConfigMap, outages without bound, 1 lost pod |

Five runs end in a violation. Each checks one thing the repository says of the code
and shows a behaviour in which the code does otherwise:

| Run | The repository says | The code does |
|---|---|---|
| `double_rotation` | "The previous refresh token is invalidated on success" (`auth_handler.go:80`) | `revoked_at` is checked and set in two statements: two requests each get a successor |
| `register_race` | `409 "email already taken"` (`auth_handler.go:31`) | the loser of two registrations violates the UNIQUE index and is answered 500 |
| `boot_race` | "idempotent: safe to run on every startup" (`bootstrap.go:35`) | the second of two bootstrapping pods fails to insert and exits |
| `limiter_late` | "without letting sustained traffic exceed perMinute" (`middleware/ratelimit.go:24`) | `ts` is set back by a script that runs late, and time is refilled twice |
| `read_panic` | "every non-probe request written to `audit_events`" (`README.md:106`) | `Audit` does not defer its write, and a panic passes it |

The passing runs state what remains true: however many pass the check, one token
has no more successors than there are concurrent requests, and none once the last
holder is done; of two registrations one is confirmed, and the 500 of the other means that
the address has its account (unless bcrypt refused the password); the loser of the boot race leaves an account that its next
start finds; admissions
exceed the quota by no more than the gifts accounted for, each of which has one of three
causes and a bound (`GiftsExplained`); what leaves past `Audit`, or is
cut off by a stop, still answers nobody with another's data.

What the runs taught about the system, beside the findings:

* An older commit may be deployed last: when its build is overtaken and the migrations are
  equal, or when the deploy job of an older push is run again, then also onto a
  schema with migrations it does not know. What holds is the other direction:
  no image is deployed or runs ahead of its migrations (`SchemaCoversPods`,
  `ImplementsRelease`).
* INTERNAL tells a client less than one might think. After a refresh its token is used up;
  after a registration the address has an account, unless the password was too long for
  bcrypt; after a login whose token was stored without acknowledgement nothing is
  known but that the account exists, and the login has to be repeated.
* `EndpointsReturn` needs its conditions. Two broken releases and an outage in between
  remove the last good pod: while Redis is down no pod is ready, and a pod that is not
  ready goes to make room for the newest image. A faulty ConfigMap is in force as
  soon as the migrate job begins, and every pod that restarts reads it.
* Limiter and caches fail open, but `/readyz` and the start of a pod ask Redis: an outage
  of Redis alone takes every pod out of the Service. A request that finds the limiter
  unreachable and the cache back is a hit that no token paid for: `HitsAreCharged` says
  that each hit was either charged or let through by the fail-open branch.
* The 10 s of Shutdown are less than the model's 60 s: a summary does not survive a
  stop, and leaves no audit event. (`pkg/llm/ollama.go:32` speaks of 30 s; `config.go:128`
  has 60 s.)
* The `since` of a window is the oldest row in either list, so with one list at its
  limit it may lie before rows of that table that the summary has not seen.
  `SummariesTellTheirWindow` says what remains: rows from before `since` are missed only at a limit.


Bounds. Two requests are what every check-then-act pair needs, and the rotation
run has a token more than two requests can need at once, so chains of three
generations appear. Its `VIEW` leaves out the parameters and the answer of a request
that has ended: `Arrive` overwrites them, and no property of that run reads them.
`accounts`, whose properties are about answers, has no view. Ids are given out only while enough remain for the requests
under way (`SpareToken`, `SpareAttempt`), so no request is stopped half-way by a
bound. An attempt row that has left the window may be used again (`UnusedAttempts`),
so `lockout` runs for ever on three rows. Lifetimes of one tick make every boundary
fall inside a request. `Horizon`, `MaxCalls` and `MaxDelay` stop the limiter's clock and
callers, which is why its runs do not check for deadlock; all others do. Within
10 ticks a bucket of three tokens is emptied, refilled, dropped and filled again, and
five calls overlap in every order.
In `delivery`, `MaxRuns = 2` counts runs of the workflow, for a push or again: two are what
a group needs to run one and cancel or overtake another, and what it takes to
deploy the first release again after a push has been migrated and deployed; two migrations in
one push let a migrator die between files as well as in one. Symmetry
is declared for sets whose elements the specification never tells apart, and
only in runs without liveness; what such a run checks over several states are action
properties and refinements of safety specifications, which tell them apart no more.

The theorems of section 4 hold without these bounds. Where a property is proved, the
run is there to check the model and the mutants.

Fairness. `Fairness` and `SysFairness` are weak: a goroutine whose process lives is scheduled
(Go's scheduler; the database answers or the driver reports an error), time passes, Kubernetes restarts
an exited pod of a Deployment, and a draining server is told of its last
request. `RolloutFairness` is weak too: GitHub's runners and the containers of a Job
go on, the kubelet starts and probes pods, the controller reconciles. None is assumed of
pushes, of re-runs, of mishaps, or of the end of an outage; `EndpointsReturn` asks for the calm it
needs in its premise. No fairness is assumed of clients, of faults, or of stops. `LockExpires` therefore holds under
clients that never stop trying.

## 4. Proofs

All theorems hold for every value of the constants that meets the named assumptions
(`ASSUME ...` of the modules): finite sets of requests, tokens and attempts; types
of the configured numbers; distinct null values. TLC evaluates the assumptions in every run.

* `AuthServiceProofs`. `TypeCorrect`. Then the invariant `RotationInv == TypeOK /\
  RequestsSound /\ LineageSound /\ RotationBound`. `LineageSound` is not inductive
  alone: `Issue` makes a child of `tok[r]` and needs to know that this row exists, is
  revoked and belongs to `acct[r]`, which is what `RequestsSound` says of a request
  that has come so far. `RotationBound` counts children and holders together
  because `Issue` turns a holder into a child and `RefreshFind` adds a holder only
  while the token is live. When it is, no child exists (`LineageSound`), and the
  holders are requests. Results: `RequestsStaySound`, `RotationIsBounded`,
  `LineageStaysSound`, `SpentTokensStaySpent` (an action property from the same
  invariant), and `SequentialRotation`: with one request at a time `SingleRotation`
  does hold, so the finding is one of interleaving only.
* `LockProofs`: `FailuresStayBounded`, again by counting the recorded failures
  together with the logins that may still record one. `LockedAccountsStayQuiet`, from
  the same two step lemmas: a locked account admits no login to that number, and only
  those in it record a failure, so once it is empty the failures only age out. That is
  the safety core of `LockExpires`; what remains for TLC is that time passes.
* `AccountProofs`: `ConfirmedAccountsHold`, `RoleClaimsCovered`,
  `DeliveredTokensAreBacked`, over an invariant with `ClaimSound`: the role a request
  will claim is covered from the moment it is read. `AccountsConfirmedOnce`: a request
  is confirmed by a step that finds no row, and one that was confirmed before has left
  one. `InternalErrorsTell`, over `InternalSound`: accounts stay and revoked tokens
  stay revoked (`UsersKept`, `RowsKept`), so what was so when the error was answered
  is so for good.
* `ServiceKeepsSessions`, in `AccountProofs` too, is the refinement of `Sessions`. The invariant is
  `AccountInv` and `RotationInv` together. Of the steps, `RefreshFind` is `Come`, `Issue` is `Open`
  or `Exchange`, `RegisterCreate` and the bootstrap are `Join` and `Promote`, and all
  others, crashes and the passing of time included, are `Wane`. `Exchange` asks for a
  token that is used up and a successor of its owner, which `RequestsSound` has of a
  request at `Issue`; `Open` for an account that exists, which is `ClaimSound`; and that
  a fresh token has no successor or predecessor yet, which is `LineageSound`.
* `AuthSystemProofs`: from `SysInv`, `ServingPodsHaveAdmin` and `SystemTypeCorrect`;
  and `SystemImplementsService`: each pod step is a step of `AuthService` or a stutter.
  Hence the theorems about the service are theorems about the deployment:
  `DeploymentKeepsSessions`, `DeploymentSpendsTokens`, `DeploymentBoundsFailures`,
  `DeploymentConfirmsOnce`. `FailedBootsLeaveAccounts`: the loser of the boot race leaves
  the account its successor finds.
* `LimiterProofs`: `LimiterTypeCorrect`; `AdmissionsStayBounded` from `Conservation`
  (level plus taken is at most a burst, the time passed and the gifts);
  `LimiterIsTokenBucket`, the refinement, for every delay, clock offset and fault. It
  rests on `LagInv`: a call's stamp is within its delay and the spread of the time, and
  a hash lives until its bucket has had the time to fill up, and the slack. From the
  same invariant `GiftsAreExplained`, which assumes nothing of the delays: a key that
  PEXPIRE drops gives back no more than the call's own delay and two offsets exceed the
  slack by, hence nothing while the 1000 ms of the script cover them
  (`IdleKeyGivesLittle`).
* `ReadPathProofs`: `AnswersStayHome`, `AnswersStayFresh` and `PathTypeCorrect`
  from `PathInv`: an entry
  is about its key, and its body's age and remaining lifetime together stay within
  one lifetime and one request (`EntrySound`); a context under way is entitled to
  its route and holds an answer to its own question (`Sound`).
  `FailuresStayOwn` and `AnswersAreCharged` from `FairInv`: no entry holds anything but
  a 200, and a request has been to the limiter, and was charged unless Redis was out of
  reach, before it comes to a cache.
* `ThreatWindowProofs`: `SummariesTell`, for any rows and limits: the last of a list in
  descending order is its minimum, and a list that is not full has the whole table.
* `DeliveryProofs`: `DeliveryTypeCorrect`, `TableStaysTrue`, `PodsHaveTheirSchema`,
  and `RolloutImplementsRelease`, the refinement of `Release`. `TableTellsSchema` is not inductive
  alone: `MigrationInv` adds that a migrator between its read and its end holds the lock
  and believes what the table says, and that what has come to the deploy job, or has ended in it and may be
  deployed again, has its migrations.

Four theorems say under which circumstances a promise that a violation run refutes is
kept, for every value of the other constants, and so what the finding needs:

| Theorem | Promise of | Holds where |
|---|---|---|
| `SequentialRotation` | `double_rotation` | requests run one at a time |
| `SequentialRegistration` | `register_race` | requests run one at a time, no administrator is bootstrapped, and the only fault is a dying process |
| `LonePodBootsSafely` | `boot_race` | there is one pod, and the only fault is a dying process |
| `SustainedInStep` | `limiter_late` | scripts run at the time they are given, on one clock, and Redis evicts nothing (replies may be lost, Redis may be down) |

Only model-checked: liveness (`LockExpires`, `RequestsEnd`, `PodsComeUp`,
`EndpointsReturn`, `PushesEnd`), which needs fairness and ENABLED and is out of the
prover's reach. What is proved of three of them is the safety they rest on.
`LockedAccountsStayQuiet` is said above. `RequestsMoveOn`: each statement leaves its
request with fewer statements to go (`Left`, at most four) and nothing else gives it more.
`PushesMoveOn`: a push only advances (`Turn`) until it is run again, and one that waits for its migrations
has a migrator that runs or has ended. TLC adds that the next step comes. The
counterexamples are TLC's too. Every invariant, action property and refinement that a
passing run checks is also a theorem.

## 5. Not modelled, and why

* Text: prompts, JSON, log lines, messages; generated API documentation.
* Cryptography: bcrypt, SHA-256 and JWT signatures are taken to do what they promise.
  The age of an access token (15 minutes) is not tracked: a bearer token may be expired
  or not, and claims keep their role until then, also after a promotion.
* Floating point in the limiter's script (see above).
* IP addresses, so `LoginRateLimit` appears only as a use of `RedisLimiter`.
* Database isolation: every statement is its own transaction, as in the code, and
  sees all committed ones (a single Postgres instance).
* Rows of `audit_events`: whether the best-effort INSERT succeeds, and which requests
  `shouldRecord` leaves out, changes nothing that is read but the summaries, and
  `ThreatWindow` takes any rows. That a request passes `Audit` is in `ReadPath`.
* The number of model calls under way, and what is admitted while Redis is down: the code
  bounds neither, on purpose (hazards without a property).
* How long an orderly stop lets a request run (10 s, and 5 s for a connection that has not
  brought one): a request may be cut off at any time. Nor is the time between SIGTERM and
  the closed listener, in which Kubernetes may still route to the pod.
* Rebuilding: an image is its commit's, however often it is built. Re-runs of a whole
  branch's history are bounded by `MaxRuns`, not by GitHub's 30 days.
* Lifetimes of zero: `ReadPath` assumes positive ones, which `Load` does not check.
* The SQL inside migrations, down files, and restores of a database.
* Staging, the autoscaler (one to three pods of one image, under load), the tunnel,
  backups and monitoring objects: configuration of services that are not part of the
  program. An `.env` file exists only on a developer's machine.
* The kubelet's counting of probes: readiness follows the dependencies after any delay.

## 6. What is left

`GenerateAccessToken`'s lifetime on one clock with the role of a promoted user, the
pool of 25 database connections as a resource that requests wait for, and
`ReadPath` and `AuthSystem` composed over one set of pods, whose stop each models for
its own requests.
