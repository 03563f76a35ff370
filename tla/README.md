# TLA+ models of go-backend-scaffold

A verification project for the Go backend in `src/`: TLA+ modules translated
from the source, TLC runs that check them on small instances, and TLAPS proofs
of what holds for every instance.

    tlc -workers 2 -config AuthSessions.cfg MCAuthService    # one run
    tlapm AuthServiceProofs.tla                              # proofs of one module

## 1. The system

One Go process serves HTTP. A request passes Recover, Metrics, Logger, CORS and
RateLimit, is routed by chi, and reaches a handler of `internal/auth`, which
calls the `Service`. The service keeps no state in memory: everything that two
requests share is in PostgreSQL (through `pgxpool`) or Redis. So the system's
concurrency is that of its storage accesses: every request is a goroutine, and
between any two of its statements any other request may run.

| Part | State | Operations | What makes it correct |
|---|---|---|---|
| Credential service (`internal/auth/service.go`) | tables users, org_memberships, refresh_tokens; Redis keys `pwreset:` | Register, Login, Refresh, Logout, Me, ForgotPassword, ResetPassword, ChangePassword | a refresh token is spent once; a password change or logout ends the earlier sessions; an access token never outlives its password; one account per e-mail; a reset link is used once; sessions keep their organisation |
| Auth handlers (`handler.go`, `routes.go`) | none | decode, call, map errors to answers | the answer says what happened |
| JWT middleware (`middleware/auth.go`) | none, reads users | compare `token_version` | revoked JWTs are refused from then on |
| Transactions (`database/tx.go`, `db/queries/auth.sql`) | open transactions, row locks | BEGIN, statements, COMMIT, ROLLBACK | all or nothing; waiting ends |
| Rate limiter (`middleware/ratelimit.go`) | Redis counters with expiry | one Lua script per request | the limit holds for each window, and the window ends |
| Server lifecycle (`server/server.go`, `cmd/server/main.go`) | main goroutine, listener goroutine, two channels of one slot, connections, open resources | Start; signal, shutdown, drain; exits of main | a clean exit has cut nothing off; stores are not closed under a handler; a listener's error is reported; a signal or a failure ends the process |
| Start-up (`cmd/server/main.go`, `config/config.go`, `cache/redis.go`, `notification/resend.go`) | environment, .env file, opened stores, sender | Load, validate, open, build the sender, validate for production | a server that serves is configured; production can send mail |
| Router and pipeline (`server/router.go`, recover, metrics, logging, cors) | response writer wrappers, the request's context | around every handler | what is recorded is what was sent; allowed origins can read every answer; panics are answered |
| Connection pool (`database/database.go`, `tx.go`) | 10 connections, rows locked by transactions | acquire, release | connections come back; no request waits for itself |
| Authorization policy (`policy.go`, `middleware/authorization.go`) | none | RequireRole, RequireOrgAccess | closed when Auth was forgotten; not mounted by the router yet |
| Health (`platform/health`) | none | Healthz, Readyz | Readyz answers when PostgreSQL does not |
| Notification (`internal/notification`) | none | SendPasswordReset | one external call |
| Response helpers, example domain, scripts, CI | - | - | no shared state |

Hard behaviours: interleaving of requests at every statement; statements that
wait for another transaction's rows and then look again; failures after part of
a transaction; a commit whose answer is lost; deadlocks; credentials that expire
between two steps; a signal that races a failing listener, and handlers that
outlive the shutdown; requests that wait for a connection while they are
cancelled, or while PostgreSQL hangs; a panic after the status was sent.
`PROJECT.json` lists each with its line under `hazards`, with the
properties that would notice it, or the reason why there is none.

## 2. Modules

| Module | Role |
|---|---|
| `AuthService` | the credential service over PostgreSQL and Redis, its properties, and the mutants (`Mut...`) that show each property can fail |
| `AuthServiceInv` | the inductive invariants `RotationInv` and `SessionInv` |
| `MCAuthService` | sets of endpoints and symmetry for the runs |
| `AuthServiceProofs` | `RotationInv` is an invariant, and what follows for refresh tokens |
| `AuthAccountsProofs` | `SessionInv` is an invariant, and what follows for accounts, passwords, sessions and reset links |
| `SessionLedger` | what the credential service promises: accounts and sessions, each change one step |
| `AuthRefinement` | the mapping under which `AuthService` implements `SessionLedger` |
| `AuthRefinementProofs` | the proof that it does |
| `RateLimit` | the rate limiter over Redis, its properties and mutants |
| `MCRateLimit` | limits, windows and paths for its runs |
| `RateLimitProofs` | three inductive invariants, and a theorem for each property of the limiter |
| `ServerLifecycle` | `Server.Start`, its listener goroutine, signals, shutdown, and what main does then |
| `ServerLifecycleProofs` | its inductive invariant and three theorems |
| `Startup`, `MCStartup` | from the process environment to a server that serves; the environments of the run |
| `StartupProofs` | its inductive invariant and three theorems |
| `ConnPool`, `MCConnPool` | the PostgreSQL connections and the requests that share them; `Readyz` |
| `ConnPoolProofs` | its inductive invariant |
| `Pipeline` | the middleware stack around every kind of route, and the guards for new domains |
| `PipelineProofs` | its inductive invariant and seven theorems |

The modules share no state, and this is why they are apart: the limiter has keys
of its own in Redis, and a limited request is one that never arrives at
`AuthService`; `Startup` ends where `ServerLifecycle` begins (its state
`serving` is main in `Start`); `Pipeline` takes the verdicts of the limiter and
of the JWT check as inputs that the other two models produce; `ConnPool` sees of
a request of `AuthService` only when it takes and returns a connection, and
holds rows. Inside `AuthService` the service, the middleware, PostgreSQL and
Redis are composed, and `AuthRefinement` composes it with its abstraction.

### State of AuthService and the code

A member `r` of `Req` is one HTTP request, used once. The secrets that the
server draws while it serves `r` (refresh token, JWT, reset token) are fresh 256
bit values or signed by the server, so they are named `r` too. A bcrypt hash is
the password it verifies; `sha256(token)` is the token.

| Variable | Code |
|---|---|
| `users[u]` | row of table users: id, password_hash, token_version (only committed values) |
| `memberships[u]` | table org_memberships |
| `tokens[t]` | table refresh_tokens: no row, live, revoked |
| `resetKeys[f]` | Redis key `pwreset:<hash>` |
| `expired` | credentials whose `expires_at`, `exp` or Redis TTL has passed |
| `pc[r]`, `call[r]` | where the goroutine of `r` is, or how it was answered; its input |
| `seen[r]` | the rows `r` has read into Go variables; when `r` issues tokens, what they carry |
| `wrote[r]`, `todo[r]` | refresh_tokens rows updated by `r`'s open transaction; rows its `RevokeAllUserRefreshTokens` still has to visit |
| `before[r]` | history variable: the user's sessions when a revoking request arrived |

### Actions

An *arrival* is what a handler does up to and including its first storage
access that has no lasting effect (decode, validate, look up, compare).
Every later storage access is an action of its own:

| Operation | Actions |
|---|---|
| Register | `Register`, `CreateUser`, `CommitUser`, `Issue` |
| Login | `Login`, `ListMemberships`, `Issue` |
| Refresh | `Refresh`, `Consume` / `ConsumeNothing`, `ReadUser`, `ReadMembership`, `CommitRotation` |
| Logout | `Logout`, `Consume` / `ConsumeNothing`, `UpdateUser`, `RevokeAll`, `RevokeRow`*, `CommitRevocation` |
| ChangePassword | `ChangePassword`, `CheckPassword`, `UpdateUser`, `RevokeAll`, `RevokeRow`*, `CommitRevocation` |
| ForgotPassword | `ForgotPassword`, `SetKey`, `SendMail` |
| ResetPassword | `ResetPassword` (GETDEL), `UpdateUser`, `RevokeAll`, `RevokeRow`*, `CommitRevocation` |
| Me | `Me`, `ReadMe` |
| environment | `Fail` (an error, a cancelled request, a crash), `DeadlockAbort`, `Expire`, `AddMembership` |

PostgreSQL (external, modelled from how the queries use it) runs at READ
COMMITTED. A statement sees the rows committed when it starts; an UPDATE waits
for the transaction that holds a row and then evaluates its WHERE again; an
INSERT under a unique index waits for a concurrent insert of the same key; an
aborted transaction changes nothing. `RevokeAllUserRefreshTokens` is two kinds
of step, the snapshot (`RevokeAll`) and the rows one by one (`RevokeRow`), since
other transactions commit in between. `IncrementUserTokenVersion` and
`UpdateUserPassword` are one step, because both only take the same row lock and
are seen at the commit.

How a request ends: `ok`; `lost` (committed, but the answer is an error or never
arrives); `denied` (a refusal); `error` (a 5xx, or a client or process that is
gone before the answer); `noop` (success, there was nothing to do); `swallowed`
(the handler dropped an error of the storage and answered success).

### RateLimit and the code

A request carries what the limiter looks at: its path (the policy), its peer, the
forwarded address (`X-Forwarded-For`, or `X-Real-IP`; `None` if neither parses),
and the e-mail in its body (`None` if the body cannot be read as one).

| Variable | Code |
|---|---|
| `count[k]`, `deadline[k]`, `now` | the Redis counter `ratelimit:...`, its expiry, Redis's clock |
| `pc[r]`, `input[r]`, `tries[r]` | where the middleware is; the request; how often go-redis has sent the script again |
| `reply[r]` | the last execution of the script for `r`; the code sees its `rank`, the rest is history |
| `serial`, `opened`, `charged` | history: windows of each key, when the last began, which of them counted a request |

| Code | Actions |
|---|---|
| `shouldSkipRateLimit`, `policyForRequest`, `rateLimitKey` | `Arrive` (`KeyOf`, `ClientIP`) |
| `rateLimitScript` | `RunScript`, atomic as Redis runs Lua scripts |
| the comparison | `Decide` |
| the error branch (503) | `GiveUp`; `Retry` is the Redis client's own retry |
| environment | `Tick`, `Restart` (Redis comes back without keys) |

Limits and windows are functions of the path; the code's values (10 to 100
requests, one or fifteen minutes) are one instance.

### SessionLedger and the mapping

The ledger has no requests, transactions, locks or stale reads. An account is
opened (`OpenAccount`); a session is opened (`OpenSession`), handed on to exactly
one successor of the same user and organisation (`HandOn`), or ended together
with a step of its account's version (`EndSessions`), which must reach at least
the sessions that existed when somebody asked for it (`AskToEnd`). A session
never carries the current version together with another password than the one in
force (`Carries`).

`AuthRefinement` maps `account` to `users`, `session` to `tokens`, `holder` to
`seen` (what a request put into the token it issued), `parent` to the token a
refresh presented, and `asked` to the history variable `before` while the request
is being served. Then `KeepsTheBook == Ledger!Spec`: a whole transaction is one
entry (its commit), everything before the commit is a stutter, and a rollback
leaves no trace.

### ServerLifecycle and the code

| Variable | Code |
|---|---|
| `main`, `listener` | where the two goroutines of `Start` are |
| `serverErr`, `shutdown` | the channels, with one slot each |
| `inShutdown`, `conn[c]`, `served[c]` | net/http: its flag, the state and requests of each connection |
| `cut` | history: connections whose request was cut off |
| `open` | resources whose deferred close has not run |

| Code | Actions |
|---|---|
| `server.go` 33-48 | `Start`, `ListenerEnds`; the goroutine: `Listen`, `ListenFails`, `ServerClosed`, `SendResult` |
| `server.go` 49-65 | `SignalEnds`, `ShutdownReturns` or `DeadlinePasses`, `Close`, `Drain` |
| `main.go` 85-91 | `ExitFailed` (`os.Exit` runs no deferred call), `CloseResource`, `ExitStopped` |
| net/http (external) | `Accept`, `ReadRequest`, `AnswerRequest`, `EndSevered`, `CloseQuiet`, `Signal` |

### Startup and the code

`environ` and `dotenv` map each variable that `Load` reads to a class of values
the code tells apart (absent, empty, white space, malformed, the placeholder
secret...). One action for each step of main that can end it with status 1:
`LoadDotEnv`, `Parse`, `Validate` (config.Load), `OpenDatabase`, `OpenRedis`,
`BuildSender`, `ValidateRuntime`, `Serve`.

### ConnPool and the code

`Script` lists what each endpoint asks of the pool: single statements and
transactions. `holders` are the requests with a connection, `owner[u]` is the
transaction that has locked the rows of `u`. `Ask` and `Acquire` are the pool's
queue; `Query`, `UpdateRows` and `EndTx` are steps of PostgreSQL and may never
come; `Deadline` is the five-second context of `Readyz`; `Cancel` is a client
that goes away. pgx closes a connection whose context was cancelled and the pool
opens another: `Release`.

### Pipeline and the code

One request (`req`) under one configuration (`cfg`) goes down the `stack` of
layers, one action per middleware (`Cors`, `Limit`, `Route`, `Auth`, `OrgAccess`,
`RoleAccess`, `MetricsAuth`, `Handle`; `Forward` for those that only wrap), and
comes back up (`Log` and `Count` are what Logger and Metrics do after
`next.ServeHTTP`, `Return` is every other layer) or, after a panic, by `Unwind`.
A panic begins where code that can have a defect runs: in RateLimit, Auth, the
callback of RequireOrgAccess or the handler (`Panic`), or on the way up in
`Count`, whose `WithLabelValues` panics over a label that is not valid UTF-8: the
raw path of a request without a route pattern (`utf8` is FALSE; `GET /%FF`, or
one that CORS or RateLimit answered before routing). A path under `/api/v1` that
nothing serves (`mounted`) has the pattern of the mounted router. `recorder` is
the `statusCode` of the two wrapped writers, `sent` what net/http put on the
wire, `counted` and `logged` what Metrics and Logger noted. The guards of
`middleware/authorization.go` stand on the route that README.md and
`exampledomain/routes.go` describe, and on two that forget Auth.

## 3. Runs

Every run is exhaustive for its constants. `Ops` selects the endpoints that the
clients call, so that the request budget is spent on those that interact.

| Run | Instance | Shows |
|---|---|---|
| `auth_sessions` | 5 requests of 1 user; register, login, refresh, logout; failures, 1 expiry | `TypeOK`, `RotationIsLinear`, `RevokedOnlyByCommitted`, `RevocationCoversEarlierSessions`; `RotationInv` (the proofs' invariant) |
| `auth_password` | 5 requests of 1 user; register, login, change, forgot, reset; two strong passwords, one weak | `AccessTokenMatchesPassword`, `RevocationCoversEarlierSessions`, `AccountsOnlyMoveForward` |
| `auth_endpoints` | 4 requests of 2 users over all endpoints, one extra organisation, one strong and one weak password; failures, 1 expiry | `ResetLinkIsSingleUse`, `ResetLinkExpires`, `SessionKeepsOrg`, `AccountHasOneOwner`; `KeepsTheBook` (the refinement); `SessionInv` (the proofs' invariant) |
| `auth_liveness` | 4 requests, all endpoints, `FairSpec` | `EveryRequestAnswered` |
| `auth_logout_answered` | 3 requests, failures | finding: `LogoutAnsweredMeansRevoked` is violated |
| `auth_logout_race` | 4 requests | finding: `LogoutEndsRefreshedSessions` is violated |
| `rate_window` | 4 requests, one path with limit 2, one with limit 1, one exempt; window of 1 tick, 3 instants, 1 restart | `TypeOK`, `WindowAdmitsAtMostLimit`, `BurstIsBounded`, `WindowsEnd` of `RateLimit` |
| `rate_keys` | 3 logins, 2 addresses of which one is a trusted proxy, 1 e-mail, limit 2, 1 retry each | `RefusedOnlyWhenUsedUp`; `WindowAdmitsAtMostLimit` when requests are counted twice |
| `lifecycle` | 3 connections with 2 requests each, `FairSpec` | `LifecycleInv` (the proofs' invariant), `CleanExitCutsNothing`, `ResourcesOutliveHandlers`, `ListenerErrorIsReported`, `SignalEndsProcess`, `FailureEndsProcess` |
| `startup` | every combination of the six variables that main weighs against each other, every value of every other one, three .env files, stores up or down | `TypeOK`, `ProductionSendsMail`, `ServingIsConfigured` |
| `pool` | 3 requests of one account, 2 connections, cancelled clients, `FairSpec` | `PoolInv` (the proofs' invariant), `EveryRequestAnswered` while PostgreSQL answers, `ReadyzAnswers` always |
| `pipeline` | every request on every route under every configuration, 2 organisations, a path that is valid UTF-8 or not, a panic wherever one can begin | `TypeOK`, `RecordedIsSent`, `OriginsCanReadAnswers`, `HandlersAreGuarded`, `PreflightsAreFree`, `PanicsAreAnswered`, `CountedByPattern` |

Bounds of the limiter's runs. `BurstIsBounded` has to be tight to say anything:
with a limit of two, the second request of a window that opened at 0 passes at 1,
the whole next window passes at 2, and a fourth request must not, so three pass
within one window's length without any restart (2 * 2 - 1). With a limit of one,
two pass only around a restart (3 * 1 - 1), and a third request must not. Three
instants are one more than a window lives, and four requests one more than may
pass.
`rate_keys` needs no clock: it asks who is counted with whom, and three requests
over every combination of peer, forwarded address and e-mail share a counter in
every way; three requests are also one more than the limit. A retry doubles what a client is charged, which is why
`RefusedOnlyWhenUsedUp` multiplies by `MaxRetries + 1`.

Bounds of the credential service's runs. The hazards need an account (one request), a session
(a second one, or the registration itself), and two or three requests that race:
five requests hold a register, a login, and three competitors. Two strong
passwords tell an old from a new one; the weak one takes the refusing branch.
One expiry can fall between any two steps. Two users are enough to mix up
accounts, one extra organisation to mix up memberships. Requests are symmetric (users
with their organisations too), and each is used once, so `Req` bounds the length of a behaviour; no other
counter is unbounded (`token_version` grows at most once per request).

Fairness (`auth_liveness`). Weak fairness of each request's `ServerStep`: the Go
scheduler runs every runnable goroutine and PostgreSQL executes a statement that
waits for nothing. Weak fairness of `DeadlockAbort`: PostgreSQL's deadlock
detector runs after `deadlock_timeout`. Nothing is assumed of arrivals, expiry
or failures. This run has no failures because a failure also answers the
request: the hard case is that nothing fails and everyone waits. Two logouts, or
a logout and a password change of one user, really form a circle (one holds a
refresh token and wants the users row, the other holds the users row and wants
the refresh token).

Fairness of `lifecycle`: weak fairness of the main goroutine, which includes the
fifteen seconds of the shutdown context, and of the listener goroutine. Handlers,
clients and signals owe nothing, so a handler may run for ever and the process
has to end all the same.

Fairness of `pool`: weak fairness of the server's own steps and of the timer of
`Readyz`. PostgreSQL owes nothing: that it answers (`DbAnswers`) is the premise
of `EveryRequestAnswered` and not of `ReadyzAnswers`. A request that waits for a
connection has no time limit of its own, since the server's timeouts do not
cancel its context, so that the first property really needs the premise.

Bounds of the other runs. Three connections hold one that is idle, one active
and one cut off; two requests make a connection go round its states. Two
connections for three requests exhaust the pool with one waiting, and one
account makes their transactions want the same rows; the endpoints of `Shapes`
have every form of `Script`. Requests share nothing in `Pipeline` but atomic
counters, so one request shows everything; two organisations tell one's own from
another's.

A run's deadlock check stays on: `Idle` is the only way a behaviour may stop, and
it requires that every request has been answered (in the other modules: that the
process has exited, or that main serves or has ended).

### Findings

* **A failed logout is answered 204** (`auth_logout_answered`). The handler drops
  the service's error with the comment "token may already be revoked"
  (`handler.go:153`). For such tokens the service already answers nil; what is
  dropped are rolled-back transactions, whose refresh token stays usable.
* **A logout misses a session that is being refreshed** (`auth_logout_race`).
  `00002_auth.sql:32` says that refresh tokens are revoked on logout, and Logout
  revokes all of the user's tokens; but its UPDATE does not see the successor
  row that a concurrent Refresh commits after the statement has started. The
  access token of that session is refused (its version is old), and its next
  refresh gets the new version.

Three more places where the code and what is written about it differ, which no
run claims:

* README.md:28-54 starts the server from `.env.example` with only `JWT_SECRET`
  replaced. That file sets `EMAIL_FROM` and `EMAIL_FROM_NAME` and leaves
  `RESEND_API_KEY` empty, which `buildNotificationSender` refuses: the server
  exits with status 1. `startup` has this file (`Example`).
* ENV is compared with "production" regardless of case in `main.go:98` and
  `recover.go:35`, and exactly in `router.go:42`. With `ENV=Production` the
  settings are validated as for production and `/metrics` is open to everybody;
  `Mount` has it so, and `HandlersAreGuarded` says no more than the code does.
* Metrics and Logger note a request after `next.ServeHTTP` without a deferred
  function, inside Recover: a request whose handler panics is answered 500 and
  neither counted nor logged, though `metrics.go:17` calls the counter the
  "Total number of HTTP requests." And a request whose label would be a raw path
  that is not valid UTF-8 is answered and logged, but never counted:
  `WithLabelValues` (`metrics.go:44`) panics, and Recover's 500 comes too late.
  `RecordedIsSent` therefore speaks of what was recorded, and says which requests
  are logged and not counted.

## 4. Proofs

Every safety property that a run checks, the action properties
`AccountsOnlyMoveForward` and `ResetLinkExpires`, and the refinement `KeepsTheBook` are theorems: what
the runs show on small instances holds for every value of the constants. Each
invariant below was checked by TLC on an instance before it was proved.

| Module | Theorems (`Spec => []P`) | Invariant behind them |
|---|---|---|
| `AuthServiceProofs` | `TypeCorrect`, `RotationTheorem`, `RotationInvariant` | `RotationInv` |
| `AuthAccountsProofs` | `RevocationTheorem`, `PasswordTheorem`, `RollbackTheorem`, `ResetTheorem`, `OrgTheorem`, `OwnerTheorem`, `SessionInvariant`; `ForwardTheorem`, `ExpiryTheorem` (action properties) | `SessionInv` |
| `AuthRefinementProofs` | `RefinementTheorem`: `Spec => KeepsTheBook` | `SessionInv` |
| `RateLimitProofs` | `LimitTheorem`, `RateTypeTheorem`; `WindowsEndTheorem`, `BurstTheorem`; `UsedUpTheorem` | `CountInv`; `WindowInv`; `ChargeInv` |
| `ServerLifecycleProofs` | `LifecycleTheorem`, `CleanExitTheorem`, `ResourcesTheorem`, `ListenerErrorTheorem` | `LifecycleInv` |
| `ConnPoolProofs` | `PoolTheorem` | `PoolInv`, `holders` finite |
| `StartupProofs` | `StartupTypeTheorem`, `ProductionTheorem`, `ConfiguredTheorem` | `StartupInv` |
| `PipelineProofs` | `PipelineTypeTheorem`, `RecordTheorem`, `OriginTheorem`, `GuardTheorem`, `PreflightTheorem`, `PanicTheorem`, `PatternTheorem` | `PipelineInv` |

### What the proofs assume

Nothing but the named assumptions on constants, which TLC evaluates in the runs:

* `AuthService`: `None` is no request, user, organisation or password
  (`NoneAssumption`); strong passwords are passwords, and the switches of the
  model have their types (`InputAssumption`). `Req`, `User` and the others may
  be infinite.
* `RateLimit`: limits are natural numbers, windows are positive, the bounds are
  natural numbers, `None` is no address or e-mail (`LimitAssumption`).
* `ServerLifecycle`: `RequestsAssumption`; `ConnPool`: `PoolAssumption`.
* `Startup`: every environment and every .env file gives each variable a value
  of one of the classes (`ValuesAssumption`); any set of them will do.
* `Pipeline`: `None` is no status and no entry of the metrics
  (`NoneAssumption`); any set of organisations.

### Refresh tokens (`RotationInv`)

`RotationIsLinear` alone is not inductive: nothing in it says that a request
about to commit still has its token to itself. `RotationInv` adds

* `FlowInv`: at each program point, which operation is there and that its
  argument is a request or a user;
* `LockInv`: rows locked by open transactions are disjoint, exist, and are held
  only between the first UPDATE and the commit; and the token that an open
  Refresh or Logout consumed is in its `wrote` set and still live for all others.

The argument: `Consume` may lock only an unlocked live row, so two open
consumers of one token are impossible; the commit turns that live row revoked, so
no consumer of it can have committed before, and none can lock it afterwards,
because no step makes a revoked row live. Types come first (`TypeStep`), then
`FlowStep`, then `RowsStep`, which uses three frame lemmas: steps that touch no
row (`RowsFrame`), steps that roll back (`RowsQuit`) and steps that commit
(`RowsCommit`).

### Accounts and sessions (`SessionInv`)

The six properties of accounts and sessions lean on each other, so one invariant
carries them. It adds to `RotationInv`

* `AccountInv`: an account is created whole; whoever has inserted an e-mail and
  not committed is alone with it (the unique index), so the row that `CommitUser`
  fills is empty, and stays its owner's;
* `UserOK`, for each request: nobody works for a user who does not exist, and a
  consumer works for the user and organisation of the token it presented;
* `CarriedOK`: a version that a request has read is no newer than the account's,
  and if it is the account's, so is the password read with it. This is what a
  stale read may look like: old, but never a mixture;
* `CoverOK`: what a revoker has to end belongs to its user, and from the snapshot
  of `RevokeAllUserRefreshTokens` on is locked by it or still to be visited. At
  the commit nothing is left to visit, so everything is locked, and the new
  version is above any that an earlier session can carry;
* `LinkOK`: a redeemed link was mailed, so its key was written once and GETDEL
  has taken it;
* `ExpiryInv`: a key exists only after ForgotPassword has set it, and not after
  its hour; since it is set once, it does not come back, and GETDEL of an expired
  link finds nothing (`ResetLinkExpires`).

The proof separates who moves from who does not. `AccountsAdvance` and
`TokensAdvance` say how a step of anybody can change the tables (accounts only go
forward, revoked rows stay revoked); with them `RequestStill` shows in one place
that the facts of every other request survive, and the lemmas `Request...` treat
the request that moves, one group of actions at a time. `AccountsAdvance` is also
the step of `ForwardTheorem`.

### The refinement

`LedgerStep`: under `SessionInv` every step is one entry of `SessionLedger` or
none. `CommitUser` is `OpenAccount`, `Issue` is `OpenSession`, `CommitRotation`
is `HandOn`, `CommitRevocation` is `EndSessions`, the arrival of a revoker is
`AskToEnd`, the end of one that fails is `GiveUp`; all others stutter. The
invariant is needed where the ledger has guards the code has no test for: that
the token handed on is still live (`LockInv`), that what a new session carries
is old or in force (`CarriedOK`), that the rows revoked belong to the user and
are at least those asked for (`CoverOK`). `BookFrame` settles the mapped history
once: an existing session never changes its entry, since its request has been
answered.

### The rate limiter

`WindowAdmitsAtMostLimit` counts requests, so `CountInv` speaks of counts
instead: no two requests hold the same count of the same window (`DistinctInv`),
because no count held is above the counter of its window while that counter
lives (`RankInv`), and a window that ended is never reopened: the next counter
of the key is a new window. The limit then follows without an induction on
sets: the counts of the requests that passed are an injection into `1 .. Limit`
(`CountBound`, with `FS_Injection`).

`WindowInv` adds time: a counter expires one window after it was opened
(`TimeInv`, from which `WindowsEnd` follows), and if more than `1 + restarts`
windows lie between two counts, or more than `restarts` of them and the earlier
count opened its window (`Slack`), they are more than a window apart (`ApartInv`,
which needs `SpanInv`, the same between a count and the counter that lives now,
to be inductive). So the counts in a stretch of one window come from at most
`2 + restarts` windows, and (window, count) is an injection into a set of
`(2 + restarts) * Limit` pairs; it misses one of them, since the opening count of
the first window and that of the last are never in one stretch.

`ChargeInv` bounds each count by the executions of the script that can have made
it: pairs of a charged request and one of its attempts, of which a request has
at most `MaxRetries + 1`. A refusal has a count above the limit, so enough
requests of the same client were charged. That only finitely many requests have
been charged is part of the invariant; `Req` may be infinite.

### The server's life

None of the three properties is inductive. `LifecycleInv` says what the channel
can hold for each state of the listener, that a connection is severed only on
the way to `os.Exit(1)`, and that between a successful `Shutdown` and the exit
all connections are closed and nothing accepts new ones: the listener has left
`serving` for good, because the flag `inShutdown` is never taken back.

`StartupInv` attaches to each point of main what the checks before it have
established (a secret, each store, the sender that `buildNotificationSender`
chooses, the production settings), and they last because the environment is
written once, by the .env file, before the first check.

### The pool

That no connection and no row stays with a request that has ended
(`ConnectionsAreReturned`) is not inductive alone. `PoolInv` adds: a request
that waits still has something to ask for, so what it acquires is a connection
of a known kind; and the rows a transaction owns are those of its own account,
so that releasing it releases them. The requests need not be finitely many: the
proof adds that `holders` is a finite set.

### The pipeline (`PipelineInv`)

Order is everything here, so the proof starts with it: `LayersShape` computes
where each layer stands in the stack of every request, and `Positions` turns the
name of the layer that runs into bounds on `at`. The invariant then says, by
position, what the layers above have let through (`DownInv`: not a preflight,
asked or exempt, routed, and for each gate outside, what it checked), that the
CORS headers are set below CORS and on every way back (`CorsInv`), that both
wrapped writers have seen the status that was sent unless a panic skips them, and
that a request logged but not counted is one over whose label Metrics panicked
(`RecordInv`), that a panic ends at Recover and finds no status sent if it was
early (`PanicInv`), and what a handler that ran leaves behind (`TraceInv`).
`GatesPassed` is the step from "outside" to "guarded": when the handler runs, all
gates of its route are outside.

### Only model-checked

Liveness is out of the prover's reach (it would need `ENABLED`), so
`EveryRequestAnswered` (of the service and of the pool), `ReadyzAnswers`,
`SignalEndsProcess` and `FailureEndsProcess` stay with TLC, on the instances of
section 3. The two findings are counterexamples, which need no proof. No module
declares a recursive operator.

## 5. What is not modelled, and the plan

Left out of `AuthService`: formats (e-mail syntax, UUIDs, JSON, JWT encoding),
bcrypt's cost and its 72-byte limit, deletion of rows (no query deletes any),
memberships without a registration, overflow of `token_version` (2^31 logouts).
Left out of `RateLimit`: the bodies themselves (a body over one MiB reaches the
handler cut short and is refused there), spellings of one IP address, the branch
for a request without a remote address, which net/http never delivers.

Left out of `ServerLifecycle`: TLS, HTTP/2 and hijacked connections (none is
configured), and the interval of Shutdown's polls. Left out of `Startup`: the
port (an invalid one is a listener that fails), the values of durations, and
allowed origins. Left out of `ConnPool`: idle and lifetime limits of
connections, which only replace idle ones. Left out of `Pipeline`: bodies,
durations, and the Flush, Hijack, Push and ReadFrom of the wrapped writers,
which no handler uses; and which of 404 and 405 a request without a handler gets
(either, in the model). Not modelled at all: the down migrations, the HTML of
mails, and scripts, CI and container image, which are not part of the program.

Plan: with every safety property proved, what is left is to prove parts of the
liveness arguments that are safety (that a circle of waiting transactions always
has a victim, that nobody waits for a row whose owner has ended), and invariants
of the compositions that the modules share only through their inputs
(`Startup` into `ServerLifecycle`, `RateLimit` and `AuthService` into
`Pipeline`).
