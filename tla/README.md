# agro-iam in TLA+

A verification project for [agro-iam](../src/README.md), an identity service for agricultural
cooperatives: TLA+ modules translated from the Go code, TLC configurations that check them on
small instances, and theorems about them that TLAPS checks for every instance.

    tlc -config RotationOverlap.cfg MCRefreshRotation.tla     # a run (all are listed below)
    tlapm TenantStoreProofs.tla                               # the proofs of a module

## The system

One Go process (or several, behind one database) serves a JSON API and a small web client.
Services are stateless; the state is in PostgreSQL, in Redis and, for the rate limiter, in the
process; the web client keeps an access token in each tab and one refresh token in the storage the
tabs share. Every request is a goroutine, and almost every call it makes to the database is a
transaction of its own. What is hard in this code follows from that: **a request reads a row in
one transaction and acts on it in a later one**, other requests work in between, and the request
may fail or be cut off after any of its statements, or its answer be lost.

| Component | State | Operations | Interacts with |
|---|---|---|---|
| Refresh-token rotation (`auth_service.go`, `services/refresh.go`, `auth/refresh.go`) | `app.refresh_tokens` | Login, Refresh: FindByHash, DecideRotation, Revoke, Store, RevokeFamily | users, role resolution, signals, the web session |
| Role resolution (`role_resolve.go`) | reads `app.user_roles` | resolveRole | login, refresh, provisioning |
| Audit chain (`audit_service.go`, `audit_chain.go`, `audit_repo.go`) | `app.audit_log` | Record (Tail, Append, one retry), VerifyChain, Latest | called through the breach signals, fail-open |
| Rate limiter (`redis/ratelimit.go`, `middleware.go`) | a counter per key in Redis; a bucket per key in each process | Allow | called by the request pipeline before the handler |
| Tenant sessions (`postgres/db.go`, the policies of `000001_init.up.sql`) | the setting `app.tenant_id` of a pooled connection | WithTenant | every repository but that of refresh tokens |
| Provisioning (`user_service.go`, `user_repo.go`, `user_role_repo.go`) | `app.users`, `app.user_roles` | CreateUser, ListUsers, UpdateUser | login reads what it writes; tokens carry the role for 15 minutes |
| Request pipeline (`router.go`, `middleware.go`) | none | authentication, role, rate limit, handler | all of the above |
| Breach signals (`breach.go`, `sinks.go`) | none | classify, fan out to log and audit | audit chain |
| Lots, campaigns, applications (`lot_*.go`, `campaign_*.go`, `application_*.go`) | one table each | create, update, delete, read | tenant sessions, signals |
| Web session (`api.js`, `tokens.js`, `app.js`) | access token in memory, refresh token in browser storage | request with one retry, single-flight refresh, login, logout | rotation |
| Tenants, access tokens, password hashing, domain types, seed, views | - | - | see "Not modelled" |

What makes each of them correct:

- **Rotation**: a token works once; a family (a session) has one account, at most one working
  token, and never reopens; presenting a rotated token ends its family; no failure between two
  statements leaves two working tokens, and none before the first write costs the session.
- **Audit chain**: under any interleaving of Record the chain of every tenant verifies; a change of
  what is hashed shows at its row, and the removal of a row at the next one; a call adds at most one
  row, and is dropped only for a reason that can be stated; Record returns.
- **Rate limiter**: bursts are bounded, requests are refused only if their limit was spent,
  Retry-After is honest, whichever backend counts.
- **Tenant sessions and the three tables**: a statement sees and writes rows of the tenant of its
  request only, whatever the connection was used for before; each request is one atomic step of a
  database its tenant has for itself; requests never wait for one another in a circle.
- **Provisioning**: one account per e-mail over all tenants; a user is what one request asked for;
  a create is whole or leaves a user who is nobody; a role does not outlive its revocation by more
  than the life of a token.
- **Pipeline and signals**: a forbidden request spends nobody's quota; events with a tenant reach
  the chain, others do not; no sink keeps an event from another one or a client from its answer.
- **Web session**: a session is given up only when an answer was lost, the storage refused a token
  or two tabs collided; but for that, what is stored works; no call of a view is under way for good;
  a user who signed out stays signed out (which the code does not give).

`PROJECT.json` lists the hazards, each at the line where it bites.

## Modules

| Module | What it is |
|---|---|
| `RefreshRotation` | login and refresh over the token table, one action per SQL statement |
| `RotationPromise` | what rotation promises: one-time tokens in families that never reopen |
| `RefreshRotationProofs` | theorems about `RefreshRotation`, whatever requests overlap |
| `SerialRotationProofs` | theorems about it when the requests of a family wait for each other; that it then implements `RotationPromise` |
| `AuditChain` | concurrent calls of Record over the log, and verification |
| `AuditTrail` | what the log promises: one append-only sequence of events per tenant |
| `AuditChainProofs` | theorems about `AuditChain`, and that it implements `AuditTrail` |
| `RateLimiter` | Allow over Redis and the buckets of the processes |
| `RateLimiterProofs` | theorems about `RateLimiter` |
| `TenantStore` | WithTenant over a pool of connections, and lots, campaigns and applications in it |
| `TenantDatabase` | what isolation promises: a database for each tenant, one atomic step per request |
| `TenantStoreProofs` | theorems about `TenantStore`, and that it implements `TenantDatabase` |
| `Provisioning` | creating and updating users, roles and the tokens that name them |
| `ProvisioningProofs` | theorems about `Provisioning` |
| `RequestPipeline` | authentication, role, quota, handler, and the event a request ends in |
| `RequestPipelineProofs` | theorems about `RequestPipeline` |
| `WebSession` | the tabs of a browser over `RefreshRotation`, which it instantiates |
| `WebSessionProofs` | theorems about `WebSession`, over those of `RefreshRotationProofs` |
| `MC...` | the instances: symmetry sets and values of constants |

How they compose: `WebSession` runs the token table of `RefreshRotation`, with all of its steps, behind
an unreliable network. `RequestPipeline` stands around everything else and takes each handler as one
step with the outcomes it tells the signals; what happens inside a handler is `RefreshRotation`,
`TenantStore` or `Provisioning`, inside the audit sink `AuditChain`, inside the counters `RateLimiter`.
`TenantStore` has Record only as something that needs a connection of the pool.

In each module the section "Faulty steps" holds variants of the definitions with a plausible bug,
each used by nothing else than the entry of `PROJECT.json` that says which property finds it.

### RefreshRotation

A request is a goroutine in `authService.Login` or `Refresh`. Its `pc` names the last statement
that returned, and each action is one statement together with the pure code around it:

| Action | Code |
|---|---|
| `LoginVerify` | FindByEmail, the password, resolveRole, Issue and NewRefreshToken: nothing is written until all succeeded |
| `LoginReject` | every early return of Login |
| `LoginStore`, `StoreSuccessor` | `RefreshTokenStore.Store` |
| `RefreshFind`, `RefreshUnknown` | FindByHash; what it returned stays in `seen` |
| `RefreshReject`, `RefreshReplay`, `RefreshAllow` | the clock, DecideRotation and the switch |
| `RevokeFamily`, `EmitReplay` | the replay branch |
| `ResolveRole` | resolveRole, NewRefreshToken and `next.FamilyID = record.FamilyID` |
| `Revoke` | the UPDATE by id, whatever the row holds by then |
| `Answer` | Issue, the signal, the response |
| `Fail` | an error of any call, a cancelled context, a crash; nothing is undone |

`row` is the table, keyed by the request that generated the token (a request generates at most one
token and one family, so the ids are the request's). `seen` is the record Refresh decided on,
`next` the one it will store. Times are whole ticks, as the code compares whole seconds. A client
presents only tokens it was given (`pc[q] = "ok"`): the plain value is 256 random bits, and only
its hash is stored. `Overlap` says whether a token may be presented while another request of its
family is unanswered. TRUE is the code as it is; FALSE is what the single flight of one web client
gives, and what the comments about rotation assume. The signals write to the audit log only, which
`AuditChain` models; a failure of theirs never reaches the request.

`RotationPromise` knows families, the tokens that work, and four phases. The mapping is `current`
(stored and unrevoked), `spent` (stored and revoked) and `phase`; a family is "rotating" while the
request that revoked its token has not stored the successor. Without overlap every statement is a
step of the promise or invisible to it (`KeepsPromise`).

### AuditChain

A call of Record is `Start`, then `ReadTail` (a transaction: its lock is gone when it commits), then
`Append` (another one) or `AppendConflict`, which is the unique index answering; the second conflict
is returned to the caller. `Append` with the outcome "error" is a commit whose answer was lost.
The variables of a call that returned are forgotten (`Return`).
SHA-256 is taken to be free of collisions: the hash of a text is the text. But the text itself does
not tell all contents of a row apart, and the constants say what it does not:

| In the model | In the code | What is lost |
|---|---|---|
| `Fields`, `Joined` | actor, action, entity type, entity id and time, joined with `\|` unescaped | fields that join to the same text |
| `Value`, `Decoded`, `CanonicalizeEntry` | the payload, decoded (numbers to float64) and marshalled again | numbers beyond 2^53 that round alike |
| `Form` | as submitted, as jsonb gives it back, canonical | the form, as it has to be |
| `Severity` | the column | all of it: it is not hashed |

`Joined` and `Decoded` are any functions, so the properties and theorems hold for the real ones. The
other parts of the text cannot be confused: tenant, number and previous hash have no `|` in them and
come first, and the payload is one JSON text, after which there is only the time, without one
either. `HashChainEntry` keeps those four apart and the fields joined. A call stands for the fields
and for the value it records.

`Broken` and `VerifyChain` are `verifyChainEntries`, written as a condition on rows instead of a loop,
and are applied to the log as the calls left it and to every log that differs from it by one edit or
removal. `EditShows` is exact: an edit of fields, value and severity breaks the chain at the edited
row if it changes the text that is hashed, and *goes unseen if it does not*. Taking out the *newest*
row is not detected, by design of the chain: `RemovalShows` says so in its hypothesis. `since` is a
history variable, how many rows its tenant had when a call first read the tail;
`DroppedOnlyIfBeatenTwice` counts the rows added after that.

`AuditTrail` is a sequence of events per tenant that only grows; `trail` reads it off the log by `seq`.

### RateLimiter

`Ask` is the branch of Allow on the client. `RedisAnswers` is the Lua script, which Redis runs
atomically, answered in time; `RedisFails` is an error or the 50 ms timeout, after which the script
may have run or not, and the request goes on in the memory of its process. `MemoryAnswers` is the
part of allowMemory under the mutex, with the clock reading `now` taken before it. Requests of one
key may be of routes with different limits, since `deriveRateLimitKey` names the address only
on both auth routes, and tenant and user only on all others.

`RedisResends`: the client of `redis.go` keeps the retries its library has by default, so a script
whose connection broke after it ran may be sent again while the request still waits, which counts
one Allow more than once. `Resend` is the set of times this happens, `resent` which key it counted and
when. `BurstBounded` is about requests admitted, and holds with it; `DeniedOnlyIfSpent` counts
resends with the requests, since a refusal may be due to them.

`Stall` bounds how long a request may wait for Redis or hold its reading of the clock; without a
bound no window means anything. A script that runs after its caller gave up runs at the time of
giving up. A restart empties the buckets of a process, and is not modelled; neither are a limit of
zero (unlimited) and a missing limiter, which no route uses. `retryAfter` is the duration; the
header rounds it up to a second, which only lengthens the wait.

### TenantStore

A request takes a connection (`Begin`), binds its tenant (`Bind`, `set_config(..., true)`), runs one
statement (`Read`, `Create`, `Update`, `Delete`, `NotFound`) and ends the transaction (`Commit`, the
deferred `Rollback`, or `Abort` for any error, cancelled context or lost connection). After a write
that was committed it emits its event, for which it needs a connection again (`Emit`), and answers.

| State | Code |
|---|---|
| `rows` | the committed rows of `app.lots`, `app.campaigns`, `app.applications`; `by` is the request that wrote the columns |
| `session`, `local` | the setting `app.tenant_id` of a connection, beyond its transactions and inside the open one |
| `held` | which connection of the pool a request has |
| `change` | the rows its open transaction removes and adds: its row locks, and what Commit makes visible |
| `answer` | the rows its statement returned, with the operator's name |

`Visible` and `Writable` are the policies, all of the same shape. Campaigns and applications are
selected by id alone; only lots are also compared with the tenant. `OperatorName` is the subquery
on `app.users`, under the same setting. A tenant also stands for its one user. `Locked` is
PostgreSQL's: an UPDATE or DELETE waits for the transaction that changed a row it selects, and
then looks again (READ COMMITTED), which is why it is a guard and not a step. The audit row is
`AuditChain`'s; that Record may fail (`EmitFails`) never undoes the write.

`TenantDatabase` has neither connections nor settings: `Serve` answers a request from the rows of its
tenant in one step. A request is served when its statement read something or its change was
committed; an error does not say whether it was.

### Provisioning

`CreateInsert` and `Assign` are the two transactions of CreateUser, `CreateInvalid` and
`CreateConflict` its refusals. The answer to the commit of either may be lost: then the row is there
and CreateUser reports an error. `UpdateFind` keeps a copy of the row, and `UpdateWrite` writes all of
it back. `LoginFind` and `RefreshFind` say which user a token is issued for, `Resolve` reads the
memberships, `Issue` puts the role into the claims. `name` stands for whatever a request wrote, so
`WholeRows` can say that name and activity come from one request. Memberships change by `ChangeRoles`,
which is an operator in SQL: the service has no route for it. `lost` remembers when a role was
taken away, as long as a token may still name it.

What the module makes plain, and the properties leave as it is: a user whose role could not be
assigned can log in, with no role (and the e-mail stays taken); UpdateUser emits no audit event; a
deactivated user cannot log in, but refreshes go on, since Refresh never looks at `is_active`; the
toggle of the users view sends the name of the listing it was drawn from, so it also undoes a
concurrent change of the name.

### RequestPipeline

`Chain` is the order of the middleware per kind of route, read off `Routes`; "campaigns" and
"applications" are the writes of these routes, their reads have the chain of "lots". A request carries
the claims of a token Verify accepts, or none. `RateLimit` counts and compares with the limit of its
route, in the counter of its key (`KeyOf`), which routes share; `WindowEnds` is a window of
`RateLimiter` that ends. `spent` is in which window a request was counted. `Handle` answers, with or
without an event (`Outcome`); `Panic` is a panic in it, which `recover` answers with 500. `Emit` is
`Detect` and `EmitSignal`; `SinkTakes` and `SinkFails` are the two sinks in the order main registers
them, the log first; the audit sink takes no anonymous event. Only after its sinks is a request
answered: Record runs in the request, under its context.

Two signals of the classifier, of failed logins and of cross-tenant probes, are emitted by nothing in
the service, though DECISIONS 2.15 has a failed login as an event; `Signal` has the emitted ones only.

### WebSession

A tab runs one callback up to its next `await`; each is an action, and tabs interleave with each other
and with the network. `AwaitRefresh` is `createSingleFlight`: `flight` is the tab's refresh, `Waiting` the
calls that await it, `Resume` and `Reject` what its end does to them. `stored` is the refresh token in
local storage, one for all tabs; access tokens are in `access`. `Load` is a reload, which forgets calls
and the flight, not the requests, and `boot`. `Succeed` takes both tokens *whatever happened since
the request was sent*; `Expel` is the 401 that clears both; `GiveUp` is everything else, which clears
nothing. The storage may throw at any time, and `tokens.js` swallows it: `TakeSession` then has the
access token and leaves the *old* refresh token stored (the request is "unsaved"), `ClearSession` may
leave the stored one where it is, and a read that throws is an empty storage (`AwaitRefresh` rejects,
`Load` sends nothing). Where the login form and the shell are shown follows `route`, which asks
the storage and not the memory: `SubmitLogin` is open to a tab that holds an access token, and
`Logout` to one that holds none. Requests to the service take the steps of `RefreshRotation`, whose variables are this
module's; the answer of any of them may be lost before or after it was served (`Drop`). `Overlap` is
TRUE, the clock stands still (tokens live thirty days; expiry is `RefreshRotation`'s).

Left out: the role and claims of the token (a user without a role is signed out at boot), and the
countdown after a 429, which is settled like any other answer.

What the module makes plain: "the refresh 401 path already wiped the session" (api.js:75) is not so
when the refresh failed with 429, 500 or without an answer; the call fails with its 401 and both
tokens stay. A boot that fails in this way shows the login form over a stored token that works. Two
tabs that refresh at once may end the session for both by replay detection, and even one tab can, by
a reload while its refresh is on the way, or by itself where the storage refused the token of a
refresh: the old one, used up, is what it presents next. `ExpelledOnlyForCause` and
`StoredTokenWorks` name these causes (`Disturbed`), and no others. A late answer to a refresh of an
old account replaces the token of the account that signed in since.

## Runs

| Run | Question | Bounds |
|---|---|---|
| `rotation_overlap` | what holds of the token table whatever overlaps, fails or dies | 4 requests, 2 accounts, clock to 2, TTL 1 |
| `rotation_serial` | one-time use, one live token, replay ends the family, the promise is kept, every request is answered | 4 requests, 1 account, clock to 1, TTL 1, no overlap, fairness |
| `audit_chain` | the chain is sound under concurrent calls, which edits show, the promise is kept, Record returns | 4 calls, 2 tenants, 2 of 4 fields that join alike, 2 of 4 values that decode alike, 2 severities, fairness |
| `limiter_backends` | bursts, refusals and Retry-After over Redis, memory and the fallback | 4 requests, 1 resend, 2 processes of which one has Redis, limit 1, window 3, stall 1, clock to 5 |
| `tenant_store` | isolation, no circular waiting, the promise is kept | 3 requests, 2 connections, 2 tenants, 2 tables, 1 row to start with |
| `provisioning` | e-mails, rows, creates, and how long a role lives on in tokens | 3 requests, 1 user to start with, 2 tenants, 2 e-mails, 2 roles, TTL 1, stall 1, clock to 2 |
| `request_pipeline` | who spends quota, who gets events, every request is answered | 3 requests, an auth and an admin route, limits 2 and 1, 1 user with 2 roles, fairness |
| `web_session` | what costs a session, what is stored, every call settles, with a storage that refuses reads and writes | 2 tabs, 2 calls, 3 requests of which the first has signed in, 1 account, fairness |
| `rotation_same_token`, `rotation_late_successor`, `limiter_shared_key`, `web_logout` | a sentence of the documents or tests, against the code: **violated** | 2 to 4 requests |

`TypeOK` of `Provisioning`, `RequestPipeline` and `WebSession` holds in the same instances, and is not
part of their runs.

Why these bounds are enough for the cases that matter: four overlapping requests are a login, two
rotations that race and a third party that replays, with a second account for families to be mixed
up with; four serial ones are a login, a rotation, a replay and a request after it. A token
expires one tick after it was issued, so both sides of the boundary and the boundary itself occur.
Four calls of Record give a call that is beaten twice while a fourth writes to the other tenant; the
fields of two and the values of two others hash alike, so each of the edits that show and that
do not occurs. One resend is enough to have a request counted twice, by Redis alone or by Redis and
the fallback. Four requests of limit 1 fill two adjacent windows and one more, which is what `BurstBounded` could
be violated by. Three requests over two connections leave one waiting, two on one row and one of
the other tenant, and reuse a connection after any end of a transaction. Three provisioning
requests are two racing updates and a token, or a half-done create, its login and a refresh. Three
requests in the pipeline are one more than the larger limit of a shared key; a route that needs a role
and one that needs no token are the two ends of `Chain`, and the other routes are covered by the
theorems only. Two tabs with two
refreshes are the collision, and two calls in one tab are a waiter that did not start the flight.
Requests, accounts, connections, tenants and e-mails are interchangeable, so the safety runs
use symmetry; the runs with liveness do not.

The models stop when every request has run (deadlock checking is off for this reason: requests are
finite; `NeverAllWaiting` says for the store that stopping is not waiting), and the clocks stop at
`MaxClock`.

**Fairness.** Weak fairness of the steps of each request or call: the Go scheduler runs a goroutine
that can run, and a database call returns, with an error when its context ends. In `WebSession` a
request that was sent arrives, and its answer comes back and is handled unless it is dropped, as
`fetch` settles in the end. Nothing is assumed of users, arrivals, the clock, or failures.

### What the violated runs show

1. `rotation_same_token`: two requests present one token, both read it live, both revoke it and
   both store a successor. `DecideRotation`'s comment says the second "presents an already-revoked
   token" and triggers family revocation; nothing does until one of the tokens is presented again.
   The UPDATE of Revoke has no `revoked_at IS NULL`, and its row count is not looked at.
2. `rotation_late_successor`: a family is revoked for a replay while one of its rotations is between
   its two writes; the successor is stored afterwards and works. DECISIONS 2.7 wants it killed.
3. `limiter_shared_key`: the auth routes share one counter per address, so the limit of login is
   spent by refreshes. "Per-route" limits are compared with a count that is not per route.
4. `web_logout`: a call is answered 401 and starts a refresh, the user signs out, which clears the
   storage, and the answer to the refresh stores a new pair of tokens. The next load of the page is
   signed in again.

Three more sentences differ from the code; the models show it, without a run of its own. "`VerifyChain`
detects tampering" (`../src/README.md`, line 110) is so for what is hashed; `EditShows` is the exact
statement, and it has edits of severity, of fields and of large numbers that go unseen. `Tail`'s
comment has FOR UPDATE serialize concurrent appends, all but the first of a tenant; the lock ends with
Tail's own transaction, so any row can be raced for, which the retry covers (`ChainsVerify`), and
three concurrent calls can drop an event (`DroppedOnlyIfBeatenTwice` is the exact bound). And "on
Redis errors, fails open (allows)" is not what happens: the request is counted in the process
(`RedisFails`, then `MemoryAnswers`) and may be refused there.

## Theorems

Every property the passing runs check is a theorem for any values of the constants, the three
refinements and the liveness properties included, but for `NeverAllWaiting`, whose reason is one. The
liveness theorems state fairness in a form of their own, see "Liveness" below. The assumptions:

| Assumption | It says |
|---|---|
| `RotationAssumption` | `None` is no request and no record; TTL is positive |
| `AuditAssumption` | `None` is no tenant; calls are fields and values, which `Joined` and `Decoded` are defined on, and have a severity |
| `LimiterAssumption`, `CellAssumption` | limits and the window are positive; nobody stalls for longer than a window; finitely many requests and resends (they are counted); `None` is none of the others, and "redis" no process |
| `StoreAssumption`, `OrderAssumption` | new ids are new; the tables are the three of the service, applications among them; `None` is none of the others |
| `ProvisioningAssumption`, `RowAssumption` | new ids are new; roles are among the five of `rolePrecedence`; tokens live for a positive time; `None` is none of the others |
| `PipelineAssumption` | finitely many requests (they are counted), numbered; the routes are those of `Routes`; limits are numbers; `None` is none of the others |
| `SessionAssumption` | requests are 1 to some n, since they are sent in turn; there is a tab; `None` is none of the others |

`RefreshRotationProofs`, for all behaviours:

- The invariants of `rotation_overlap` are not inductive: that a successor replaces a spent token
  depends on what the request knew when it stored it. `Inv` adds what a request remembers
  (`RequestInv`: the record it decided on was in the table, with this family and account, and the
  table has only moved on since; the record it is about to store is live and of that family) and
  what a row owes to its history (`RowInv`: it was stored by a request that ended in it, its
  predecessor is spent, its family was opened by a row of the same account, and if it was killed
  its family has a rotated token).
- The argument: every statement moves the table one way (`KeptByStep`), so what requests that do
  not move remember stays true (`RequestFrame`), and so does what rows owe (`RowFrame`); then one
  case per action for the request that moves.
- From `InvHolds` follow `TypeCorrect`, `SuccessorsReplaceSpentTokens`, `SuccessorsStayInFamily`,
  `FamiliesHaveOneAccount`, `OnlyReplayKills`; from `KeptByStep`: `TokensNeverComeBack`.
- `NobodyIsLockedOut` needs more: a client is given its token at Answer, and by then a replay may have
  taken it. `LockInv` adds that only given tokens are presented, and that a stored token not yet
  given works unless its family was cut short, which stays on record.
- `SessionsStayOver` is about steps: a family that is over has no live row and no request allowed, or
  about to be, to add one (`Rotating`), and a login opens a family that has no row yet.

`SerialRotationProofs`, for `~Overlap`:

- `SerialInv` adds that a family has one refresh in flight (`OneAtATime`), that the record it
  decided on *is* the row until its own Revoke (`VerdictHolds`), that a family is spent between
  Revoke and Store and after RevokeFamily, and that no rotation is between its writes in a revoked
  family (`NoneRotating`).
- The argument: an allowed request holds the one live token (`AllowedIsLive`), so its Revoke leaves
  the family without one, and its Store gives it one.
- `FamiliesHaveOneLiveToken`, `TokensRotateOnce`, `ReplayEndsFamily`. The first two violated runs
  show that the assumption is needed.
- `RotationKeepsPromise` is the refinement: a login's Store opens the family, Revoke takes its token,
  Store gives the successor, RevokeFamily and a Fail between the writes close it, and every other
  statement is invisible.

`AuditChainProofs`, for all behaviours:

- That every chain verifies is not inductive: a row is good because of the tail its call read,
  possibly long before. `ChainInv` says that the rows of a tenant are numbered from 1 without a gap
  (`Numbers`), that each is linked to the one before it and hashed over what reads back, and that an
  entry under way is linked to a row that is still there (`Follows`). The unique index makes the
  number new; since rows are never removed, a link that was good when Tail was read stays good.
- From it `EveryChainVerifies`; `EditsShow`, for any `Joined` and `Decoded`: an edit that changes the
  text breaks the chain at its row and no earlier, any other leaves every row as good as it was;
  `RemovalsShow`; `CallsWriteOnce`; `AuditTypeCorrect`.
- `DroppedWhenBeatenTwice`: the number of the first attempt is above the rows the call first saw
  (`since`), and it was taken; so when the tail is read again there is one row more, and
  the number of the second attempt, above that one, was taken as well.
- `LogKeepsTrail` is the refinement of `AuditTrail`: an insert appends to the trail of its tenant,
  because its number is the length of the trail plus one.

`RateLimiterProofs`, for all behaviours of Redis, the processes and the fallback at once:

- Redis and the processes are treated alike, as backends with a cell per key. A cell counts no more
  than the requests that may be in it (`CountInv`, `Member`: the backend answered them since its window
  began, or a process gave them up after Redis may have run the script) and the resends since
  (`Repeats`); a refused request has its
  cell as it left it until it may come back (`RetryInv`).
- For the bound on bursts the invariant keeps two sets of admitted requests per cell (`Windows`): X in
  its window and Y in the one before it, each no larger than the limit, all others a window older.
  A stretch shorter than a window by a stall cannot reach past both.
- `BurstIsBounded`, `DeniedIfSpent`, `RetryAfterIsHonest`, `LimiterTypeCorrect`.
- `OwnRouteIfKeysUnshared` is what is left of the sentence `limiter_shared_key` violates: it holds as
  long as no key was asked for on two routes and no script was sent again.

`TenantStoreProofs`, for all behaviours:

- `OwnRowsOnly` is not inductive: what a statement sees depends on the setting its connection has by
  then. `Inv` adds that a connection has one holder, and only inside a transaction (`HeldInv`); that
  a connection has no setting beyond its transactions, and inside one, from `Bind` on, that of the
  tenant of its holder's order (`SettingInv`); and that every row has a tenant and no request has an
  answer before its statement (`RowsInv`).
- The argument: `Begin` takes a free connection, only `Bind` writes a setting, its holder's, and
  the end of the transaction takes it back; a statement reads through the policies, so what it
  reads is of the tenant bound. `TenantsAreIsolated` and `FreeConnectionsSeeNothing` follow.
- For the refinement a write is computed in one step and takes effect in another. `StoreInv` adds that
  ids are unique and taken only by requests that committed (`NumberInv`), and that what an open
  transaction will change is at any time what its order asks of the rows *as they are now*
  (`DoesAsAsked`), since no two of them change one row. So Commit is one step of `TenantDatabase`:
  `StoreKeepsPromise`, and `StoreTypeCorrect`.
- `RequestsNeverAllWait` is `NeverAllWaiting` with the guards of `Proceed` written out (`MayProceed`):
  who waits for a connection holds none, and who waits for a row waits for a transaction whose next
  step is its Commit. It needs a connection and a tenant.

`ProvisioningProofs`, for all behaviours:

- `UpdateWrite` writes a whole row that was read earlier. E-mails stay unique because the e-mail read is
  still that of the row (`UpdateInv`), as no update changes it; rows stay whole because the
  request a row is named after has ended, and wrote the activity that the row has (`NameInv`).
- A role lives on in a token because of three delays: `Was` says of a request that has resolved a role,
  and of a token, that the role is held or was taken away no longer ago than they may be old.
- `OneAccountPerEmail`, `RowsStayWhole`, `CreatesAreWhole`, `RoleLagIsBounded`; the invariant
  (`ProvisioningInvHolds`) includes `TypeOK`.

`RequestPipelineProofs`, for all behaviours:

- `QuotaInv`: a counter is the number of requests counted in its window. `ChainInv`: what is left of a
  chain ends in the limit, so a request that was counted has a user if its route needs one, and is
  refused for nothing that comes before the limit. `QuotaSpentByTheEntitled` follows.
- `SinkInv`: an event stays with its request until both sinks had their turn, the log first.
  `NoEventIsLost` follows.
- `PipelineTypeCorrect`; only the counters need more than the step for it.

`WebSessionProofs`, for all behaviours of browser, network and service together:

- Every step is one of `RefreshRotation` or leaves the table alone (`ServerSteps`), so the invariant of
  `RefreshRotationProofs` holds of the table; its theorems are cited, not proved again.
- `TokenInv` is what the browser contributes: a refresh that is pending is the flight of its tab, and
  what one used up is not stored once its answer was handled *and stored*, or, if the storage would not
  be cleared of it, was refused for cause. So one tab presents a token twice only after an answer
  was lost or not stored, or for cause (`PresentedInv`). `RowBlame` gives every revoked row an author, the request that rotated it or
  one that found a revoked row of the family; `SeenBlame` says that who finds one does so in a family
  that was disturbed.
- `ExpelledForCause` and `StoredWorks` follow, and `SessionTypeCorrect`.
- `TableStaysSound`: what rotation promises whatever overlaps holds behind any number of tabs too.
- `QuietLogoutLasts` is what is left of the sentence `web_logout` violates: where the storage is empty
  and no refresh is awaited, none is started, and only an answer to the login form stores a token.

### Liveness

`RequestsEnd`, `RecordsReturn`, `RequestsAreAnswered` and `CallsSettle` are the liveness properties of
the runs, for any number of requests, calls and tabs. The prover has no rules for ENABLED, so these
theorems are about `Spec` with fairness written out: `Runs(r)`, which says that again and again r
either is not under way or takes a step of its own (in `WebSession`, `Answers` for requests and
`Returns` for calls). That is what weak fairness of r's steps says when r can take one for as long as
it is under way, and that it can is the lemma `GuardHolds` of each module, from the inductive
invariant: the record that was read is always one DecideRotation has a branch for, the number Append
wants is free or makes it conflict, what is left of a chain has a middleware for it, the refresh a
browser awaits presents a token it was given. The last link, from these guards to ENABLED, is not a
theorem; TLC finds `Runs` to follow from `FairSpec` on instances like those of the runs. `FairSpec` of
`RefreshRotation` and `Runs` assume as little: neither failures nor arrivals are forced.

The argument is the same in all four. `Left(r)` bounds the steps r has left. Its own steps make it
smaller (`ProceedsForward`, `AdvancesForward`, `ActsForward`); nobody else's makes it larger
(`NeverBack`), which is where interleaving matters: no other request can send r back, not even by
winning the race for a row. So a bound that holds goes on holding until r moves, and the next lower
one holds then. In `WebSession` a call waits for a refresh it may not have started: `FlightInv` and
`WaitInv` say that who waits, waits for the flight of its tab and that the flight is under way, so the
end of that refresh (`EveryWaitEnds`) settles the call or sends it once more, and never again. So it is
never under way for good, which is how `EveryCallSettles` puts it.

### Only model-checked

`NeverAllWaiting` as it stands, since it has ENABLED in it, and that `FairSpec` gives `Runs`, for the
same reason. What the violated runs show has no theorem; theorems say where the sentences do
hold (those of `SerialRotationProofs` for the first two, `OwnRouteIfKeysUnshared`, `QuietLogoutLasts`).

## Not modelled

- Tenants (a read-only registry), password hashing and the signing of access tokens (cryptographic
  libraries without state), the fields of the domain types, the demo seed (a sequential command), the
  views of the web client, logging, configuration, shutdown and deployment.
- Deactivation of users and changes of roles in `RefreshRotation`: an account that can log in stays so;
  `Provisioning` has both, with refresh tokens reduced to the user they name.
- Listings of users and of the audit log: they only read, as the listings of `TenantStore` do.
- References to lots and campaigns: applications name them by bare ids, and no statement follows them.
- Rows of `app.refresh_tokens` that go away with their user: no operation of the service deletes users.

## Plan

Done: every module of the plan, its runs, and its properties and refinements as theorems.

Left, none of it needed by what is proved:

1. The restart of a process in `RateLimiter`, which empties its buckets, and what then remains of
   `BurstBounded`.
2. The registry of tenants, and the listings of users and of the audit log, as reads of `TenantStore`.

Two hazards of `PROJECT.json` stay without a property: nothing says that a refresh should look at
`is_active`, and buckets that are never removed are no question about the order of steps.
