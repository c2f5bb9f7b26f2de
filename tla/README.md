# A TLA+ development of the RPA market server

The repository is a Go server (`main.go`, `common/`, `services/`) in front of PostgreSQL,
Redis, MinIO and RocketMQ. Several copies of the server may run against the same stores. This
directory holds TLA+ modules translated from its source, TLC configurations that check them on
small instances, and proofs checked by TLAPS. All paths below are relative to `src/`.

Contents: [1 Inventory](#1-inventory), [2 Modules and plan](#2-modules-and-plan),
[3 Models](#3-models), [4 Runs](#4-runs), [5 Fairness](#5-fairness), [6 Disagreements with the
documentation](#6-disagreements-with-the-documentation), [7 Proofs](#7-proofs),
[8 What is only model-checked, and what is not modelled](#8-limits).

## 1 Inventory

| Component | State it keeps | Operations | Talks to |
| --- | --- | --- | --- |
| Wallet service (`services/wallet`) | tables `wallets`, `wallet_transactions`; row locks and entries of the unique index on `idempotency_key` while a transaction runs | GetOrCreateByOwner, Credit, Debit, DebitInTx, Transfer | PostgreSQL; called by Orders in Orders' transaction, and over gRPC |
| Orders and entitlement outbox (`services/order`) | tables `orders`, `entitlement_outbox`, `subscriptions` | Create, Pay, Purchase, Cancel, CancelExpiredPendingOrders, the outbox worker | Wallet, PostgreSQL, Redis lock |
| Redis lock (`common/utils/lock/redis_lock.go`) | one key per lock, with an expiry | TryLock, SpinLock, Unlock | Redis |
| Market: publish, update, delete (`services/market`) | table `apps`, objects in MinIO, publish locks | PublishApp, UpdateApp, OffShelfApp, DeleteApp | PostgreSQL, MinIO, Redis, the retry table, the audit writer |
| Market: detail cache | one key per app in Redis, a singleflight group per process | GetAppDetail, the invalidation by every change | PostgreSQL, Redis |
| Market: download and ranking | table `app_download_metrics`, sorted sets by day, week and total, kept answers | DownloadApp, recordDownloadRank, GetRankings | PostgreSQL, Redis, MinIO |
| MinIO delete retries (`common/audit/audit.go`) | table `minio_delete_retries` | RecordMinioDeleteRetry, the worker of every process | PostgreSQL, MinIO |
| Audit writer (`common/audit/audit.go`) | a channel, a batch, `closed` | Start, Emit, Shutdown | PostgreSQL |
| Audit export (`common/audit/export.go`) | a cursor, two pipes, an object | ExportCSV, its handler, the upload | PostgreSQL, MinIO |
| Lists by page (`services/admin`, orders, apps) | none | List..., by page number | PostgreSQL |
| Circuit breaker (`common/middleware/broker.go`) | `state`, `failureCount`, `lastFailure` | Allow, ReportResult | wraps every HTTP handler |
| Request pool (`common/middleware/request_pool.go`, `common/utils/pool`) | a bounded pool of goroutines | submit, run, release | in front of the breaker |
| Limiters (`common/middleware/rate_limit*.go`, `redis_sliding_window.go`) | a bucket per address in memory, or a sorted set per address in Redis | GetLimiter, Allow, cleanup, the Lua script | Redis |
| Start and stop (`main.go`) | deadlines | gracefulShutdown, stopGRPCServer | all of them |
| Sessions and JWT authentication (`common/middleware/auth.go`, `services/iam`) | one session per user in Redis, table `users`, avatars in MinIO | register, login, renewal, profile, password and avatar changes | Redis, PostgreSQL, MinIO |
| Casbin authorisation (`common/utils/casbin_*.go`, `common/queue/rocketmq`) | an enforcer per domain in an LRU with a lifetime, per process | GetEnforcer, InvalidateDomain, PurgeAll, PublishCasbinSync | PostgreSQL, RocketMQ broadcast |
| Groups, roles and permissions (`services/iam`) | tables `groups`, `group_members`, `role_permissions` | register, rename, invite, kick, leave, dissolve, replace permissions | PostgreSQL, then a Casbin broadcast |
| Kafka client, versioned cell | offsets; a version and a value | Consume; TryUpdate, UpdateWithRetry | no callers in the program |
| Entitlement domain, wiring and configuration, metrics and logs, clients of the stores, protocol buffers, front end | none that another component relies on | reads, formatting, wiring | |

Interactions: an HTTP request passes the request pool, the breaker, the limiter, JWT and Casbin and
reaches a handler. The handlers share nothing in memory but the breaker, the buckets, the audit channel,
singleflight groups and the enforcer cache; they meet in the stores. Paying an order debits a wallet
inside the order's transaction and leaves an event in `entitlement_outbox`; a worker in every process
turns events into subscriptions. Deleting an app that leaves its object behind puts a row into
`minio_delete_retries`, which a worker in every process works off. A change of groups or roles is
followed by an invalidation of enforcers, on the node itself and by a broadcast.

What is hard, and what makes each part correct:

* **Wallet**: locks on one or two rows, look-ups before and after the lock, waits in a unique index,
  answers lost after a commit, retries with the same key, decimals that the column rounds. Correct:
  rows add up to balances, answers are durable, no circular wait, a key is spent once; all this is one
  statement, that it implements a one-step ledger.
* **Orders**: payments, cancellations and the sweeper meet on one row; outbox workers race,
  lose their Redis lock, fail and die. Correct: paid means debited with an event, one subscription
  per order, an event is handled by one worker, a paid order gets its subscription in the end.
* **Market**: three stores without a common transaction. Correct: a row's object exists, an object
  without a row is being dealt with, one app per key, the cached details and rankings settle, the four
  counters of a download agree.
* **Delete retries**: workers act on snapshots of the table and overwrite each other's rows; stops and
  ignored errors. Correct: done means gone, no row is given up too early, rows settle.
* **Audit writer and export**: producers, a ticker and a shutdown that closes the channel; pages behind a
  cursor while rows come in late. Correct: nothing accepted is left behind; an export has no gap, and one
  that failed is not stored as if it were whole.
* **Breaker, pool, stop**: read, decision and report are three critical sections, and what runs them is
  being shut down. Correct: closed exactly below the limit, no lock-out, nothing is closed before what uses it.
* **Limiters**: a bucket may be deleted in a request's hands; scripts run by clocks that disagree. Correct: no
  more requests than one bucket, or one window, lets through.
* **Accounts**: handlers save whole rows they have read before; the middleware writes back a session it has
  read before. Correct: a session does not outlive its password, a session that ended does not come
  back, a row's avatar exists; each with the crossings that break it named exactly.
* **Casbin, groups, roles**: loads under way when an invalidation comes, lost broadcasts, replacements of one
  role's permissions at READ COMMITTED. Correct: a stale enforcer is awaited by its invalidation
  or dies of age, the superadmin is never locked out, an owner belongs to the group.

## 2 Modules and plan

| Module | Models | Uses |
| --- | --- | --- |
| `WalletLegs` | the legs (rows) of a request and its keys | |
| `Ledger` | abstract: a ledger that posts a request in one step | `WalletLegs` |
| `Wallet` | `services/wallet/repository` | `WalletLegs`; implements `Ledger` |
| `Orders` | `services/order/repository`, the Redis lock | `Ledger` for the debit inside a payment |
| `Market` | publish, update and delete in `services/market/app/market.go` | |
| `DetailCache` | the cached app details, same file | |
| `Rankings` | downloads and rankings, same file | |
| `RetryTable` | abstract: what the retry table promises | |
| `MinioRetry` | the retry half of `common/audit/audit.go` | implements `RetryTable` with one worker |
| `AuditWriter` | the writer half of `common/audit/audit.go` | |
| `AuditExport` | `common/audit/export.go` | |
| `CircuitBreaker` | `common/middleware/broker.go` | |
| `Gateway` | the request pool, gRPC calls and `gracefulShutdown` | extends `CircuitBreaker` |
| `RateLimits` | both limiters | |
| `Accounts` | users, sessions, avatars, `JWTAuth` | |
| `Listings` | the lists that are read by page number | |
| `Policies` | groups, members, permissions of roles | |
| `PolicyCache` | `CasbinRequire`, enforcers, invalidation and broadcast | extends `Policies` |
| `WalletProofs`, `OrdersProofs` | theorems | `Wallet`; `Orders`, `Sums` |
| `AuditProofs` | theorems | `MinioRetry`, `AuditWriter` |
| `MarketProofs` | theorems | `Market`, `DetailCache`, `Rankings`, `Sums` |
| `GatewayProofs` | theorems | `Gateway` and in it `CircuitBreaker`, `AuditExport` |
| `AccountsProofs` | theorems | `Accounts`, `RateLimits`, `Listings` |
| `PolicyProofs` | theorems | `PolicyCache` and in it `Policies` |
| `Sums` | sums over finite sets and the lemmas about them | |
| `MCWallet`, `MCOrders`, `MCMarket`, `MCIam` | the instances of one component | |
| `MCAudit`, `MCReads`, `MCAccounts`, `MCGateway` | instances of two or three components that share no state | `MinioRetry` and `AuditWriter`; `DetailCache` and `Rankings`; `RateLimits`, `Accounts` and `Listings`; `Gateway` and `AuditExport` |

Where an MC module puts components together that share no state, a variable `part` says which of them a
behaviour is about, and the others stay as they began: the states are the sum, not the product, and
the fairness of each part is that of its own specification. What composes components that do interact is
in the modules themselves: `Orders` posts through `Ledger`, `Gateway` runs the actions of `CircuitBreaker`
inside its tasks, and `PolicyCache` decides who may take the steps of `Policies` and drops what they
change.

A proof module that covers several components puts their theorems side by side: the components share no variable,
and each theorem is about the specification of one of them.

Left of the plan: small modules for the Kafka client and the versioned cell once something calls them.

## 3 Models

**Wallet.** A client is a goroutine with a database connection. `pc` follows its transaction: `lock`,
`apply`, `insert`. Committed tables (`wallet`, `ledger`) change only in `Commit`; locks (`held`), copies
(`seen`) and index entries (`rows`) belong to the running transaction. `Existing`/`Replayed` are the
look-ups of the key (`findExisting...`), once before the lock (`ReplayUnlocked`, `Begin`) and once under
it (`ReplayLocked`). `LockWallet` is `SELECT ... FOR UPDATE`, in id order for transfers. `Apply` is
`Deduct`/`Deposit`; `InsertRow` waits for an uncommitted entry with its key and fails on a
committed one. `Commit(c, told)` with `told = FALSE` is the lost answer; `Disconnect` is any broken
connection. Amounts are integers, `Unit` of which make one unit of `DECIMAL(18,4)`: `Unit = 1` says that
clients send what the column can hold, `Unit = 2` that they send half units. Keys derived for the
two rows of a transfer (`<key>:out`, `<key>:in`) are sequences, so that a client can send one of them.

**Orders.** A transaction is a step that locks and reads the order (`view`) and a step that commits what
follows from that copy, because other processes can act in between. `Pay` debits through
`Ledger!Post`. The outbox worker claims (`pending`/`failed` to `processing`, committed), takes the
Redis lock of each event, grants in one transaction, and releases or marks as failed; every
call that can fail has its failing variant, bounded by `MaxErrors`, a claim that commits and reports an
error among them (`ClaimUnseen`); deaths and lost failure marks are
bounded by `MaxCrashes`. The Redis lock expires on its own (`30 s`), also while it is still used.

**Market.** A publication takes the lock (`SETNX` for two minutes, its deletion unconditional), uploads,
inserts under the unique index, and compensates. A deletion removes the row, then the object, then
records a retry. Every call can fail, before or after it took effect, and a process can die between
any two. An update stores the JSON of the client as the whole metadata (`ReplaceMetadata`): the
idempotency key and the object name in it may be another app's, or nobody's, and what a later deletion
removes is what the metadata names then. The model keeps of metadata these two (`meta`); `Edits` says which an
instance tries. History variables name what the code cannot know: `ghosts` are apps whose insert took
effect though its caller saw an error, `dropped` are apps whose object was let go of by a mishap
that is only logged or not noticed at all (a failed upload or compensation, a lost retry row, a
deletion reported as failed, metadata that names it no more, a crash), `rewritten` are apps whose metadata was replaced, and
`borrowed` those whose object was named in the metadata of another app. The properties name these sets where the
code makes an exception, so that everything else is held to them.

**DetailCache.** Versions of one app's row are numbered; `entry` is what Redis holds, as the version and the
newest version at the time it was stored. `Write` commits a version, `Invalidate` is the `DEL` that
follows, `MissInvalidation` every way it can fail to come. Readers pass `GET`, the singleflight group
of their process (`flight`), the load, the `SET` and the return, which releases those who waited. An entry
may be stored after the `DEL` that should have removed it; the module has that step, as the code does.

**Rankings.** A download takes the date, counts in the table (`CountInTable`), then in the three sorted sets, whose
commands a pipeline sends one by one and another client may come between (`CountInSet`, and `SetLife` for the
`EXPIRE` of the sets of the day and the week), then deletes the
kept answers of the default limit (`DeleteAnswers`). A set whose life is over may go on any day (`SetExpires`); the
constant `Life` is 2 and 15 days in the code, and of it is assumed only that a set of a week outlives its week. `expired` names
the sets that have gone, and `spoilt` the apps of which one of these calls failed or was repeated. A viewer reads a set, joins it with the published apps and keeps the answer; each is a step,
so an answer may be kept after the download that should have deleted it.

**MinioRetry.** A worker loads due rows into memory and handles them one at a time from that copy, as the
code does: it writes `attempts` computed from its copy. `next_run_at` is the flag `due`, which time sets. With
two workers copies go stale.

**AuditWriter.** `Emit` is two steps, the test of `closed` and the send, as in the code, which releases the
mutex in between; a full channel drops the event. `Flush` inserts a batch; its failure loses the batch
(the code logs it).

**AuditExport.** Rows are numbered in the order of `(created_at, event_id)`, several may have one time, and an
`Insert` may make an older row visible at any moment, as writers of several processes do. `Query` is
a page behind the cursor; `WriteToClient` and `WriteToObject` are the two writes of the `MultiWriter`, each waiting
for its reader; `Close` ends both pipes. The client may leave with a part of what was sent (`Disconnect`) and
`Resume` behind the last row it has. `known` and `due` remember what was visible when it began.

**CircuitBreaker, Gateway.** `ReadState` is the critical section of `Allow`, `Admit`/`Probe`/`Reject` its decision,
and the reports are `ReportResult`. Times are ages in ticks, cut off above `Timeout`. `Gateway` puts the pool around
it: the goroutine of a connection submits without blocking or is turned away, the task runs the breaker and what
is inside, also when it panics, and its worker comes back to the pool a moment later. `gracefulShutdown` is
`Signal`, `HttpStops`, `GrpcStops`, `AuditStops`, `PoolsStop`; each waits until its users are gone or its
deadline has passed, and two deadlines are steps of their own.

**RateLimits.** One address. A request fetches the bucket under the read lock, makes one under the write lock if
there was none, and takes a token later, under the bucket's mutex only. The cleanup compares the last activity of a bucket
with `TTL` (`FindIdle`) and deletes it (`Cleanup`); both are under the lock of the map, but a request that holds the
bucket may use it in between, as it may later. `credit` is a bucket that is never deleted, as a measure; tokens taken from
a bucket that was found idle are not charged to it. The Lua script is one step at the time `now`
its caller read before, which lags by `Delay` or leads by `Skew`; an unreachable Redis lets the request pass.

**Accounts.** Requests arrive from devices that keep cookies. `JWTAuth` is `Authenticate`, or `Renew` and then
`WriteBack` when the token has expired and the session has not; a handler then finds its row (`Find`), works on
the copy and saves every column (`SaveProfile`, `SavePassword`, `SaveAvatar`). A password change ends the
session after its save (`EndSession`); an avatar is uploaded, the old one removed, the row saved. Each call can
fail. `loose` and `astray` name the users with whom a crossing or failure that the code does not exclude has happened.

**Listings.** Ten lists of four shapes: what they are ordered by, whether a row can enter or leave the filter, and
whether it can be deleted. `Select` is one page by `OFFSET`; between pages rows are inserted, touched, enter and
leave. `Touch` gives a row any other time: the trigger writes when its transaction began, so a row moves down when one
that began later has come first. `stayed` are the rows that matched all the while and shared their time with no
other, and `shaken` says that a row which matched has left the list or moved down in it.

**Policies, PolicyCache.** A call arrives at a node, is let through by the enforcer of its domain (`Hit`, or `Expire`
and then `BeginLoad`, `LoadMembers`, `AddEnforcer`, which those that wait share), runs its handler statement by
statement, and then drops enforcers (`Invalidate`) and broadcasts (`Publish`), or answers with an error that its change, which
took effect, was reported with, and does neither (`ChangeUnseen`). Replacing permissions is a transaction at
READ COMMITTED: `BeginDelete` is the snapshot, `DeleteGrants` deletes the rows of it that are still there and waits for those
another transaction holds, `InsertGrant` waits for open entries of its key. An enforcer is `late` when an
invalidation passed its load, was lost or was left out, and `old` when its lifetime is over; `bereft` are the groups whose owner
was kicked or that were saved after they were dissolved. `Restart` takes a node's caches, messages and calls.

## 4 Runs

| Run | Asks | Instance, and why it is enough |
| --- | --- | --- |
| `WalletService` | do rows, balances, keys and answers stay consistent, can transactions wait in a circle, is every request one step of a ledger, does every transaction end | two clients, three wallets, five requests, of which two are sent twice: opposite transfers, one of them retried with its key; a debit and a credit of different wallets that share the key which this transfer derives, so that no row lock keeps them apart; a credit that fills the column whenever it succeeds. One wallet is frozen and thawed. Two clients are what it takes for each conflict |
| `WalletRounding` (violated) | do rows add up when amounts are finer than the column | one client, half units |
| `OrdersSafety` | money, status, events and subscriptions | two clients, two workers, two orders; one error and one crash at any point; a balance that pays for one dear or two cheap orders |
| `OrdersOutbox` | is a paid order granted in the end unless an accident strands its event, and what strands one | two workers, two orders, one error (a claim's unseen commit is one), one crash or lost failure mark |
| `OrdersStuck` (violated) | is the event recoverable when a worker dies | one order, one worker, one death |
| `Publishing` | one app per key, rows have their objects, objects without a row are dealt with | three publications, two with one key and one without, one deletion, every mishap at every step; the metadata of one app is replaced by what names the object of another that may or may not be there, and that of the other by what takes the freed key over |
| `MarketCommit` (violated) | the documents' sentence about rows and objects, without the exception of `ghosts` | two publications |
| `Reads` | does the cache converge, is an old entry awaited by a deletion, does every read end; do the counters of a download agree, do the rankings settle | details: two readers in one process and one in another, and two writes, a publication and then a change or a deletion. Two readers share a load, the third races with it. counting: two downloads on two apps or one, three days, weeks of two days, sets that live for one day and for two, at most one app spoilt: a set may expire while a download counts in it, and one made anew is counted in later. Lifetimes and weeks are scaled down together, a week is still shorter than its set lives. showing: one download and one viewer on two days, the default limit and a smaller one, one app that goes off the shelf or on |
| `Audit` | does a retry row stay truthful and settle when two processes work on it, and who may depart from the abstract table; is everything accepted handled | retries: two rows about one object, two workers, two attempts, one lost update, one stop. events: four events, channel and batch of two, so that both fill up and overflow |
| `Accounts` | do the limiters hold; do sessions, passwords and avatars agree; does a client that pages to the end miss a row | limits: four requests, a bucket of two, a window of four ticks that lets two pass, scripts late or early by one tick, six ticks; a request may use its bucket between the check and the deletion. accounts: three requests of any kind, two users with a device each and two emails; every pair of handlers crosses, with a third to see what it left. lists: three rows, four times, pages of one row, all ten lists; rows move up and down |
| `Iam` | is the superadmin ever locked out, do owners belong to their groups, is a stale enforcer awaited, do enforcers converge | groups: two calls out of thirteen on two nodes, with loads, lost messages, changes reported as failed, evictions and restarts. roles: three replacements of superadmin's permissions on one node, so that one can wait for the row that the second takes from the first |
| `Gateway` | is the breaker closed exactly below the limit, does it open again, is anything closed before its users; has an export a gap, is a part ever stored, does an answer end | gateway: two requests and a gRPC call, limit 2, a pool of two workers, both deadlines. export: four rows, two of them of one time, pages of two, with and without a limit of three, two filters, and any number of resumed calls |

Bounds: constants named `Max...`, `Horizon`, `Days`, `Arrivals`, `Visits`, `Calls`, `Logged` and `Items` bound how much the
environment does (requests, time, errors, crashes), never what the code does about it. `Capacity`, `BatchSize`,
`BatchLimit`, `PageSize`, `Limit`, `Workers` stand for settings of the program and are small so that they are reached.

Deadlock checking is off in all runs: a server without requests, or one whose bound of requests is
used up, rests. Symmetry is used in `OrdersSafety` only, for clients, workers and orders, which no
definition tells apart.

## 5 Fairness

* `Wallet`: strong fairness for each client's next statement. PostgreSQL queues the transactions that wait
  for a row, so a lock that is released again and again is granted in the end; `lock_timeout`
  is not set. A transaction may also be broken off, which is not assumed to happen.
* `Orders`: weak fairness for the worker's steps (a loop on a ticker, `StartEntitlementOutboxWorker`), for the
  expiry of Redis keys, and strong fairness where it needs a row lock or a Redis lock others hold in turns.
  Errors are finitely many (`MaxErrors`); with errors for ever nothing could be granted.
* `CircuitBreaker`, `Gateway`: time passes and `Allow` returns. That requests come, or handlers end, is not assumed.
* `AuditWriter`: the writer goroutine, its ticker and the insert make progress; producers need not.
* `AuditExport`: the database answers, and who reads a pipe goes on reading it. Connections and uploads may break.
* `MinioRetry`: the worker's loop, the ticker, and that `next_run_at` is reached. Removals may fail for ever.
* `Market`: handlers run to their end (every call has a timeout), the publish lock expires, and the retry table
  does what `Audit` shows.
* `DetailCache`: calls return and keys expire. Writers need not delete the entry.
* `Rankings`: calls return and kept answers expire after their ten seconds. Nobody need come.
* `PolicyCache`: handlers and loads go on, and an entry reaches its lifetime (`ttl`). Messages need not arrive.
* `Accounts`, `RateLimits`, `Listings`: none; their properties are safety.

## 6 Disagreements with the documentation

Runs marked "violated" check a sentence of the repository that the code does not keep. `PROJECT.json`
quotes each one. In short: amounts with more than four decimals make rows and balances drift
(`WalletRounding`); a worker that dies after its claim leaves a paid order without a subscription
(`OrdersStuck`); a commit whose answer is lost makes the compensation delete the file of a published
app (`MarketCommit`).

The modules contain further behaviours that a reader of the documents would not expect. No property
states their opposite; where a property has an exception, it names them:

* The comments in `Allow` (`broker.go:74`, `:78`) speak of one probe; `Admit` lets every request
  through that reads the half-open state. A late success closes an open breaker before its time
  (`ReportSuccess`), whatever `broker.go:43` says of the cooling time.
* `Emit` reads `closed` under the mutex and sends after releasing it: `Send` on a closed channel
  panics (`audit.go:81`).
* An update of a retry row whose error is ignored is an attempt that was not counted, so a row can get
  more than five (`LoseUpdate`, `audit.go:165`).
* A failed compensation is recorded nowhere (`RemoveUploaded`, `market.go:252`), and an update with
  metadata puts whatever the client sends in the place of the object name and the idempotency key (`ReplaceMetadata`,
  `market.go:303`): a deletion then removes the object it names, another app's too, and a later publication with the old key
  is not recognised. The properties about objects except apps whose object another app's metadata has named (`borrowed`),
  those about keys apps whose metadata was replaced (`rewritten`).
* A claim whose commit takes effect but reports an error leaves its events in `processing` with nobody to handle them
  (`ClaimUnseen`, `order_repository.go:401`), as a death does and a failure mark that is lost.
* The renewal of a token writes back the session it read (`WriteBack`, `auth.go:79`): a login elsewhere or a
  password change in between is undone, although `doc/归档.md:56` says that a new login drops the
  old device. `RetiredStaysOut` excepts the renewals that had read before, and nothing else.
* `Save` writes every column of a row read earlier (`user_auth.go:204`): a profile change that crosses a password
  change restores the old hash.
* Two replacements of one role's permissions that cross may leave the union of both (`role_repository.go:101`). When
  a change of a group or of permissions takes effect but the handler is told of an error, it answers with the error and drops no
  enforcer on any node (`ChangeUnseen`, `group_auth.go:110`, `role_auth.go:73`). A group dissolved while it is being renamed comes back without members
  (`SaveGroup`), and an owner can be kicked.
* A bucket's `TTL` may be set shorter than it takes to fill; nothing checks it, and `BurstBounded` speaks only of a `TTL` that
  is not (`LongEnough`). A request that holds the bucket when the cleanup finds it idle takes its token from a bucket that
  is then deleted, and the next finds a full one (`rate_limit.go:93`).
* The set of a day expires two days after it was last counted in, that of a week after fifteen (`market.go:567`, `:571`):
  from then on it counts nothing of what the table has for these days. `CountersAgree` says that no set which is read today does so.
* After a failed upload, or when a client has left, nobody closes the reader of that pipe: the exporter's goroutine waits
  for good (`doc/八股/golang.md:936` warns of just this), and after a failed upload the answer has no end
  (`AnswerEnds` excepts it). An error half-way ends an answer whose status 200 was sent long before.
* Download counters are never brought together again after a failed call (`spoilt`); answers for limits other than the
  default only expire, and the key of an answer has no date.
* A page and its count are two statements without a common snapshot, and pages by `OFFSET` lose rows when a row leaves the
  list, or moves down in it because a transaction that began earlier comes later (`NothingMissed` says when they do not).

## 7 Proofs

All theorems hold for every value of the constants that satisfies the named assumptions of the
modules. Each rests on an inductive invariant; the properties are those of the runs.

* **WalletProofs.** `TypeInv` adds to the type invariant what the copies of a running transaction may be.
  `KeyInv` says that keys of committed rows and pending index entries of different clients never coincide,
  which is what the unique index does and gives `KeysSpentOnce`. `BalanceInv` says that the copy of a locked
  wallet is the committed row (before `Apply`) or that row plus the leg (after), because only the holder of
  the lock changes it. `LedgerReconciles`, `WalletImplementsLedger` and `WalletAckedIsDurable` assume `Unit = 1`:
  amounts that the column stores exactly. `WalletRounding` shows the assumption is needed. The
  refinement maps `Commit` to `Post` and every other step to a stutter. For `WalletAckedIsDurable` a commit
  writes one row for each leg (`CommitWrites`), the rows only grow (`LedgerGrows`), and a key and a direction name
  one leg (`LegOnUnique`). `LockOrder` says that every wallet a transaction holds comes before those it has still to
  lock. Of a set of clients that all wait for each other, those at an insert hold all their row locks and wait only
  for an entry of a client that is inserting as well, which waits for nobody; the others wait for
  rows, and the one that waits for the highest cannot wait for one of them: `WalletNoCircularWait`, for a
  finite set of clients (of infinitely many each could wait for the next).
* **OrdersProofs.** `LockInv` ties an order's row lock to the one transaction that holds it and to its copy; `TaskInv`
  says what a task may be in each of its places; `RowInv` ties status, event and subscription of a row; `DebitInv` counts the
  debit rows of an order; `KeyInv` is the unique index; `WorkerInv` says that what a worker has in hand is in
  `processing` and in nobody else's. Together they give the theorems. `OrdersOnlyFaultsStrand` says which steps take the event
  of a paid order out of all hands: a death of the worker that handles it, the loss of its failure mark, and a claim whose commit
  is not seen; `OrdersStuck` shows that the first does.
  `MoneyInv` says that a user has finitely many paid orders and that their prices and the balance make up the
  opening balance. It needs the rest: that a payment finds its order unpaid under the lock (`LockInv`), and that nothing
  changes the item of a paid order. One step, the commit of a payment, adds an element to the sum (`PaymentAddsUp`); all
  others leave it alone (`Settled`, `SettledKeeps`): `OrdersPaidIsDebited`.
* **MarketProofs.** `Inv` types the state and says that the keys of rows differ (the unique index, whatever clients
  write), that a row has the key it was published with until its metadata is replaced, that it names its own object, none, or one
  that is borrowed, and that an app which has not passed its insert has no row. `ObjectInv` adds that a
  publication at its insert has its object unless that is borrowed, that one which removes its object has no row a truthful
  answer was given for, and that a deletion or a retry row which may remove an object is about a row that is
  gone for good or about an object that was borrowed; with that `MarketPublishedHasObject` holds through every mishap and for
  any metadata, of every row that names its own object.
  `OrphanInv` adds to `OrphanIsTracked` that a row without its object's name, and a deletion that read such a
  row, has let go of the object already; a step touches one app only (`PublishOrphan`, `DeleteOrphan`).
  For the details, `LoaderIsKnown` (a reader that loads is the one its process's group names) gives
  `CacheOneLoadPerProcess`; `OldIsAwaited` is inductive with the types, because a store is stamped with
  the newest version and a deletion takes the entry with it.
  For the counters, `CountInv` says of every key and every app that is not `spoilt` that the score and the number of downloads
  which the table has and this key has still to count (`Behind`) make up what the table has on the days of the key.
  A download that is recorded in the table adds one to a day and joins those behind; one that is
  counted in a set leaves them. It speaks of the keys that have not expired, and `LifeInv` says that only sets whose days are
  all over may expire, so today's have not. When the downloads of an app are over nobody is behind, and a key's days are one
  day, a week or all: `RankingsCountersAgree`.
* **AuditProofs.** `Inv` types the table and the copies; `SnapshotInv` bounds a row's `attempts` and those
  of every copy by the failed removals so far, which survives that workers overwrite each other;
  `InHandInv` says that a worker about to write `done` has removed the object; `AloneInv`
  says that with one worker the copy equals the row. They give `RetryDoneIsGone`, `RetryCountsFailures`
  and, with `AloneInv`, the refinement `OneWorkerKeepsPromise`. With any number of workers, a step on a row that is still
  pending is a step of the abstract table, and any other is that of a worker whose copy was outrun: `WorkersKeepPromise`.
  For the writer, `BuffersInv` bounds the channel and the batch and says that a full batch is inserted before anything is received
  (`AuditBuffersBounded`); `DrainedInv` says that the writer ends only behind a closed, empty channel, into which a late send
  cannot come any more, since it panics: `AuditShutdownLeavesNothing`. That an accepted event gets that far is
  liveness (`AcceptedIsHandled`).
* **PolicyProofs.** `TxInv` and `KeyInv` say that superadmin's row for `role:manage` is unique among committed rows and open
  entries, and that a transaction which has deleted it has still to insert it or has done so: `PoliciesSuperadminKeeps`.
  `OwnerInv` says, of every call, what it has read of its group and what can have become of that since:
  `PoliciesOwnerBelongs`. `EnforcerInv` says of every entry and every load, for any number of nodes, that it agrees with the
  tables, or is late, or is awaited; a change makes its call owe an invalidation, `Publish` turns
  that into messages, and only `Restart`, `PublishFails` and `ChangeUnseen` cancel it: `PoliciesStaleIsAwaited`.
* **GatewayProofs.** `BreakerClosedBelowLimit` needs nothing but the type invariant: the two fields change
  together under one write lock. Every step of the gateway is one of the breaker or none (`GatewayStepsBreaker`), so
  `GatewayRunsBreaker` carries that over. `GatewayInv` says that when a step of the shutdown has ended, those it waited
  for are gone unless its deadline passed, and that nobody of them comes back, because a
  closed listener, server or pool lets nobody in: `GatewayClosesLast`.
  For the export, `PageInv` says that the page is what follows the cursor, without a gap in what was
  wanted; `GotInv` that the client is where the cursor is or a row ahead; `ObjectInv` that the upload has what is due up to
  the cursor, and that the exporter ends well only at the end of the rows or of the limit. `FirstIsEarliest` and
  `ShortIsAll` are what `ORDER BY ... LIMIT` gives; the least row exists because `<` is well-founded on the naturals.
* **AccountsProofs.** `AccountInv` types the state and says that who is logged in has a row, that a session id kept
  anywhere was opened by its login, and that no row or copy names an avatar before it is saved. With these both
  `PasswordEndsSessions` and `NamedAvatarExists` are inductive, one lemma for each handler, and `RetiredSessionStaysOut` follows
  step by step. For the bucket, `MemoryInv` says that the one in the map has, at any time, no more tokens than `credit`,
  until the cleanup has found it idle; by then it is full, which is where `TTL` must be long enough
  (`LongEnough`, a condition of the property), and so is `credit`, which nobody charges until a new bucket is made: `CleanupGivesNothing`. For the sorted set, `RedisInv` says that who passed in the shortened window is
  still in Redis under a score that is not too old, and that Redis never holds more than the limit; the requests of a
  window are mapped one to one into the set: `WindowIsBounded`. For the lists, `BehindInv` says that a row which stayed and was
  not shown has at least `Offset` newer ones as long as no row has left or moved down, so the pages still to come have it: `ListsMissNothing`.
* **Sums.** `MapThenSumSet` is a fold over a set, and what a fold yields cannot be had from an induction theorem, whose
  operator parameter no prover here instantiates. The lemmas take another way: of the finite sets for which a fact fails, one is
  smallest (`SmallestExists`, from the well-foundedness of `<`), and it is refuted. So the recursive function behind the fold
  exists and is unique (`SumsExist`, `SumsAgree`), and a sum may be taken apart at any element (`SumSplit`), not only at
  the one that `CHOOSE` takes first.

## 8 Limits

Every invariant and every action property that a passing run checks is a theorem. Only model-checked are the liveness
properties (`EveryTransactionEnds`, `PaidIsGranted`, `NeverLocksOut`, `AcceptedIsHandled`, `AnswerEnds`, `SettlesForGood`,
`OrphanIsSettled`, `EveryReadEnds`, `Converges`, `RankingsSettle`, `EnforcersConverge`), since the prover has neither fairness
nor `ENABLED`, and the three sentences of the documentation that runs refute.

Left out of the models: several currencies per user and frozen accounts at the order service, the
published status of an ordered app, formatting of keys and answers, file types and digests, logs and metrics.
PostgreSQL, Redis, MinIO and RocketMQ are modelled by what the code relies on: row locks, unique indexes, atomic
commits, `SETNX` with expiry, scripts that run alone, messages that may be lost, and objects that exist or not.
Also left out: the order in which an LRU cache evicts (an entry may go at any time), a broadcast that is delivered
twice (the second drops nothing that matters), the count that goes with a page of a list, objects of two exports begun in one
second (they share a name), and the presigned link of a download.

Not modelled: `Logout`, which no route reaches (`services/iam/router.go:44`); the default and the I/O pool, `SpinLock`, the Kafka client and the
versioned cell, which have no callers; coupons and the entitlement domain, which are types without operations; routing,
configuration, metrics, logs, connection set-up, generated code and the front end, which keep no state that a
property could be about.
