# Formal models of the kumiko framework

kumiko is an event-sourcing application framework: commands append events to
per-aggregate streams in one Postgres table, inline projections are written in
the same transaction, and everything else (search index, live updates, jobs,
multi-stream projections, notifications) is an *event consumer* that an
asynchronous dispatcher feeds from the log. The framework promises

- that a stream is a gapless sequence, whatever concurrent handlers read too early;
- that a consumer sees every committed event, in order, at least once, although event ids become
  visible out of order, turns crash, handlers fail, operators intervene, projections are rebuilt
  and old events are pruned;
- that a row is what a replay of its stream makes, and that a client's update never overwrites what
  it was not shown, although reads come from a cache;
- that a retried request takes effect once, and a job keeps its concurrency rules and its retry budget.

These modules state those promises and what they rest on, check them with TLC on small instances, and
prove most of the safety ones with TLAPS for every instance.

All source paths below are relative to `src/packages/framework/src/` unless they start with `src/`.

## 1. Inventory

| Part | State | Operations | What is hard | What makes it correct |
|---|---|---|---|---|
| Event log (`event-store/event-store.ts`, `db/queries/event-store.ts`) | `kumiko_events`, sequence, transaction ids | `append`: claim xact id, INSERT, NOTIFY, commit or rollback | ids are assigned before commit, so a lower id may appear after a higher one, or never | streams have contiguous versions; readers find every row |
| Pending-gap algebra (`pipeline/pending-gap-ranges.ts`) | none (pure) | partition, split, subtract, cap, merge | boundaries, truncated fetches, which xmax survives a merge | exactly the unresolved ids stay watched, never for too short a time |
| Dispatcher turn (`pipeline/event-dispatcher.ts` `processConsumer`, `event-dispatcher-delivery.ts`, `event-consumer-state.ts`) | one row per consumer: cursor, pending gaps, status, attempts, re-arm count, last failed id | acquire, re-arm, fetch, burn gaps, withhold, deliver (batch or one by one), escalate, persist | commits between the turn's statements, lost turns, poison events, held events, gap limit | nothing lost, nothing repeated after commit, order kept, progress |
| Consumer administration (`pipeline/event-dispatcher-admin.ts`) | the same row | restart, enable, disable, skip poison event, list, stats | status checked without lock; the poison may lie below the cursor | only the failed event is skipped |
| Retention (`pipeline/event-retention.ts`) | the log, all consumer rows | `pruneEvents` | events below a cursor can still be undelivered | an undelivered event is deleted only from a pending gap |
| Dispatcher process (`pipeline/event-dispatcher.ts`) | running flag, timer, subscription, passes and turns in flight, slots | start, stop, pause, background pass | stop during start, slots, overlapping passes and pauses, two connections per turn | a stopped or paused process is quiet; every turn and every drain ends |
| Append from handlers (`pipeline/append-event-core.ts`, `handler-context-events.ts`, `event-store/archive.ts`) | archived-stream rows | archive guard, version read, append, inline projections; archive, restore | archive check and version read are separate statements | pinned versions conflict |
| Rebuilds (`pipeline/msp-rebuild.ts`, `projection-rebuild.ts`, `db/queries/shadow-swap.ts`) | shadow table, consumer row | reset, replay, fence, hand over cursor and gaps, swap | events committed during the replay, behind its cursor too | each event applied once across the handover |
| Request idempotency (`pipeline/idempotency.ts`, `dispatch-batch.ts`) | a Redis key per requestId | acquire, poll, reclaim, store, release | expiry under a running owner, unknown outcome of COMMIT, crashes | one effect and one answer per requestId |
| Job runner (`jobs/job-runner*.ts`, `pipeline/distributed-lock.ts`) | BullMQ entries, a lock key per job name | dispatch, tenant limit, sequential lock, run, retry, defer | entries fetched together, re-enqueue, stalls, expiring lock | limits hold, budgets are kept, no job is lost, every job settles |
| Entity executor and cache (`db/event-store-executor-*.ts`, `db/apply-entity-event.ts`, `pipeline/entity-cache.ts`) | entity row, stream, Redis entry | create, update, delete, forget, restore, detail, list | every statement has its own snapshot; eviction precedes the commit | no lost update, no stale detail, row equals replay |
| System hooks, cache-sync bus, rate limits, process lifecycle, operations runner | per process or in Redis | see `PROJECT.json` | see section 7 | see section 7 |
| Engine, database layer, HTTP API, search, files, crypto, observability, bundled features, renderers, CLIs, samples | configuration, adapters, UI | - | no protocol state of their own | not modelled |

How they interact: writers, rebuilds and the dispatcher share only the database. A commit
wakes dispatchers through NOTIFY (a poll timer is the fallback). A turn holds the
row lock of its consumer (`FOR UPDATE SKIP LOCKED`), so turns of different
processes for the same consumer never overlap; operators, rebuilds and prune meet the turn
at that lock, or at a table lock. Handlers run inside the turn but their effects
do not roll back with it. API processes and workers meet in Redis: at the idempotency key of a
request, the cached row of an entity, the lock of a job name.

The hazards this gives rise to are listed line by line in `PROJECT.json`, each with the properties that
would catch it.

## 2. Modules

| Module | Models | Used by |
|---|---|---|
| `PendingGapRanges` | the gap algebra as set definitions | all dispatcher modules |
| `GapRangeLoops` | the same functions as the source's loops over arrays; compares both | run `loops` |
| `EventLog` | writers' transactions: ids, transaction ids, visibility, `pg_snapshot_xmin/xmax` | `EventDispatcher`, `ProjectionRebuild` |
| `EventDispatcher` | one consumer's row and the turn that serves it | runs `batch`, `live`, `overtaken` |
| `ConsumerAdmin` | EXTENDS `EventDispatcher` with the operator's commands | `EventRetention` |
| `EventRetention` | EXTENDS `ConsumerAdmin` with `pruneEvents` | run `ops` |
| `CursorHandover` | EXTENDS `EventDispatcher`, with a second consumer as an instance of it: registration from now and multi-stream rebuild | run `msp` |
| `ProjectionRebuild` | EXTENDS `EventLog`: the table of an inline projection, its writers and its online rebuild | run `swap` |
| `DispatcherProcess` | lifecycle, passes, slots and pauses of one process | run `slots` |
| `StreamLog` | abstract: a log of streams that grows by whole batches | `EventStore` |
| `EventStore` | handlers' transactions that load, append to, archive and restore streams; implements `StreamLog` | run `append` |
| `EntityExecutor` | one entity: write verbs, reads, cache | run `entity` |
| `IdempotentBatch` | a request and its retries | run `retries` |
| `JobRunner` | one job name | run `jobs` |
| `EventDispatcherProofs`, `ConsumerLifecycleProofs`, `ProjectionRebuildProofs`, `DispatcherProcessProofs`, `EventStoreProofs`, `EntityExecutorProofs`, `IdempotentBatchProofs`, `JobRunnerProofs` | lemmas and theorems | tlapm |
| `MC...` | symmetry and finite sets for TLC | runs |

### EventLog

A writer's transaction claims its transaction id (`claimXactId`), inserts any
number of events and commits or rolls back, each as its own step. An id whose row
lost a version race (`ON CONFLICT DO NOTHING`) or whose transaction rolled back is
*burnt*. `SnapshotXmax` is what Postgres computes, one past the latest
**completed** id; a running transaction may have a larger id. `OtherTransaction`
stands for every transaction that writes no event, consumer turns included: a turn
has an id of its own, but a gap's xmax is read before that id completes, so it
never holds a gap back that another transaction would not.

### EventDispatcher

`row` is the committed row. `turn` is the transaction in progress, split where
other actors' steps can change what the next statement sees:
acquire (with the xmin read) / fetch / deliver (with the xmax read) / persist.
`RollBackTurn` may end it anywhere. `handled`, `resolved`, `skipped` and `held` are
history variables. Correspondence and simplifications:

- The idle pre-check of `doPass` is part of `AcquireConsumerState`'s guard.
- `status = "processing"` is written and overwritten within one transaction and
  never visible; `last_error` and `updated_at` are read by nobody in the model.
  `processConsumer`'s catch writes only those two, so it changes nothing here.
- The re-arm cooldown may have elapsed at any time; the re-arm budget is exact.
- `IsFirst` states what `ORDER BY id LIMIT n` returns.
- Which events a handler accepts is arbitrary. A batch handler that holds an event
  holds the later ones of the same tenant too, as the search consumer does
  (`pipeline/system-hooks.ts`).
- `xmaxNow` is read lazily in the code, only if a gap needs it; in the model it is
  read in the same step as the deliveries, after the fetch.
- Consumers have separate rows, so one consumer stands for all. `startFrom: "now"` is
  in `CursorHandover`; metrics and tracing are left out.

### ConsumerAdmin and EventRetention

`restartConsumer` and `enableConsumer` are two steps, the unlocked status check and
the update that waits for the row lock. `disableConsumer` is one update.
`skipPoisonEvent` reads `FOR UPDATE` and is one step; its cases (recorded failure
in a gap, ahead of the cursor, no record) follow the source. `pruneEvents` holds a
SHARE lock on the consumers table, which excludes turns that have already written
(`markProcessing`, re-arm) but not turns that have only locked and read their row:
`ConsumerTableUnwritten`. Type and age of the candidates are arbitrary.

### EventStore and StreamLog

`EventLog` keeps the ids and visibility of event rows, which is what the dispatcher
depends on; `EventStore` keeps the other side of the same table: streams, versions and
idempotency keys, which is what handlers depend on. A handler runs in a READ COMMITTED
transaction (`Begin`, `Commit`, `Rollback`). An append is three statements that others
interleave with: the archive guard (`StartAppend`), the version read (`ReadVersion`) and the
INSERT (`InsertEvent`, or one of its failures). `fetchForWriting` is two, the archive check
and the read. `mode` says which path of the code is appending and so which version it
expects. An index check meets rows of open transactions: the insert then waits, that is,
neither `InsertEvent` nor `InsertLoses` is enabled until the other transaction ends; a deadlock of two
inserts ends with `Rollback` of one.

`StreamLog` says the same without transactions: each step adds a batch that
continues every stream it touches, leaving no version out and repeating no key.
`ImplementsStreamLog` is its specification with `committed` for its log.

Simplifications: streams belong to one tenant, since both indexes are tenant-scoped; keys occur
only in mode `given`, because the executor and `appendDomainEventCore` build
their metadata themselves; an insert that waits for a key holds no claim on its version in the
model (it does in Postgres), which only adds behaviours; archive and restore are
transactions of one statement; seed times, raw appends of the admin API and pruning of
streams are left out. A version conflict or a key conflict that the handler does not catch
is `Rollback`; one that `tryAppend` or the executor turns into a result is
`InsertLoses`, `KeyTaken` or `StaleVersion`, after which the transaction goes on.

### DispatcherProcess

The process is single-threaded, so a step is the code between two awaits; only a pass's loop over its
consumers is taken consumer by consumer. A turn is reduced to what the process sees of it: it takes a slot,
a pool connection for its transaction and, if its handler asks for one, a second connection. The pool is larger than the slot limit, as the source's comment on the limit demands; without that
assumption `EveryTurnEnds` fails. `overlapped` records the two cases in which a stopped
dispatcher is not quiet (section 4). `runOnce`, `drain` and `ensureRegistered` called by hand are left
out, and so is a `start()` during a draining `stop()`.

### CursorHandover

A consumer that starts from now, and a rebuilt multi-stream projection, get a cursor in the middle of
the log. Ids below it that are still in flight must be in its gaps. Both seed those gaps from the
consumer that is furthest ahead, whose own gaps are trusted, and scan only what lies past it
(`selectEventIdHorizonWithMissingRanges`); that peer is a second instance of the turn over the same log. A rebuild is a
READ COMMITTED transaction of four statements that count: horizon and seed, replay, cursor and gaps with a fresh
xmax, swap. The peer's handler settles everything and its turns are not lost. An event that the projection
does not subscribe to has nothing to apply and counts as handled.

### ProjectionRebuild

`live[i]` and `shadow[i]` count how often event *i* was applied. A command handler appends and applies in one
transaction; the apply of a multi-stream projection appends on a connection without one, so its
projections run after the event is committed (`RunProjectionsAfterCommit`) or not at all (`LoseProjections`).
The fence waits for writers that have written the table, and writers that come later wait for the swap.
The catch-up batches follow ids, so a commit below the cursor is missed; the count under the fence
finds that out and the replay starts over. The guards between drain and swap (blind-index
columns, rows without events, a re-replay that counts too few) and a lock timeout are `FailRebuild`.

### EntityExecutor

One entity. A row's content is one column, `status`, and the other columns, named after the version of the write that made them.
The variable `entity` is the declaration: whether reads carry an ownership predicate, and whether a deleted row stays, marked (`softDelete`), or goes.
A write is: load the row (`previous`,
`lockedWhen`; an update with `includeDeleted` also loads a trashed one), read the stream version and check the client's, append and project, evict
the cached row; the commit comes later. `VersionAccepted` has the two checks, which a call may combine: the optimistic lock compares versions, and
`expect` compares one named column by value, so it says nothing about the others.
`detail()` is: read the cache, probe ownership and version, or load row and version in one statement, then set. A cached row
counts only if its version is the stream's, except that any cached row counts while the stream's version is 0 (`CacheHitCounts`); such an answer keeps the row's own
version (`WithStreamVersion`). `Replayed` is the reducer of
`applyEntityEvent` over a stream. `tainted`, `swallowed` and `trashCached` record the three cases of section 4 in which
less holds.

### IdempotentBatch

Requests with the same requestId, in any number of processes. A step is a Redis command or the outcome of the
transaction. The key holds nothing, the pending marker of a request or a result. `WaitTimeout` keeps the
source's clamp: a waiter waits at least as long as the marker lives. `withTx` chooses between
a batch in one transaction and one without, where some commands may have taken effect when one fails.
A COMMIT that throws may have taken effect or not. `waitedBehind` records for each waiting request whose markers and results were in the key
since its check began; a holder that had left the key before does not count.

### JobRunner

BullMQ is external: it hands waiting entries to workers, counts attempts and puts the entry of a dead worker
back; delays end at any time. Entries are numbered slots; those fetched are ordered as `isActiveBefore` orders them, by `processedOn` and id. `processedOn` is
the fetching worker's clock in milliseconds and ids are compared as strings, so `SetProcessedOn` puts a new entry anywhere in `order`; one that gets
before an entry fetched earlier is recorded in `ahead`, and `maxSkews` bounds how often that happens. The
model follows `handleJobInScope`: tenant limit, sequential lock, handler, failure or deferral, release. Lock
tokens are values that are not in use elsewhere. Boot gates, cron, fan-out per tenant, the modes "skip" and "replace" and the
tenant-cap lock of `dispatch` are left out.

## 3. Runs

| Run | Instance | Shows |
|---|---|---|
| `loops` | every set of gaps over 5 ids, 2 bounds | each source loop returns what its set definition says; `MergeNeverShortensTheWait` |
| `ops` | 2 writers, 3 ids, 3 xids, batch 2, 2 attempts, 1 re-arm, transient errors, operators, prune | no loss (`LostOnlyIfOvertaken`), no repetition after commit, halt on poison, progress; a skip drops the failed event only; an undelivered event that prune deletes was in a pending gap |
| `overtaken` | the same without operators, one lost turn | *violation*: `NoEventLost`, see below |
| `batch` | 1 writer, 2 tenants, 4 ids, batch 2, gap limit 2 | the same for a batch handler that holds events; a tenant's held events come first; at the gap limit nothing new is watched |
| `live` | 2 writers, 2 ids, 3 xids, 1 lost turn, fair | every committed event is handled unless the consumer ends dead or the event was overtaken |
| `append` | 2 handlers, 1 stream, 1 key, 3 versions, 2 appends per transaction | the store implements `StreamLog`; no handler sees a hole, a duplicate version or a duplicate key |
| `msp` | 2 writers, 3 ids (one not subscribed), 2 xids, 1 rebuild, a peer | cursor and gaps handed over match what was replayed: nothing lost, nothing applied twice |
| `swap` | 2 handlers and a saga, 2 streams, 3 ids, batch 2, 2 unlocked batches, 1 rebuild | each handler's event is in the swapped-in table once; quarantined events are not |
| `slots` | 2 consumers, 2 passes, 1 slot, 2 connections, 2 pausers, fair | slots add up; paused and stopped mean quiet; turns and drains end |
| `retries` | 3 requests, both kinds of batch, fair | one effect, one answer, the owner is undisturbed, who gives up had two holders in front while waiting, every request ends |
| `jobs` | 2 jobs, 3 entries, 2 tokens, 4 declarations, 1 entry stamped out of order, fair | no overlap, the tenant limit but for entries stamped out of order, no fresh budget, no lost job, every job settles |
| `entity` | 2 requests, 3 events, 2 values of the column, 2 declarations | no lost update, no stale or trashed detail, row equals replay |

Why the bounds are enough. Three ids are a gap, the event that made it and one more;
three transaction ids let one transaction stay open while an older and a younger one
complete; batch size 2 lets a fetch be cut off; two attempts and one re-arm reach
dead, re-armed and dead for good. Four ids and two tenants let a held event of one
tenant be cut off behind another. In `append`, two appends per transaction let one stack on
its own uncommitted event while the other handler commits under it, and three versions
leave room for an expected version that has no predecessor. One stream is enough there because
streams meet only at the key index, and the theorem has any number of them. In `msp`, two open transactions let an id
stay in flight on each side of the horizon and the peer's cursor. In `swap`, two unlocked batches of two let a commit
fall behind the cursor, and the third writer makes one that waits for the fence. In `slots`, one slot for two consumers makes
one wait, and two passes let the second join the first one's turns; two connections are the least the assumption allows.
In `retries`, three requests are one that runs, one that reclaims and one that loses both races. In `jobs` the
declarations differ, so that each of retries, deferrals and crashes meets the lock, and all together meet the limit; a third entry
is room for a re-enqueued job beside its original; with a limit of 1, one entry stamped out of order is enough to run past it. In `entity`, three events are a create and a write of each request,
and two values of the column let an `expect` fail, or pass over a change of the rest of the row. Its two declarations differ in both respects
(ownership predicate and `softDelete`, or neither); the other two combinations were checked too, in a run of 4.1 million states that
takes too long to keep, and the theorems hold for all four. `entity` is the largest run: 1.9 million distinct states, about two minutes.

Every module has a type invariant. The runs spend their properties on the hazards instead: the type invariants are proved (section 5).

Writers and requests are symmetric; symmetry is off where a run checks liveness, and in `batch`, which has one writer.
`entity` does not explore states in which `tainted` or `swallowed` holds (`Sound`), since its properties claim little there; the proofs (section 5) leave
out no state.
Deadlock checking is off because ids, versions, requests and jobs are bounded: at the bound the system has nothing left to do.

### Fairness

- `live`: weak fairness of the turn's steps, because the poll timer keeps starting passes and a started turn runs to
  its end; weak fairness of each writer's end of transaction, because a connection commits, rolls back or is dropped
  by the server. Nothing makes a writer append. Lost turns are bounded by `MaxRollbacks`: a consumer
  whose every turn is lost makes no progress in the code either.
- `slots`: weak fairness of a promise that is ready; strong fairness of a turn's steps, because the pool serves
  waiting requests in order and connections become free again and again. Nobody has to call `start`, `stop` or pause, and no tick has to come.
- `retries`: weak fairness of the checking and the running request, and of the expiry of a marker, which Redis does by
  itself. Stored results need not expire, processes need not crash.
- `jobs`: weak fairness of a worker with its entry (fetching included), of a release, and of the expiry of the lock. `EveryJobSettles` needs the bound `maxSkews`:
  if entries could be stamped before the waiting one for ever, it would be deferred for ever. Clocks differ by a bounded amount and the delay between
  two deferrals grows to 30 seconds, so the code's schedules have such a bound.

## 4. Disagreement with the repository's own statements, and known races

**Overtaken transactions** (run `overtaken`, `NoEventLost`). The comments take `xmax` for "the next
unassigned" id. It is one past the latest completed one. If transaction 2 takes event id 1,
transaction 1 takes id 2 and commits, a turn moves the cursor to 2 and records gap 1 with
xmax 2. Once xmin reaches 2 the gap counts as burnt while
transaction 2 may still commit id 1. It takes an older transaction to insert
after a younger one (claim and insert are two statements, and a transaction may
append several times). Exactly this case is excluded from `LostOnlyIfOvertaken`, and
the theorem shows that it is the only one.

Known races. Unless marked "not modelled", the models contain the following behaviours, and the properties are stated so that
they except exactly these. A property says nothing about the case it excepts: `QuietAfterStop` about a stop during start,
`AttemptsWithinBudget` about a doubled job, `LiveIsRebuild` about a swallowed failure. The hazards
of `PROJECT.json` that are these very cases therefore do not name those properties.

- *Disable* (`pipeline/event-dispatcher-admin.ts:161`). A restart or enable that checked the status before a disable committed sets
  the disabled consumer back to idle.
- *Archive guard* (`pipeline/append-event-core.ts:94`). Guard and insert are separate statements and nothing is locked: a
  stream archived between them still gets the event, which later loads hide.
- *Restored handle* (`event-store/event-store.ts:354`). An archived stream loads without events but with its version. If it is restored
  before the append, the pinned append succeeds on events the handler never saw.
- *Prune* (`pipeline/event-retention.ts:158`). The lag check looks at cursors and ignores pending gaps, so an event that is still to be
  delivered from a gap can be deleted. `PruneDropsOnlyPendingGaps` is the guarantee that is left; a pruned
  poison event leaves its id in `last_failed_event_id`, which `LastFailedIsRetried` excepts.
- *Appends of multi-stream applies* (`pipeline/append-event-core.ts:128`). "Inline projections fire in the same tx" does not hold for the apply of a
  multi-stream projection, which runs without a transaction: a crash after the append leaves the event without its inline
  projections until a rebuild. `HandlerEventsShownOnce` speaks of handlers' events for that reason.
- *Archiving during a rebuild* (`pipeline/projection-rebuild.ts:337`). A stream that is archived between the drain and the count lowers the count, which
  can then match although a late commit was missed (`overlapped` in `ProjectionRebuild`).
- *Stop during start* (`pipeline/event-dispatcher.ts:836`). `start()` sets its interval after its awaits without looking at `running` again. A
  failed unlisten is swallowed and leaves the listener (`overlapped` in `DispatcherProcess`).
- *Sequential lock* (`pipeline/distributed-lock.ts:42`). The lock is not renewed (`renew` has no caller), so a handler that outlives it overlaps
  with the next run, although `src/packages/types/src/config.ts:450` says "same-name dispatches never run concurrently". `SequentialUnlessLapsed` shows
  that this is the only way.
- *Doubled job* (`jobs/job-runner-gates.ts:270`). A worker that dies between the re-enqueue and the end of the entry leaves the job twice in the queue (`doubled`).
- *Clock skew* (`jobs/job-runner-helpers.ts:473`). An entry fetched by a worker whose clock is behind sorts before entries that other workers have
  already let past the gate, does not see them and runs beside them (`ahead`). `src/packages/types/src/config.ts:423` says as much: "only clock skew between workers
  can briefly let one job more through". It need not be skew, since two fetches in the same millisecond are ordered by their ids as strings ("10" before "9"),
  and it can be more than one job, one for each such entry. `AtMostLimitRun` bounds the handlers by the limit and these.
- *Two defer counters.* `src/docs/reference/migration-guide.md:694` speaks of a "shared counter with maxPerTenant defers"; the code keeps two keys.
- *Stale `previous`* (`db/event-store-executor-write.ts:675`). Delete, forget, restore, and updates with
  `skipOptimisticLock`, load the row before they read the version: `previous` and `lockedWhen` may be older than the row replaced. An `expect`
  does not change that: it compares the columns it names, in a later statement.
- *Cached own rows* (`db/event-store-executor-read.ts:254`). A transaction that reads what it has written caches it before it commits. If it rolls back and
  another write reaches the same version, the cached row passes for the current one (`tainted`).
- *Cached uncommitted create* (`db/event-store-executor-read.ts:224`). "A cache hit only counts when its version equals the live stream version" (line 197) is not so when that
  version is 0: a transaction that creates an entity and reads it caches the row, and before it commits a `detail()` without ownership predicate returns that row
  to somebody else. No rollback is involved. `DetailIsCurrent` says which rows can be returned then.
- *Cached trash* (`db/event-store-executor-read.ts:62`). A list of the trash is cached under the same keys; a `detail()` whose reads carry no ownership
  predicate returns such a row (`trashCached`).
- *Swallowed projection failure* (`db/event-store-executor-write.ts:378`). The append's savepoint is released before the projection is written; a handler that
  goes on after a failed projection commits the event without its row (`swallowed`).
- *Rows changed without an event.* A rebuild changes rows without moving the stream version, and a row without events has
  version 0 for ever: the cache serves the old row until its TTL. Not modelled.
- *Corrupt cached result* (`pipeline/dispatch-batch.ts`, `checkBatchIdempotency`). A stored result that does not parse is passed over and the batch runs again. Not modelled.
- *Gap limit and skipped batch* (`pipeline/event-dispatcher-delivery.ts:431`). A batch consumer with `skipApplyErrors` whose whole batch throws at the gap limit can record
  a settled event as last failed. No consumer of the repository combines the two.

One comment is imprecise rather than wrong: "Past the limit the consumer takes no new events, so
the set cannot grow" (`pipeline/event-dispatcher-delivery.ts:412`). The set of watched ids cannot
(`NothingNewAtGapLimit`); the number of ranges can, since delivering an id from
the middle of a range splits it.

## 5. Proofs

### The dispatcher (`EventDispatcherProofs`)

For every number of writers, tenants, ids, transaction ids, every batch size and limit, and both kinds of handler:

| Theorem | Statement |
|---|---|
| `TypeCorrect` | `Spec => []TypeOK` |
| `NoSilentLoss` | `Spec => []LostOnlyIfOvertaken` |
| `SettledOnce` | `Spec => []NoRedeliveryAfterCommit` |
| `ProgressKept` | `Spec => ProgressNeverUndone` |
| `RangesWellFormed` | `Spec => []GapsWellFormed` |
| `IntakeStopsAtLimit` | `Spec => NothingNewAtGapLimit` |
| `FailedIsRetried` | `Spec => []LastFailedIsRetried`, unless a batch handler skips apply errors |
| `PoisonHalts` | `Spec => HaltsOnPoison`, for a per-event handler |
| `HeldComeFirst` | `Spec => HeldEventsComeFirst` |

The assumptions are those of the modules: bounds are natural numbers, positive where
the code needs them positive, and there is a tenant. The two hypotheses are about the consumer's declaration. A batch handler that
skips apply errors has the race of section 4 ("gap limit and skipped batch"), which makes `LastFailedIsRetried` false. `HaltsOnPoison`
is what the per-event loop promises; a batch handler may settle later events of other tenants than the failed one's.

`LostOnlyIfOvertaken` is not inductive: nothing in it says that a gap about to be burnt
hides nothing. `IInv` adds what the code relies on:

- `LogInv`: ids at or past `nextId` are unassigned, transaction ids of rows were assigned,
  an in-flight row belongs to an open transaction, ids of committed rows are bounded by `doneXid`;
- `LockInv`: the committed row does not change under a turn;
- `XminInv`: `xminNow` is a lower bound of the ids of all open transactions, now and later;
- `FetchInv`: what the fetch left out is either invisible at that time, hence of a transaction
  that was open then, or beyond the limit;
- `WatchInv`: an id at or below the cursor that is in flight, or visible and unhandled, is
  in a gap whose xmax exceeds its transaction's id, or it is overtaken;
- `SettledInv`: settled ids are at or below the cursor and in no gap;
- `BudgetInv`: attempts and re-arms of an acquired row are below their limits;
- `RowInv`: the ranges of the row are apart and below the cursor, and the event on record as failed was committed.

A burnt gap has `xmax <= xminNow`. By `WatchInv` a transaction of one of its ids has an id
below xmax, by `XminInv` it is not open, so the id was visible before the fetch; by `FetchInv` it was
fetched, which contradicts that no id of the gap was (`BurntHidesNothing`). That xmin is
read before the fetch is essential. The other direction (`NewGapsExact`, `KeptGapsExact`,
`MergeSafe`) shows that every id the cursor passes and nobody handled is watched with a
large enough bound. The lemmas about the algebra (`MergeSafe`, `MergeSeparates`) open the module; they use
that a nonempty set of naturals has a least element.

The last three theorems speak of events on record, the failed one and the held ones, which must not slip out of the gaps. They need a
second invariant on top of `IInv`, `RecordInv`. An event on record was committed before the turn that works on it began, so it cannot
become visible between the fetch and the delivery, as other ids of a gap can: either the turn has it in hand or the fetch limit cut it off
(`KnownInv`). A gap with such an event is not burnt (`KnownGapSurvives`), an event that is not settled stays pending
(`UnsettledStaysPending`), so held events stay in gaps (`HeldInv`) and the failed one is still to be offered (`FailInv`); and since a fetch
goes by ids, what is on record comes before whatever is younger (`RecordComesFirst`).

A third one, `TakenInv`, holds for a consumer that delivers events one by one: its cursor is an event it has settled, and it has handled none
that is not committed. It is not needed for the theorems above; a handover needs it of the peer (below).

### Operators and prunes (the first part of `ConsumerLifecycleProofs`)

| Theorem | Statement |
|---|---|
| `RetentionTypeCorrect` | `RetentionSpec => []AdminTypeOK` |
| `NoSilentLossUnderOps` | `RetentionSpec => []LostOnlyIfOvertaken` |
| `SettledOnceUnderOps` | `RetentionSpec => []NoRedeliveryAfterCommit` |
| `RangesWellFormedUnderOps` | `RetentionSpec => []GapsWellFormed` |
| `ProgressKeptUnderOps` | `RetentionSpec => ProgressNeverUndone` |
| `PruneSparesTheFuture` | `RetentionSpec => PruneDropsOnlyPendingGaps` |
| `FailedIsRetriedUnderOps` | `RetentionSpec => []LastFailedIsRetried`, hypothesis as above |
| `PoisonHaltsUnderOps` | `RetentionSpec => HaltsOnPoison`, hypothesis as above |
| `SkipHitsThePoison` | `RetentionSpec => SkipsOnlyTheFailedEvent`, hypothesis as for `FailedIsRetried` |
| `HeldComeFirstUnderOps` | `AdminSpec => HeldEventsComeFirst` |

Both invariants survive every command and every prune, at any moment of a turn. `IInv` speaks of *committed* events, visible or pruned,
because a prune deletes rows whose transaction ids and places in the gaps still matter. `HeldEventsComeFirst` is proved without prunes: a
prune may delete a held event from its gap, after which younger events of its tenant are handled.

### Cursor handover (the second part of `ConsumerLifecycleProofs`)

| Theorem | Statement |
|---|---|
| `HandoverTypeCorrect` | `HandoverSpec => []HandoverTypeOK` |
| `NoSilentLossAtHandover` | `HandoverSpec => []LostOnlyIfOvertaken` |
| `SettledOnceAtHandover` | `HandoverSpec => []NoRedeliveryAfterCommit` |
| `RangesWellFormedAtHandover` | `HandoverSpec => []GapsWellFormed` |

For any set of subscribed ids, any number of rebuilds, and with or without `markDeadOnFailure`, besides what is arbitrary in the dispatcher.
`HandoverInv` is `IInv` of the consumer, `IInv` and `TakenInv` of the peer, and what the registration or rebuild in progress can count on:

- `PeerInv`. The gaps that are handed over are the peer's, so they are worth what the peer's invariant says. `PeerProofs` instantiates
  `EventDispatcherProofs` with the variables of the peer, and the lemmas `InitIInv`, `NextIInv`, `InitTaken` and `NextTaken` hold of that instance; nothing is
  proved twice. `TakenInv` adds that the peer's cursor is a committed event: it is at or below the horizon, and the peer's gaps end below it.
- `SeedInv`. Horizon and gaps come from one statement (`SeedWatches`): an id in flight below the horizon is in a gap of the peer, or past the peer's
  cursor and in a new gap, or overtaken. The last case is where the scan is left out because no transaction below xmax is running: the id's
  transaction is then younger than all that have completed, the horizon's included.
- `ReplayInv`. The replay reads later than the horizon. A subscribed id below the horizon that it does not see is in flight, and so in the gaps. The row
  that is written then watches it with an xmax read after the replay (`HandedOverExact`, `WrittenRow`): its transaction has an id below that xmax, or the
  last replayed event has overtaken it.
- `OwnedInv`. The rebuild has the row locked, so no turn is under way when the row is replaced.
- `Unpruned`. No event is pruned during a handover: `HandoverNext` has no prune.

A prune can run beside a rebuild in the code; the composition of the two is not modelled.

### Projection rebuild (`ProjectionRebuildProofs`)

| Theorem | Statement |
|---|---|
| `RebuildTypeCorrect` | `Spec => []TypeOK` |
| `TableShowsEventsOnce` | `Spec => []HandlerEventsShownOnce` |
| `QuarantineStaysOut` | `Spec => DeadLettersAreNotApplied` |

For any number of writers, streams, ids, batches and rebuilds. Three facts carry it. `ShadowInv`: what was replayed is visible, at or below the
cursor, replayed once and counted once, so the count is the size of the set. `CompleteInv`: unless a stream was archived meanwhile, what was
replayed is still subscribed, so a count that is not exceeded by the number of subscribed events means that the two sets are equal
(`CountsAgree`); a second replay leaves out nothing below its cursor, because it starts under the fence. `FenceInv` with `WriterInv`: a handler
has applied all its events when it commits, and under the fence nobody has applied anything, so no event of a handler becomes visible
before the swap.

### Event store (`EventStoreProofs`)

For every number of handlers, streams, keys and versions:

| Theorem | Statement |
|---|---|
| `StoreTypeCorrect` | `Spec => []TypeOK` |
| `ViewsConsistent` | `Spec => []EveryViewConsistent` |
| `StoreImplementsLog` | `Spec => ImplementsStreamLog` (the refinement) |

Its invariant has two parts besides types. `IndexInv`: no two rows, committed or not, of whatever
transactions, collide on a version or a key, because the index checks see uncommitted rows.
`GaplessInv`: the committed streams, and the streams as each handler sees them, have no hole,
because an insert needs a predecessor that is visible to it; the union of two hole-free sets is
hole-free, so a commit disturbs nobody's view. When a handler commits an event whose
version is not above some committed version of its stream, the committed stream, having no hole,
already has that version, and the two rows collide: so a commit extends every stream at its
current version (`StepSimulation`).

### Entity executor (`EntityExecutorProofs`)

For any number of requests and events, with and without an ownership predicate and `softDelete`:

| Theorem | Statement |
|---|---|
| `EntityTypeCorrect` | `Spec => []TypeOK` |
| `RowIsReplay` | `Spec => []LiveIsRebuild` |
| `NoLostUpdate` | `Spec => BuildsOnWhatWasSeen` |
| `PreviousIsCurrent` | `Spec => PreviousIsReplaced` |
| `DetailsAreCurrent` | `Spec => DetailIsCurrent` |
| `TrashStaysHidden` | `Spec => DetailHidesTrash` |

`RowIsReplay` is about a fold over the stream. Induction over data is not needed: a replay exists and is determined by its events (a least
counterexample has a predecessor), so one more event is one more step of it (`ReplayedAppend`), which is the step the executor takes in its
transaction (`Projected`). The other theorems rest on `Faithful`: a copy of the row, in the cache or in the hands of a request that will put it
there, that claims a version above 0 which somebody sees is the row he sees. It survives because every append moves the version (`AppendEventStep`) and one
transaction at a time has appended; a copy of a version that is not committed yet is backed by the open transaction that wrote it, which on
rollback sets `tainted`. So the order of a late `set` and the writer's `del` does not matter, only the version check does.
`ShownInv` says the same of the rows that clients were shown. `LoadedInv` and `WriteInv` carry the comparison over to the append: a version that was accepted and is still the
stream's at the append means that the row has not changed, so the column that `expect` named still has its value and, under the lock, the row is
the client's and `previous` is what it replaces. Where the stream's version is 0 the version check does not help, and `EarlyDetail` argues instead that a copy of a
version nobody has committed belongs to the one transaction that has appended.

### Requests (`IdempotentBatchProofs`)

For any set of requests:

| Theorem | Statement |
|---|---|
| `BatchTypeCorrect` | `Spec => []TypeOK` |
| `LockIsOwned` | `Spec => []OwnerUndisturbed` |
| `EffectOnce` | `Spec => []AppliedOnce` |
| `AnswerOnce` | `Spec => []SameAnswer` |
| `ResultKept` | `Spec => ResultStays` |
| `GivesUpLast` | `Spec => []GivesUpBehindTwoHolders` |

The only assumption is that `NoRequest` is not a request. `AppliedOnce` compares two requests long after they
ran, so its invariant has to say what each of them left behind: as long as no result was forgotten, a request that took effect and
whose marker has not expired is either still running, holding the key, or has crashed
with its marker in the key, or its result is in the key. The key has one value, so there is one such request. The same
argument ties an answer to the request whose result is stored. For `GivesUpLast`, a marker or result that has left the key never comes back (`HoldersStay`), so
the holder that a waiter lost to first, which is gone when it stops polling, and the one that it finds in the key when it gives up are two; both were there while it
waited and are in `waitedBehind` (`HolderInv`).

### Dispatcher process (`DispatcherProcessProofs`)

| Theorem | Statement |
|---|---|
| `DispatcherTypeCorrect` | `Spec => []TypeOK` |
| `SlotsAreAccountedFor` | `Spec => []SlotsAccountedFor` |
| `PauseIsQuiet` | `Spec => []QuietWhilePaused` |
| `StopIsQuiet` | `Spec => []QuietAfterStop` |
| `PoolDoesNotDeadlock` | `Spec => []SomeTurnCanGoOn` |

For any number of consumers, passes, `start` calls and pausers, the sets of which are finite, as the model counts them. `SlotInv`: a consumer
is queued exactly while it waits, once, so a slot that is handed over goes to one that has none. `DrainInv`: a drain awaits at least what is in flight,
because nothing starts a pass once the drain has begun (the running flag, the pause depth) and only a pass starts turns (`PassInv`).
`LifecycleInv`: unless `stop` overlapped `start`, there is at most one interval and one listener, the ones in hand; `CountInv` bounds the counters otherwise.
`PoolDoesNotDeadlock` is the safety half of `EveryTurnEnds`: it is where the assumption that the pool is larger than the slot limit is used.

### Job runner (`JobRunnerProofs`)

| Theorem | Statement |
|---|---|
| `JobsTypeCorrect` | `Spec => []TypeOK` |
| `HandlersRunSequentially` | `Spec => []SequentialUnlessLapsed` |
| `LimitIsKept` | `Spec => []AtMostLimitRun` |
| `BudgetIsKept` | `Spec => []AttemptsWithinBudget` |
| `FinalIsFinal` | `Spec => []FinalMeansFinal` |

For any number of jobs, queue entries and tokens, and any declaration. `LockInv`: a token belongs to one run or to one pending release, and a run
whose token is not the lock's value has had its lock expire, so of two running handlers one has. `EntryInv` and `BudgetInv`: prior attempts and attempts left add up to the declared budget in every entry,
and unless a job was doubled one entry at most is still to run it, with what it has spent. `OrderInv`: fetched entries stand in one order without
duplicates, and whoever is past the gate has fewer than `limit` entries before it, not counting those in `ahead`: of the others none gets before an entry that is
already active. The last of the others that runs therefore bounds them all.

The inductive invariants were checked with TLC on the runs' instances, or smaller ones, before they were proved.

### Only model-checked

- Liveness (`EventuallyHandled`, `EveryTurnEnds`, `DrainsEnd`, `EveryRequestEnds`, `EveryJobSettles`): outside the prover.
- `LoopsAgree`, `MergeNeverShortensTheWait`: what the source's loops over arrays compute for every input needs induction over data. What `MergeNeverShortensTheWait`
  asks of the set definition is proved (`MergeSafe`).

## 6. Plan

In this order:

1. Prunes beside a rebuild of a multi-stream projection, in one model.
2. Snapshots of streams that are pruned and start again at version 1.
3. The tenant-cap lock of job dispatch, the modes "skip" and "replace".
4. The consumers of the system hooks (search, live updates) as handlers of `EventDispatcher`.

## 7. Not modelled

Everything with status `not_modelled` in `PROJECT.json`. The models cover the parts of the framework that keep state
several actors share; by lines this is a small share of the repository, most of which has no protocol state:

- locales, renderers and their primitives, CLIs, dev server, guards, samples, feature AST: text, UI and tools;
- engine and registry: built once at boot, read afterwards;
- database access: query building, tenant scoping and migrations, a matter of what SQL says;
- HTTP API, auth, sessions, search, files, crypto, secrets, observability, i18n, time: adapters around
  services, checked per request without memory of their own;
- rate limiting: one atomic Redis script per request;
- cache-sync bus: best-effort invalidation, the caches have a TTL;
- system hooks: handlers that the dispatcher calls; how they hold events is in `EventDispatcher`;
- operations runner: runs its operations one after the other under one advisory lock;
- process lifecycle: a list of drain hooks run once in reverse order; the drain that matters is `stop()`;
- snapshots, upcasters and the raw appends of the admin API.

In the modelled parts: payloads, event types and upcasting, encryption of personal data, row-level security
scopes, metrics, tracing and error texts; connection-pool limits other than those of `DispatcherProcess`, and statement timeouts (a
timeout is a lost turn, a failed rebuild or a rolled back writer).
