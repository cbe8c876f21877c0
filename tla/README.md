# A formal model of nestjs-cloud-taskmq

CloudTaskMQ is a task queue for NestJS on top of Google Cloud Tasks. A producer
keeps a record of every task in a storage adapter and hands the task to Cloud
Tasks; Cloud Tasks pushes it over HTTP to a consumer, which locks the record,
runs the application's handler and writes the outcome back. The TLA+ modules in
this directory model that path, TLC checks them on small instances, and TLAPS
proves the theorems of section 4 for every value of the constants.
Paths below are relative to the repository, line numbers to its current commit.

## 1. Inventory

| part | source | state it keeps | operations |
| --- | --- | --- | --- |
| producer | `src/services/producer.service.ts` | none of its own; calls in flight | `addTask`, `sendTaskToGcp`, `sendBufferTasks` (an interval), `handlePulledQueue`, `handlePulledTask`, chain progression |
| consumer | `src/services/consumer.service.ts` | `workerId`, requests in flight | `processTask`, `reEnqueueTaskWithDelay` |
| storage adapters | `src/adapters/*.ts` | task records, uniqueness keys, limiter buckets, removal timers | `createTask`, `updateTaskStatus`, `acquireTaskLock`, `releaseTaskLock`, `completeTask`, `failTask`, key, bucket and chain operations |
| rate limiter | `src/services/rate-limiter.service.ts` | a cache of token buckets per instance, dynamic limiters | `tryConsume`, `getWaitTimeMs`, register, unregister |
| HTTP endpoint | `src/interceptors/`, `src/controllers/` | none | turns a push into `processTask` and its outcome into an answer |
| Cloud Tasks | external | HTTP tasks not yet answered with success | `createTask`, push, push again |
| module, decorators, discovery | `src/cloud-taskmq.module.ts`, `src/decorators/` | written at start-up only | registration, validation, queue creation |

How they interact. The producer and the consumer never call each other, with one
exception (a rate-limited task is added again by `reEnqueueTaskWithDelay`). They
meet in the task record and in Cloud Tasks. Every storage call and every call to
Google is an `await`; between two of them any other request, poll, timer or
instance may run. Nothing is transactional: a status is written, then an HTTP
task is created, then perhaps the status is written back.

What is hard here, and is the subject of the properties:

* the status is written blindly (`updateTaskStatus`, `failTask`) by five callers
  that may be about the same task at the same time;
* Cloud Tasks delivers at least once, in any order; `createTask` may fail with or
  without effect; instances crash between two awaits;
* `sendBufferTasks` runs every few milliseconds and does not wait for itself;
* the lock is a lease per record, keyed by a `workerId` that all requests of an
  instance share;
* the retry counter is read when a request starts and used when it ends;
* a uniqueness key is looked up, inserted and removed by separate calls;
* removal timers run beside all of this.

What makes each part correct:

* producer: an ACTIVE task is on its way or somebody is about to send it; a
  failed send makes it IDLE again; one poll sends a task once;
* consumer: whoever answers a push leaves the task completed, failed, or back in
  Cloud Tasks' hands; attempts are bounded by `maxRetry`;
* adapters: two instances never hold the lease of one task at the same time; a
  uniqueness key has one holder;
* chains: one ACTIVE task at a time, in the order of the chain, and no task keeps
  the others waiting for ever;
* rate limiter: nobody is denied while the limit leaves room, the limit survives
  restarts and cache losses, and a wait is long enough;
* the whole: every task is worked off.

The hazards, each with its line and the properties aimed at it, are listed in
`PROJECT.json`.

## 2. Modules

| module | models | reads |
| --- | --- | --- |
| `TaskRecord` | the record (`ITask`), the removal options, `handleTaskCleanup` | - |
| `MemoryStorage`, `MongoStorage` | what each adapter operation does to one record, as operators on records | `TaskRecord` |
| `TaskStorage` | the records of all tasks and the uniqueness keys; dispatch to the configured adapter | both adapters |
| `CloudTasks` | HTTP tasks waiting for their push, the fault budget, `sendTaskToGcp` | `TaskStorage` |
| `Producer` | `addTask` and `sendBufferTasks`, one action per await | `CloudTasks` |
| `Consumer` | `processTask` and `reEnqueueTaskWithDelay`, one action per await, and the endpoint's answer | `CloudTasks` |
| `CloudTaskMQ` | the composition, lock expiry, removal timers, repeated pushes, crashes; all properties | `Producer`, `Consumer` |
| `TaskStore` | abstract: what `IStateStorageAdapter` promises of records and locks, whichever adapter serves it | `TaskRecord` |
| `RedisStorage` | the Redis adapter, one Redis command per action: hashes, index sets, times to live | `TaskRecord` |
| `RedisTaskMQ` | `addTask` and `processTask` over `RedisStorage`; its properties | `RedisStorage` |
| `RateLimiter` | `RateLimiterService`: the bucket of one key in storage and in the caches | - |
| `TaskChains` | one chain: `addTask` with `chainOptions`, the polls with `filterEligibleTasks`, the chain queries | - |
| `MCCloudTaskMQ`, `MCRedisTaskMQ`, `MCRateLimiter`, `MCTaskChains` | the constants of the runs | the module named |
| `JobStepProofs` | lemmas: what each storage operation and each step of `processTask` may do | `CloudTaskMQ`, TLAPS |
| `CloudTaskMQProofs` | theorems: types, no task forgotten | `JobStepProofs` |
| `TaskStoreProofs` | theorem: `CloudTaskMQ` implements `TaskStore` | `CloudTaskMQProofs` |
| `ExclusionProofs` | theorems: exclusion of leases and of uniqueness keys | `CloudTaskMQProofs` |
| `OnePollerProofs` | theorems: one push, final outcomes, failures for cause, bounded attempts, while polls do not overlap | `ExclusionProofs` |
| `TaskChainsProofs` | theorems: types, one ACTIVE task, the order of a chain | `TaskChains`, TLAPS |
| `RedisTaskMQProofs` | theorems: types, no task forgotten, index sets, `RedisTaskMQ` implements `TaskStore` | `RedisTaskMQ`, TLAPS |
| `RateLimiterProofs` | theorems: types, genuine denials, the budget, the waits | `RateLimiter`, TLAPS |

### State and code

`tasks[t]` is the record of task `t`: `status` (or `absent`), `retryCount`,
`lockedBy`/`workerId`, `lockLive` (is `lockedUntil` in the future), `reEnqueues`
(`metadata.retryCount`) and `expiring` (a removal timer or TTL is set). `keys` are
the uniqueness keys that are set. `cloud[t]` counts the HTTP tasks of `t` that
wait for a push. `added[t]` is the program counter of `addTask`, `poll[p][t]`
that of `handlePulledTask` in one `sendBufferTasks` call, `job[j]` a request
being served: its program counter, its task, the counter it has read, the lock
attempts it has used, and what its handler has thrown (`threw`). Three history variables serve the properties only:
`stranded` (tasks whose sender stopped half-way), `failures` (how often the
handler threw) and `job[j].leased` (the lease of this job's lock has not run out).

The program counters of a job follow `consumer.service.ts`:

| lines | actions |
| --- | --- |
| 453-465 | `Lookup`, `Activate` |
| 467-489 | `CheckUniqueness`, `SaveKey`, `FailDuplicate` |
| 497-520 | `RateLimit`, `Unkey` |
| 319-330 | `Refetch`, `Release`, `UnkeyAgain` |
| 348-374 | `GiveUpReEnqueue` |
| 376-420 | `Reschedule`, `ReAddCheckUniqueness`, `ReCreate`, `ReSend`, `ReReset` |
| 575-602 | `AcquireLock`, `RetryLock`, `LockFailed` |
| 634-638 | `RunHandler`, `Complete` |
| 652-687 | `Fail`, `UnkeyFailed`, `FailAgain` |

`Ack`, `Nack` and `Rethrow` are the ways a request ends. After an error the interceptor
passes it on and Cloud Tasks pushes again; the built-in `TaskController` answers
200 (`Nack`), but lets an `HttpException` through (68-70), which may only come from
the handler: `Rethrow` ends a request whose handler threw. Queues may have different processor URLs, so what a task is pushed to is a
constant per task (`ControllerOf`).

### Redis

`hash[t]` is the Redis hash of task `t`, `ttl` the hashes that will expire,
`listed[t]` the statuses whose index sets have `t`. `call[c]` is the adapter call
that caller `c` has made: the next command (`at`), what it was called for (`op`,
`change`) and what it has read (`seen`). A call is several actions: `updateTaskStatus`
is `ReadToUpdate` and `WriteUpdate`, `acquireTaskLock` adds `DecideLock` before them,
`completeTask` and `failTask` add `BeginOutcome` before and the cleanup after
(`ReadToDelete`, `Delete`, or `Expire`, `HGetMetadata`, `HSetMetadata`). `HMSET` keeps the
fields it is not given, and `serializeTask` leaves out unset ones: so
`releaseTaskLock` releases nothing, and a record that is created over an old one
keeps its lock, its counter, its TTL and its old index entries.

`job[j]` in `RedisTaskMQ` has the program counters of `Consumer`; an action handles
the reply to one adapter call and makes the next one. Replies are handled at
once (`AllHandled`): a step from a reply to the next call reads nothing others
write, and as the command of that call may come as late as one likes, no
behaviour is lost. A lock is a number: the n-th to run out from now. That keeps
late writes honest, for a lock computed early and written late has less time
left. Only tasks that are sent at once are there, because buffered tasks are
never sent over Redis (section 3).

### The promise of an adapter

`TaskStore` says what callers rely on. A call takes effect at one moment, on one
record, while it is under way: `calls[t]` are the calls about `t` that are, with their
`workerId` where it matters. From that follows what late calls may not do:

* only `createTask` makes a record (`Creates`): an `updateTaskStatus`, `completeTask` or
  `failTask` that comes after the removal changes nothing (`Updates`);
* a live lock leaves its holder only by the holder's own `releaseTaskLock` (`Unlocks`), by a
  `createTask` that starts the record afresh, or with the record (`Removes`, which needs
  a timer, a TTL or the cleanup of an outcome); all other updates leave the lock alone;
* a lock is granted to the caller of `acquireTaskLock` only, not over somebody else's that
  is live and not on a completed task (`Locks`);
* every status has methods of its own: `completed` comes from `completeTask` alone.

The mapping from `CloudTaskMQ` is that of each record to itself; its calls are read off
the program counters of `addTask`, the polls and the requests (`MethodAt`,
`CallsAbout`). The mapping from `RedisTaskMQ` reads a record off its hash, takes `call`
for the calls, and voids the promise (`misused`) for tasks whose calls overlapped or
whose TTL ended during a call.

### The rate limiter

A cached bucket is an object that all calls of an instance share; a bucket read
from storage is a copy. `heap` holds the objects, `cache[i]` and `request[c].bucket`
refer to them, `stored` is a value. `tryConsume` is `TryCached` when the bucket is
cached: look-up, refill and consumption happen without an await, so no other call
comes between. Otherwise it is `TryUncached`, then `Fetch` or `Create`. `Save` is the
write reaching the storage with the values the bucket had when it was saved,
`CacheBucket` what follows the await. After a denial `getWaitTimeMs` is `WaitCached`, or
`WaitUncached` and `WaitFetch`. The clock ticks between any two steps. Tokens are
counted in parts of `1/TimeMS`, which makes the refill exact; the rounding of
floating-point numbers is left out, as are saves that fail and clocks that
differ. Other keys appear only as `Evict`. `granted` says how many tokens had been
granted by each moment; `served`, `lost`, `deletes` and `waitOver` are history variables too, kept
for the properties.

### Chains

`ahead[t]` is the set of IDLE records that were updated before `t`, which is the order
of `updatedAt`. A `sendBufferTasks` call polls all
queues side by side, each through `FindTasks`, `AskActive`, `AskNext`, `Mark` and `Send`.
A poll looks at the first of the chain's tasks it has fetched and sends that one;
what `getNextTaskInChain` returns only decides whether. The consumer is reduced to
the statuses it writes, for tasks with a `taskId` of their own that are pushed once
at a time: `Consumer` has the rest. A failed send is rejected by Cloud Tasks or
stopped by missing credentials; both make the record IDLE again.

### Abstractions

* In `CloudTaskMQ` one adapter call is one atomic step, and does not fail by itself.
  In the memory adapter that is so. In the Mongo adapter each call is one document update, with
  two exceptions: `acquireTaskLock` reads first, and its conditional update
  repeats what matters of that read; `completeTask` and `failTask` follow their
  update with the removal, which is merged into it.
* Time appears as events: a lock runs out (`LockExpires`), a removal is due
  (`RecordExpires`). Delays, `scheduleTime` and the back-off only postpone a
  push, which any delivery order covers. The TTLs of thirty days (records) and
  24 hours (keys, where they exist) never pass.
* Payloads, results, timestamps, logging and lifecycle handlers, whose errors are
  caught and logged, are left out. `options.metadata` is not laid over the
  options.
* Tasks have no chain, so `filterEligibleTasks` lets all of them through. All
  tasks are in one queue; up to `BufferSize` idle tasks are fetched, in any order,
  which includes that of `updatedAt`. `handlePromises` runs up to five tasks of a
  fetch at a time; here any number may interleave.
* In `RedisTaskMQ` uniqueness keys are left out, and an instance that is adding a
  task does not crash; `CloudTaskMQ` has both.
* The rate limiter grants or denies freely; denials count as faults so that they
  are bounded.

### Bounds

`MaxFaults` bounds, in all, what the environment does wrong: failed sends,
repeated pushes, crashes, re-submissions, denials and handler errors. It bounds
`cloud` and the counters, so every run is finite without a state constraint. The
other bounds are the sizes of the sets: one to three tasks, at most two instances,
two overlapping polls and three requests in service. Two of each actor are what
every interleaving hazard of section 1 needs; three requests let one job hold a
lock, a second one of the same instance interfere and a third one of the other
instance profit. Every mutant is found well inside these bounds.

`RedisTasks`: one task, two instances with a request each, two faults. `MaxLocks`
bounds the locks of a task that were computed and have not run out, overwritten
ones included; two are what it takes for one to overwrite another.

`RateLimits`: two instances with a call in service each, a limit of two tokens in
three ticks, five calls within four moments and one disruption (restart, eviction
or unregistration). A call for the bucket's creation, two for its tokens, one that
is denied and one that comes back after its wait are the shortest story that a
wrong wait spoils; `CacheTTL = 2` lets entries expire within it. `Chains`: three tasks
of the chain in one queue and one in another, so that both the order within a
queue and the polls side by side matter, and two failed sends.

### Fairness

`Fairness` assumes of the code that a call that can go on does (Node's event loop
is fair and storage calls return), of Cloud Tasks that a waiting HTTP task is
pushed when an instance has room, and of the interval that it keeps firing. All
of it is weak fairness. `TaskChains` assumes the same of its polls, its requests and
of the application that adds the whole chain. Nothing is assumed about faults, timers, lock expiry or
the application.

## 3. What the runs show

Passing runs:

| run | question |
| --- | --- |
| `MemoryCore` | memory adapter, one instance, a buffered task of the built-in controller and an immediate one with a limiter and a uniqueness key; repeated pushes, failing sends, denials, removal timers: types, no ACTIVE task is forgotten (`AccountedFor`), the adapter is a `TaskStore` (`ImplementsTaskStore`): here late calls after a removal; locks change hands in `MongoCluster` |
| `MongoCluster` | two instances over Mongo that crash, expiring locks, repeated pushes: leases on one task never overlap (`LeaseExclusion`), none is forgotten, the adapter is a `TaskStore`: no live lock is lost or passed on |
| `OnePoller` | if polls do not overlap and nothing is pushed twice, a task has one HTTP task at most (`OnePush`), a completed task stays completed (`CompletedFinal`), a handler fails at most `maxRetry + 1` times (`AttemptsBounded`), and a record becomes FAILED for cause only (`FailedForCause`); three tasks, one without a `taskId` |
| `MongoKeys` | a uniqueness key has one holder (`KeyExclusion`) |
| `Liveness` | every task is worked off (`Settles`), under `FairSpec`, with crashes, overlapping polls, denials and failing sends |
| `RedisTasks` | Redis, command by command: late writes of stale records leave no task ACTIVE that nobody will act on (`AccountedFor`); while the calls about a task do not overlap, the index sets tell the truth (`FoundByStatus`) and the adapter is a `TaskStore` |
| `RateLimits` | whatever caches, restarts and deletions do, a request is denied only if at least `tokens` requests were granted during the last `timeMS` (`DenialIsGenuine`); while requests come to one instance one at a time, the limit persists (`WithinBudget`) and whoever waits as long as told is granted (`WaitSuffices`) |
| `Chains` | while polls do not overlap, one task of a chain and queue is ACTIVE (`OneActivePerQueue`); without failed sends a queue handles its tasks of the chain in order (`HandledInOrder`); every task of the chain is worked off (`ChainFinishes`) |

`AccountedFor` over Redis is not obvious: a request writes back, with its own
change, a record it read before somebody else's outcome was written, and so may
turn a completed task ACTIVE or bring a removed one back. It holds because whoever
writes ACTIVE has not yet written the outcome of its own request.

`OnePoller` states the conditions under which the code is free of double work. Even then
`FailedForCause` has two causes: the request's own handler has thrown, or the
request gave up with LOCK_FAILED (`consumer.service.ts:596-601`) because of a live lock that a
failed attempt left at the other instance: `failTask` releases no lock, and if Cloud
Tasks pushes the retry to another instance while that lock lasts, the retry ends there,
with retries left. What the property excludes is a FAILED over a running handler,
after a failed send or for a missing record. `AttemptsBounded` has no counterpart under
repeated pushes and crashes: there every push counts attempts of its own.
`WithinBudget` and `WaitSuffices` need theirs too: concurrent calls that find no
bucket create one each, late saves put fuller buckets back, and every instance
grants from its own cache. `WithinBudget` allows one token more than the limit,
because the first call of a key creates the bucket without taking its token.
`OneActivePerQueue` is run with tasks that Cloud Tasks does not retry, but for the
one that is alone in its queue: a failed task is FAILED until its retry, and the
chain goes on meanwhile.

Runs that show where the program departs from its documentation; the quotation
and the line are in `PROJECT.json`, `findings`:

| run | what happens |
| --- | --- |
| `MongoGivesUpEarly` | `failTask` is called twice per failed attempt and Mongo counts both: half the retries |
| `NoTaskIdNoProcessing` | a task added without a `taskId` is pushed without one and never processed |
| `RedisLock` | `acquireTaskLock` of the Redis adapter reads, decides and writes without a condition: two instances hold the lock of one task |
| `ChainAcrossQueues` | tasks of one chain in different queues, as in the README's own example, are ACTIVE together: each queue's poll asks for ACTIVE tasks before the other marks its own |

The same models show other departures, which have no run of their own: a repeated
push that sets a completed task ACTIVE and runs it again; a rate-limited request
that releases the lock another request of its instance holds; the FAILED of an
exhausted rate-limit retry that causes another push, which sets the task ACTIVE
again; one grant more than `tokens` at a moment; a chain task whose send failed and
which is sent after its successors; a task sent twice by overlapping polls after its completion; a completed task that is
added again under its `taskId` and runs again; two requests of one instance that
handle a task at the same time under one re-entrant lock; the memory adapter,
whose `failTask` does not count, retrying without bound; `TaskController`
answering 200 to an error that asks for a retry, unless it is an `HttpException`; `removeOnFail: true` deleting
the record before its retry; a uniqueness key that outlives its record or is
removed under its next holder; LOCK_FAILED written, after a repeated push, over a task
that is running elsewhere, and over a failed one whose retry the other instance's lock
keeps out.

Over Redis there are more, read from the code and, but for the first and the last
two, part of the model:

* Buffered tasks are never sent. `findTasksWithoutActiveVersion` (line 426) and
  `findTasks` (350) join all criteria, the sort order included, to the name of a
  set, and nobody writes a set of that name.
* `releaseTaskLock` (334) keeps the lock in the hash, and `failTask` (587) does not count.
* A late write brings a removed record back, without the TTL of the old one; a
  record re-created over an expiring one keeps that TTL and goes with it.
* `EXPIRE` and `HSET` (634-637) around a removal leave a hash of metadata alone;
  `getTaskById` throws on it, so pushes of the task repeat until Cloud Tasks stops.
* `completeTask` puts the result into an object that is not saved (565-569).
* `saveUniquenessKey` (53) is an unconditional `SET`: the second of two requests
  that find no key does not learn of the first, which over MongoDB the unique index tells it.
* `getRateLimiterBucket` answers null on an error of Redis, and `tryConsume` then
  creates a full bucket.

A chain task that is added with `skipBuffering` becomes ACTIVE
(`producer.service.ts:377`) and is not sent (415), and no poll looks at it again: it
and its chain are stuck.

## 4. What is proved

Everything below holds for any number of tasks, instances, requests, polls and
faults, and for any limit, refill time and cache lifetime. It follows from the named assumptions on the constants (`StorageAssumption`,
`CloudAssumption`, `ProducerAssumption`, `ConsumerAssumption`, `ChainAssumption`,
`RedisAssumption`, `RedisTaskAssumption`, `LimiterAssumption`), which TLC evaluates in the runs, and the
hypotheses given here.

### The whole path: `CloudTaskMQ`

* `TypeCorrect == Spec => []TypeOK`. `TypeOK` is not inductive alone: the keys stay
  within `Keys` only because a job that saves one serves a task that has one.
  `KeyedAt` says so, and `TypeInv == TypeOK /\ KeyedAt` is the inductive invariant.
* `NoTaskForgotten`: if every task is pushed to the interceptor then
  `Spec => []AccountedFor`. The inductive invariant is `TypeInv` and `Accounted(t)` for
  every task with a `taskId` of its own. The argument is an ownership argument:
  whoever sets a task ACTIVE owns it (an `addTask`, a poll, a request), and every
  step of the owner either keeps it, hands it to Cloud Tasks, changes the status,
  or leaves the task in `stranded`. `StaysAccounted` deals with all tasks that a step
  is not about. A crash hands the pushes back, which needs that a finite set with
  an element has a positive cardinality. The hypothesis is needed: the built-in
  controller answers 200 to a rate-limit retry whose credentials cannot be read: that
  error is no `HttpException`.
* `PathImplementsTaskStore == Spec => ImplementsTaskStore`, for both adapters. The
  initial state maps to `StoreInit`; every action maps to one step of one record, to
  the departure of a worker (`Crash`), or to a stutter. The work is in lemmas, one
  per storage operation, that say which of `Creates`, `Updates`, `Locks`, `Unlocks`,
  `Removes` it is, given that its method is under way, and in lemmas that say so
  of every program counter; `TypeInv` is what makes the mapped values records.
* `LeasesExclude`: if no task is rate-limited and none is added twice, then
  `Spec => []LeaseExclusion`. The inductive invariant ties a job's lease to the
  record: while `job[j].leased`, the record, if it has not been removed, is locked
  by `j`'s instance, the lock has not run out, and all leases on the task belong to
  one instance (`LeaseAt`). An outcome, a removal or a lapse ends the leases with the lock, and
  without a rate limiter nobody releases another's lock. Both hypotheses are
  needed: a denied request releases the lock of another request of its instance,
  and an addition creates the record anew without its lock.
* `KeysExclude`: if no task is rate-limited, then over MongoDB `Spec => []KeyExclusion`.
  The inductive invariant says that a job that holds a key has it in `keys`; the
  unique index refuses a second insertion. A denied request removes the key twice,
  hence the hypothesis.

### While polls do not overlap

`OneSender` is the hypothesis of the next four: one `sendBufferTasks` call at a time,
no rate-limited task (its own request sends it again), and no fault that sends or
pushes a task a second time. The run `OnePoller` satisfies it. Each part is needed;
section 3 says what happens without it.

* `OnePushHolds == Spec => []OnePush`. The inductive invariant (`Sole`) says that a task
  has one owner at a time, the `addTask` call, the poll, the HTTP task or the request;
  that it is IDLE only while it has none or a poll is about to mark it; and that it is
  completed only when it has none.
* `CompletedStaysFinal == Spec => CompletedFinal`, from the same invariant: nobody is
  left who could write.
* `FailuresHaveCause`: without uniqueness keys, `Spec => FailedForCause`. The invariant
  (`CausedInv`) adds that a record is locked only by its one request or after a failed attempt,
  and that a request past its handler's error has `threw` set; so the
  paths that write FAILED for a failed send or a missing record are never taken, and the one
  of LOCK_FAILED only before the lock of a failed attempt.
* `AttemptsWithinMaxRetry`: over MongoDB, `Spec => []AttemptsBounded`. The invariant relates
  `failures`, the `retryCount` of the record, which is counted up twice per attempt, and the
  `retryCount` the request has read, for every program counter of the request.

### Chains: `TaskChains`

* `ChainTypesCorrect == Spec => []TypeOK`.
* `OneActiveHolds == Spec => []OneActivePerQueue` and `HandledInOrderHolds == Spec =>
  HandledInOrder`, under two hypotheses that the run `Chains` satisfies: `OnePoll`, polls do not
  overlap, and `RetriedAlone`, a task that Cloud Tasks retries is alone in its queue
  (section 3). `ChainInv` says that no task of a queue is ACTIVE from the question of its poll
  until that poll marks the task it holds, which is IDLE till then, and that a
  task in Cloud Tasks is ACTIVE or between two attempts. `OrderInv` says that, until a
  send fails, an IDLE task was updated before its IDLE successors in the queue, and that
  only finished tasks precede what a poll is about to mark and what Cloud Tasks has.

### Redis: `RedisTaskMQ`

These four have no hypotheses. A lemma (`StepKinds`) splits `Next` by who steps: an
adapter call, an `addTask`, a request, or the environment.

* `RedisTypesCorrect == Spec => []TypeOK`. A hash is written field by field from what the
  calls carry, so the inductive `TypeInv` follows every call from its first command to
  its reply (`CallFits`) and knows which operation each program counter has called
  (`JobAt`, `AddAt`).
* `AccountedForHolds == Spec => []AccountedFor`. The inductive `AnsweredFor` says of an
  ACTIVE hash that the task is in Cloud Tasks, or its `addTask` is unfinished or has
  thrown, or some request has it that is not settled. A request is settled
  once the last status it writes is written and is an outcome or IDLE, or when it has
  found no record. So a late write that makes a task ACTIVE again, however stale,
  is made by somebody who still has to decide about it.
* `FoundByStatusHolds == Spec => []FoundByStatus`. The invariant `Apart` is about tasks whose
  calls have not overlapped: two calls about it are one and the same, and a call that
  is about to write has seen the hash as it still is.
* `RedisStoreImplemented == Spec => ImplementsTaskStore`. A record is read off its hash, and
  every command maps to a step of `TaskStore` on one record or to a stutter. Most map to a
  stutter; the work is in the commands that write. `Apart` is what makes the record
  that was read the record that is replaced, and a lock that was granted from it
  is still to be had when it is written.

### The rate limiter: `RateLimiter`

* `LimiterTypesCorrect == Spec => []TypeOK`. A new object needs a free place in the heap:
  at most one object per cache and one per request is referred to, so by counting one
  of `Objects` is free (`FreeObjectIsFree`). That every token that was granted answers a
  request needs that the fetching calls are counted in, since they grant later
  without a new request.
* `DenialsAreGenuine == Spec => DenialIsGenuine`, without hypotheses. The inductive invariant
  `Sound` is about every copy of the bucket, stored, cached or being saved: since any
  moment of the last `refillTimeMs` before its refill it has gained what time refills and
  lost at most what was granted to anybody. A stale copy has only more in it; a refill
  keeps `Sound` even when it is capped, because the cap is what `refillTimeMs` refills.
  A denied call holds a refilled copy with less than one token, and `Sound` for the
  moment `refillTimeMs` ago is the property.
* `BudgetIsKept == Spec => []WithinBudget`. The property is about requests that come to
  one instance one at a time, and `OneByOne` says what that gives: one call in
  service, one bucket object, and the storage has its values but while they are being saved.
  `InBudget` relates three amounts: what was granted, the balance of the object and of
  the stored bucket (tokens less what time has refilled), and what deletions and lost
  saves allow. It is a case distinction, because the first bucket of a key grants its
  first request from beside the full bucket, and because a token may be granted whose
  save is still on its way: then the storage is worth one token too many, which a
  restart makes good in `lost`.
* `WaitsAreEnough == Spec => WaitSuffices`. `Promised` says that from the moment a wait is told,
  the stored bucket and the object in use will each hold a token when it is over. That the
  wait told is enough is `WaitTimeEnough`, about the rounded-up quotient; that a refill keeps the
  promise needs that a full bucket holds a token (`maxTokens >= 1`).

### How the proofs are laid out

`JobStepProofs` says of each storage operation that it changes one record, what becomes
of its status and whether it keeps the lock, and of each step of a job (`JobEffect`) that
it changes one record and one job, loses no HTTP task, and hands its task on when it
ends. `CloudTaskMQProofs`, `ExclusionProofs`, `OnePollerProofs` and `TaskStoreProofs` cite these.
In `RedisTaskMQProofs`, `Served`, `JobGoesOn` and `AddGoesOn` play the same part, in
`RateLimiterProofs` `DrawEffect` and `CallerSteps`. Products of constants are not for the SMT
solver: a few lemmas (`Split`, `Grows`, `BalanceDrawn`, `BudgetOf`) reduce them to sums.

Only model-checked: `Settles` and `ChainFinishes`, which are liveness properties under
fairness and outside the prover's reach.

## 5. Not modelled

* Chains: `scheduleTime` and `skipBuffering` together with `chainOptions`, and
  `completeTask`, `failTask` and `processNextChainTask` of the producer, which nothing
  in `src/` calls (an error of `getCredentials` in the last one leaves the next task
  ACTIVE and unsent, as its catch block only logs).
* Of the Redis adapter: the chain queries, `findTasks`, the uniqueness keys and the
  limiter's buckets, which are values as in `RateLimiter`.
* The buckets of the in-memory adapter, which hands out the stored object itself.
* Start-up: module options, decorators, discovery of processors, queue creation.
  They write configuration before the first task and change nothing afterwards.
* Queries (`getTask`, `findTasks`, counts): they read only.
* OIDC tokens and the request's authentication.

## 6. Plan

Done: the core; `RateLimiter` and `TaskChains`; `TaskStore` and its refinements;
`RedisStorage`; the theorems above. Left, in order of importance:

1. An abstract task life cycle (added, in hand, settled) above `CloudTaskMQ`.
2. `TaskChains`: chain tasks sent at once, and chain progression by the producer's
   `completeTask` and `failTask` beside the polls.

Runs: `tlc -config <run>.cfg <module>` with the module named in `PROJECT.json`;
proofs: `tlapm <module>.tla`.
