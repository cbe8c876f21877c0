--------------------------- MODULE ExclusionProofs ---------------------------
(***************************************************************************)
(* One instance at a time: the lock of a task and the uniqueness key exclude,   *)
(* as long as the rate limiter, which gives up both for others, is not used.     *)
(***************************************************************************)
EXTENDS CloudTaskMQProofs

-----------------------------------------------------------------------------
(* The lock *)

\* addTask has not created the record of the task yet.
Early == {"none", "unique", "create"}

\* Where only a denied request gets.
Limiting == {"unkey", "refetch", "release", "unkeyAgain", "reschedule", "readd",
             "recreate", "resend", "rereset"}

NotLimited == \A j \in Jobs : job[j].pc \notin Limiting \cup {"limit"}

(***************************************************************************)
(* Why leases exclude. While a job has its lease, the record is still locked by   *)
(* the job's worker, or is gone; a record that is gone cannot be locked, and      *)
(* none comes back, because addTask has created its record before.              *)
(***************************************************************************)
LeaseAt(t) ==
    /\ added[t] \in Early => ~Exists(tasks[t])
    /\ \A j \in Jobs : Holding(j, t) =>
          /\ added[t] \notin Early
          /\ Exists(tasks[t]) => tasks[t].lockLive /\ tasks[t].lockedBy = WorkerOf[j]
    /\ \A i, j \in Jobs : Holding(i, t) /\ Holding(j, t) => WorkerOf[i] = WorkerOf[j]

LeaseInv == TypeInv /\ NotLimited /\ \A t \in Tasks : LeaseAt(t)

LEMMA LeaseInvIsEnough == LeaseInv => LeaseExclusion
BY TaskOfJob DEF LeaseInv, LeaseAt, LeaseExclusion, Holding, Running, TypeInv, TypeOK,
                 ConsumerTypeOK, JobsOK

\* The record keeps its lock, unless it goes.
StaysLocked(t) ==
    Exists(tasks'[t]) => Exists(tasks[t]) /\ KeepsLock(t)

LEMMA LeaseKept ==
    ASSUME NEW t \in Tasks, LeaseAt(t), StaysLocked(t),
           \A j \in Jobs : Holding(j, t)' => Holding(j, t),
           added'[t] \in Early => added[t] \in Early
    PROVE  LeaseAt(t)'
BY DEF LeaseAt, StaysLocked, KeepsLock

LEMMA SameRecordStaysLocked ==
    ASSUME NEW t \in Tasks, tasks'[t] = tasks[t]
    PROVE  StaysLocked(t)
BY DEF StaysLocked, KeepsLock

LEMMA FailTaskStaysLocked ==
    ASSUME TasksOK, NEW t \in Tasks, FailTask(t)
    PROVE  OnlyRecordOf(t) /\ StaysLocked(t)
<1>1. OnlyRecordOf(t) /\ KeepsLock(t)
  BY FailTaskEffect
<1>2. CASE ~Exists(tasks[t])
  <2>1. tasks'[t] = tasks[t]
    BY <1>2 DEF FailTask, Memory!FailTask, Mongo!FailTask, Memory!Exists, Mongo!Exists,
                Exists, TasksOK
  <2>2. QED
    BY <1>1, <2>1, SameRecordStaysLocked
<1>3. QED
  BY <1>1, <1>2 DEF StaysLocked

\* A step of j that acquires no lock.
Handles(j) ==
    /\ OnlyRecordOf(job[j].task) /\ StaysLocked(job[j].task)
    /\ \A i \in Jobs : i # j => job'[i] = job[i]
    /\ \/ job'[j] = NoJob
       \/ job'[j].task = job[j].task /\ job'[j].leased = job[j].leased
    /\ job'[j].pc \notin Limiting
    /\ RateLimited = {} => job'[j].pc # "limit"

LEMMA GotoHandles ==
    ASSUME JobsOK, NEW j \in Jobs, NEW pc, Goto(j, pc)
    PROVE  /\ \A i \in Jobs : i # j => job'[i] = job[i]
           /\ job'[j].task = job[j].task /\ job'[j].leased = job[j].leased
           /\ job'[j].pc = pc
BY DEF Goto, JobsOK, JobRecords

LEMMA EndHandles ==
    ASSUME JobsOK, NEW j \in Jobs, Ack(j) \/ Nack(j) \/ Rethrow(j)
    PROVE  /\ \A i \in Jobs : i # j => job'[i] = job[i]
           /\ job'[j] = NoJob
           /\ job'[j].pc = "none"
<1>1. job' = [job EXCEPT ![j] = NoJob]
  BY DEF Ack, Nack, Rethrow
<1>2. NoJob.pc = "none"
  BY DEF NoJob
<1>3. QED
  BY <1>1, <1>2 DEF JobsOK

LEMMA RunHandlerMoves ==
    ASSUME JobsOK, NEW j \in Jobs, RunHandler(j)
    PROVE  /\ \A i \in Jobs : i # j => job'[i] = job[i]
           /\ job'[j].task = job[j].task /\ job'[j].leased = job[j].leased
           /\ job'[j].pc \in {"complete", "fail"}
BY DEF RunHandler, Goto, JobsOK, JobRecords

LEMMA AcquireLockMoves ==
    ASSUME JobsOK, NEW j \in Jobs, AcquireLock(j)
    PROVE  /\ \A i \in Jobs : i # j => job'[i] = job[i]
           /\ \/ job'[j].task = job[j].task /\ job'[j].pc = "run"
              \/ job'[j] = NoJob /\ job'[j].pc = "none"
<1>1. CASE job[j].read = Missing
  BY <1>1, EndHandles DEF AcquireLock
<1>2. CASE job[j].read # Missing
  BY <1>2 DEF AcquireLock, JobsOK, JobRecords
<1>3. QED
  BY <1>1, <1>2

LEMMA JobHandles ==
    ASSUME TypeOK, NotLimited, NEW j \in Jobs, JobStep(j), ~AcquireLock(j),
           RateLimited = {}
    PROVE  Handles(j)
<1> DEFINE t == job[j].task
<1>1. job[j].pc # "none" /\ job[j].pc \notin Limiting \cup {"limit"}
  BY JobStepInService DEF NotLimited
<1>2. t \in Tasks /\ TasksOK /\ JobsOK
  BY <1>1, JobContext
<1>3. AfterUniqueness(t) = "lock" /\ "lock" \notin Limiting /\ "none" \notin Limiting
  BY DEF AfterUniqueness, Limiting
<1> HIDE DEF t
<1>4. ASSUME UNCHANGED tasks
      PROVE  OnlyRecordOf(t) /\ StaysLocked(t)
  BY <1>2, <1>4, NoRecordChange, SameRecordStaysLocked
<1>5. CASE Lookup(j) \/ CheckUniqueness(j) \/ SaveKey(j) \/ UnkeyFailed(j)
  <2>1. UNCHANGED tasks
    BY <1>5 DEF Lookup, CheckUniqueness, SaveKey, UnkeyFailed, storageVars
  <2>2. Ack(j) \/ \E pc \in {"activate", "save", "duplicate", "lock", "failAgain"} :
                        Goto(j, pc)
    BY <1>3, <1>5 DEF Lookup, CheckUniqueness, SaveKey, UnkeyFailed, t
  <2>3. QED
    BY <1>2, <1>3, <1>4, <2>1, <2>2, GotoHandles, EndHandles DEF Handles, Limiting, t
<1>6. CASE Activate(j)
  <2>1. UpdateTaskStatus(t, "active") /\ "active" \in Status
    BY <1>6 DEF Activate, Status, t
  <2>2. OnlyRecordOf(t) /\ StaysLocked(t)
    BY <1>2, <2>1, UpdateTaskStatusEffect DEF StaysLocked
  <2> DEFINE pc == IF Unique(t) THEN "unique" ELSE AfterUniqueness(t)
             read == IF Exists(tasks[t]) THEN tasks[t].retryCount ELSE Missing
  <2>3. pc \in {"unique", "lock"}
    BY <1>3
  <2>4. job' = [job EXCEPT ![j].pc = pc, ![j].read = read]
    BY <1>6 DEF Activate, t
  <2> HIDE DEF pc, read
  <2>5. QED
    BY <1>2, <2>2, <2>3, <2>4 DEF Handles, Limiting, JobsOK, JobRecords, t
<1>7. CASE FailDuplicate(j) \/ LockFailed(j) \/ FailAgain(j)
  BY <1>2, <1>3, <1>7, FailTaskStaysLocked, EndHandles
     DEF FailDuplicate, LockFailed, FailAgain, Handles, t
<1>8. CASE RetryLock(j)
  <2>1. UNCHANGED tasks
    BY <1>8 DEF RetryLock, storageVars
  <2> DEFINE pc == IF job[j].tries + 1 < MaxLockRetries THEN "lock" ELSE "lockFailed"
             n == job[j].tries + 1
  <2>2. job' = [job EXCEPT ![j].tries = n, ![j].pc = pc] /\ pc \in {"lock", "lockFailed"}
    BY <1>8 DEF RetryLock
  <2> HIDE DEF pc, n
  <2>3. QED
    BY <1>2, <1>4, <2>1, <2>2 DEF Handles, Limiting, JobsOK, JobRecords, t
<1>9. CASE Complete(j)
  <2>1. CASE CompleteTaskThrows(t)
    BY <1>2, <1>4, <1>9, <2>1, GotoHandles DEF Complete, Handles, Limiting, t
  <2>2. CASE ~CompleteTaskThrows(t)
    <3>1. OnlyRecordOf(t) /\ KeepsLock(t)
      BY <1>2, <1>9, <2>2, CompleteTaskEffect DEF Complete, t
    <3>2. Exists(tasks[t])
      BY <2>2 DEF CompleteTaskThrows, Memory!CompleteTaskThrows,
         Mongo!CompleteTaskThrows, Memory!Exists, Mongo!Exists, Exists
    <3>3. QED
      BY <1>2, <1>3, <1>9, <2>2, <3>1, <3>2, EndHandles
         DEF Complete, Handles, StaysLocked, t
  <2>3. QED
    BY <2>1, <2>2
<1>10. CASE Fail(j)
  <2>1. OnlyRecordOf(t) /\ StaysLocked(t)
    BY <1>2, <1>10, FailTaskStaysLocked DEF Fail, t
  <2>2. Nack(j) \/ \E pc \in {"unkeyFailed", "failAgain"} : Goto(j, pc)
    BY <1>10 DEF Fail
  <2>3. QED
    BY <1>2, <1>3, <2>1, <2>2, GotoHandles, EndHandles DEF Handles, Limiting, t
<1>11. CASE RunHandler(j)
  <2>1. UNCHANGED tasks
    BY <1>11 DEF RunHandler, storageVars
  <2>2. QED
    BY <1>2, <1>4, <1>11, <2>1, RunHandlerMoves DEF Handles, Limiting, t
<1>12. QED
  BY <1>1, <1>5, <1>6, <1>7, <1>8, <1>9, <1>10, <1>11
     DEF JobStep, At, RateLimit, Unkey, Refetch, Release, UnkeyAgain, GiveUpReEnqueue,
         Reschedule, ReAddCheckUniqueness, ReCreate, ReSend, ReReset, Limiting

LEMMA LeaseContext ==
    ASSUME LeaseInv
    PROVE  /\ TypeInv /\ TypeOK /\ KeyedAt /\ NotLimited
           /\ TasksOK /\ JobsOK /\ ProducerTypeOK
           /\ \A t \in Tasks : LeaseAt(t) /\ t # NoTaskId
<1>1. NoTaskId \notin Tasks
  BY ConsumerAssumption
<1>2. TypeInv /\ NotLimited /\ \A t \in Tasks : LeaseAt(t)
  BY DEF LeaseInv
<1>3. TypeOK /\ KeyedAt
  BY <1>2 DEF TypeInv
<1>4. TasksOK /\ JobsOK /\ ProducerTypeOK
  BY <1>3 DEF TypeOK, StorageTypeOK, ConsumerTypeOK, TasksOK, JobsOK
<1>5. QED
  BY <1>1, <1>2, <1>3, <1>4

LEMMA LeaseProducer ==
    ASSUME LeaseInv, ProducerNext, "resubmit" \notin Faults, NEW t \in Tasks
    PROVE  LeaseAt(t)'
<1>1. /\ TypeOK /\ TasksOK /\ ProducerTypeOK /\ LeaseAt(t) /\ UNCHANGED consumerVars
      /\ \A j \in Jobs : Holding(j, t)' => Holding(j, t)
  BY LeaseContext DEF ProducerNext, consumerVars, Holding
<1>2. ASSUME NEW u \in Tasks, u # t, ProducerEffect(u)
      PROVE  LeaseAt(t)'
  BY <1>1, <1>2, LeaseKept, SameRecordStaysLocked
     DEF ProducerEffect, ProducerFrame, OnlyRecordOf
<1>3. ASSUME NEW u \in Tasks, AddTask(u) \/ AddSteps(u)
      PROVE  LeaseAt(t)'
  <2>1. ProducerEffect(u)
    BY <1>1, <1>3, AddEffect, AddSendEffect DEF AddSteps
  <2>2. CASE u = t /\ AddCreate(t)
    <3>1. added[t] \in Early /\ added'[t] \notin Early
      BY <1>1, <2>2 DEF AddCreate, AddStep, Early, ProducerTypeOK
    <3>2. QED
      BY <1>1, <3>1 DEF LeaseAt
  <2>3. CASE u = t /\ ~AddCreate(t)
    <3>1. added'[t] \in Early => added[t] \in Early
      BY <1>1, <1>3, <2>3 DEF AddTask, AddSteps, AddCheckUniqueness, AddSend, AddReset,
         AddStep, Early, ProducerTypeOK
    <3>2. StaysLocked(t)
      <4>1. CASE AddReset(t)
        BY <1>1, <4>1, ResetAfterCatchEffect DEF AddReset, StaysLocked
      <4>2. CASE ~AddReset(t)
        BY <1>3, <2>3, <4>2, SameRecordStaysLocked DEF AddTask, AddSteps,
           AddCheckUniqueness, AddSend, storageVars
      <4>3. QED
        BY <4>1, <4>2
    <3>3. QED
      BY <1>1, <3>1, <3>2, LeaseKept
  <2>4. QED
    BY <1>2, <2>1, <2>2, <2>3
<1>4. ASSUME NEW p \in Polls, NEW u \in Tasks,
             PollMark(p, u) \/ PollSend(p, u) \/ PollReset(p, u) \/ PollRevert(p, u)
      PROVE  LeaseAt(t)'
  <2>1. ProducerEffect(u)
    BY <1>1, <1>4, PollEffect
  <2>2. CASE u = t
    <3>1. UNCHANGED added
      BY <1>4 DEF PollMark, PollSend, PollReset, PollRevert, PollStep
    <3>2. StaysLocked(t)
      BY <1>1, <1>4, <2>2, UpdateTaskStatusEffect, ResetAfterCatchEffect,
         SameRecordStaysLocked
         DEF PollMark, PollSend, PollReset, PollRevert, StaysLocked, Status, storageVars
    <3>3. QED
      BY <1>1, <3>1, <3>2, LeaseKept
  <2>3. QED
    BY <1>2, <2>1, <2>2
<1>5. ASSUME NEW p \in Polls, PollFetch(p)
      PROVE  LeaseAt(t)'
  BY <1>1, <1>5, LeaseKept, SameRecordStaysLocked DEF PollFetch, storageVars
<1>6. ASSUME NEW u \in Tasks, AddTaskAgain(u)
      PROVE  FALSE
  BY <1>6 DEF AddTaskAgain, Fault
<1>7. QED
  BY <1>3, <1>4, <1>5, <1>6 DEF ProducerNext, PollSteps

\* The one step that makes a lease: it finds the lock free, expired or its own.
LEMMA LeaseAcquired ==
    ASSUME LeaseInv, NEW j \in Jobs, AcquireLock(j)
    PROVE  /\ \A t \in Tasks : LeaseAt(t)' \/ added' # added
           /\ job'[j].pc \in {"none", "run"}
           /\ \A i \in Jobs : i # j => job'[i] = job[i]
<1> DEFINE u == job[j].task
           w == WorkerOf[j]
<1>1. /\ TypeOK /\ JobsOK /\ TasksOK /\ job[j].pc # "none" /\ u \in Tasks
      /\ w \in Workers /\ LeaseAt(u)
  <2>1. job[j].pc # "none" /\ WorkerOf[j] \in Workers
    BY ConsumerAssumption DEF AcquireLock, At
  <2>2. QED
    BY <2>1, LeaseContext, TaskOfJob
<1>2. CanAcquireTaskLock(u, w) /\ AcquireTaskLock(u, w)
  BY DEF AcquireLock
<1> HIDE DEF w
<1>3. /\ OnlyRecordOf(u) /\ Exists(tasks[u])
      /\ tasks'[u].lockLive /\ tasks'[u].lockedBy = w
      /\ tasks[u].lockLive => tasks[u].lockedBy = w
  BY <1>1, <1>2, AcquireTaskLockEffect
<1>4. /\ \A i \in Jobs : i # j => job'[i] = job[i]
      /\ \/ job'[j].task = u /\ job'[j].pc = "run"
         \/ job'[j].task = NoTaskId /\ job'[j].pc = "none"
  BY <1>1, AcquireLockMoves DEF NoJob
<1>5. ASSUME NEW t \in Tasks, UNCHANGED added
      PROVE  LeaseAt(t)'
  <2>1. LeaseAt(t) /\ t # NoTaskId
    BY ConsumerAssumption DEF LeaseInv
  <2>2. CASE t = u
    <3>1. added[u] \notin Early
      BY <1>1, <1>3 DEF LeaseAt
    <3>2. ASSUME NEW i \in Jobs, Holding(i, t)'
          PROVE  WorkerOf[i] = w
      <4>1. CASE i = j
        BY <4>1 DEF w
      <4>2. CASE i # j
        <5>1. Holding(i, t)
          BY <1>4, <3>2, <4>2 DEF Holding
        <5>2. QED
          BY <1>1, <1>3, <2>2, <5>1 DEF LeaseAt
      <4>3. QED
        BY <4>1, <4>2
    <3>3. tasks'[t].lockLive /\ tasks'[t].lockedBy = w /\ added'[t] \notin Early
      BY <1>3, <1>5, <2>2, <3>1
    <3>4. QED
      BY <3>2, <3>3 DEF LeaseAt
  <2>3. CASE t # u
    <3>1. \A i \in Jobs : Holding(i, t)' => Holding(i, t)
      BY <1>1, <1>4, <2>1, <2>3 DEF Holding
    <3>2. QED
      BY <1>3, <1>5, <2>1, <2>3, <3>1, LeaseKept, SameRecordStaysLocked DEF OnlyRecordOf
  <2>4. QED
    BY <2>2, <2>3
<1>6. QED
  BY <1>4, <1>5

LEMMA LeaseConsumer ==
    ASSUME LeaseInv, ConsumerNext, RateLimited = {}
    PROVE  NotLimited' /\ \A t \in Tasks : LeaseAt(t)'
<1>1. /\ TypeInv /\ TypeOK /\ KeyedAt /\ NotLimited /\ TasksOK /\ JobsOK
      /\ UNCHANGED <<added, poll, stranded>> /\ \A t \in Tasks : LeaseAt(t) /\ t # NoTaskId
  BY LeaseContext DEF ConsumerNext, producerVars
<1>2. ASSUME NEW j \in Jobs, AcquireLock(j)
      PROVE  NotLimited' /\ \A t \in Tasks : LeaseAt(t)'
  BY <1>1, <1>2, LeaseAcquired DEF NotLimited, Limiting
<1>3. ASSUME NEW j \in Jobs, JobStep(j), ~AcquireLock(j)
      PROVE  NotLimited' /\ \A t \in Tasks : LeaseAt(t)'
  <2>1. Handles(j)
    BY <1>1, <1>3, JobHandles
  <2>2. NotLimited'
    BY <1>1, <2>1 DEF Handles, NotLimited
  <2>3. ASSUME NEW t \in Tasks
        PROVE  LeaseAt(t)'
    <3>1. \A i \in Jobs : Holding(i, t)' => Holding(i, t)
      BY <1>1, <2>1 DEF Handles, Holding, NoJob
    <3>2. StaysLocked(t)
      BY <2>1, SameRecordStaysLocked DEF Handles, OnlyRecordOf
    <3>3. QED
      BY <1>1, <3>1, <3>2, LeaseKept
  <2>4. QED
    BY <2>2, <2>3
<1>4. ASSUME NEW j \in Jobs, NEW u \in Tasks, Deliver(j, u)
      PROVE  NotLimited' /\ \A t \in Tasks : LeaseAt(t)'
  <2>1. /\ \A i \in Jobs : i # j => job'[i] = job[i]
        /\ job'[j].pc = "lookup" /\ UNCHANGED tasks
    BY <1>1, <1>4, DeliverEffect DEF OnlyJob
  <2>2. job'[j].leased = FALSE
    <3> DEFINE request == [NoJob EXCEPT !.pc = "lookup", !.task = u]
    <3>1. request.leased = FALSE
      BY DEF NoJob
    <3>2. job' = [job EXCEPT ![j] = request]
      BY <1>4 DEF Deliver
    <3> HIDE DEF request
    <3>3. QED
      BY <1>1, <3>1, <3>2 DEF JobsOK
  <2>3. \A t \in Tasks, i \in Jobs : Holding(i, t)' => Holding(i, t)
    BY <2>1, <2>2 DEF Holding
  <2>4. NotLimited'
    BY <1>1, <2>1 DEF NotLimited, Limiting
  <2>5. QED
    BY <1>1, <2>1, <2>3, <2>4, LeaseKept, SameRecordStaysLocked
<1>5. ASSUME NEW u \in Tasks, DeliverWithoutTaskId(u)
      PROVE  NotLimited' /\ \A t \in Tasks : LeaseAt(t)'
  <2>1. UNCHANGED <<tasks, job>>
    BY <1>5 DEF DeliverWithoutTaskId, storageVars, consumerVars
  <2>2. QED
    BY <1>1, <2>1, LeaseKept, SameRecordStaysLocked DEF NotLimited, Holding
<1>6. QED
  BY <1>2, <1>3, <1>4, <1>5 DEF ConsumerNext

LEMMA LeaseEnvironment ==
    ASSUME LeaseInv, EnvironmentNext
    PROVE  NotLimited' /\ \A t \in Tasks : LeaseAt(t)'
<1>1. /\ TypeInv /\ TypeOK /\ NotLimited /\ TasksOK /\ JobsOK /\ ProducerTypeOK
      /\ \A t \in Tasks : LeaseAt(t) /\ t # NoTaskId
  BY LeaseContext
<1>2. ASSUME NEW u \in Tasks, LockExpires(u)
      PROVE  NotLimited' /\ \A t \in Tasks : LeaseAt(t)'
  <2>1. /\ \A j \in Jobs : job'[j].pc = job[j].pc /\ job'[j].task = job[j].task
        /\ UNCHANGED added
    BY <1>1, <1>2, LockExpiresEffect DEF producerVars
  <2>2. ASSUME NEW j \in Jobs
        PROVE  /\ job'[j].leased => job[j].leased
               /\ Holding(j, u) /\ WorkerOf[j] = tasks[u].lockedBy => ~job'[j].leased
    BY <1>1, <1>2 DEF LockExpires, JobsOK, JobRecords
  <2>3. tasks' = [tasks EXCEPT ![u].lockLive = FALSE]
    BY <1>2 DEF LockExpires
  <2>4. ASSUME NEW t \in Tasks
        PROVE  LeaseAt(t)'
    <3>1. \A j \in Jobs : Holding(j, t)' => Holding(j, t)
      BY <2>1, <2>2 DEF Holding
    <3>2. CASE t # u
      <4>1. tasks'[t] = tasks[t]
        BY <1>1, <2>3, <3>2
      <4>2. QED
        BY <1>1, <2>1, <3>1, <4>1, LeaseKept, SameRecordStaysLocked
    <3>3. CASE t = u
      <4>1. Exists(tasks'[u]) <=> Exists(tasks[u])
        BY <1>1, <2>3 DEF TaskRecords, Exists
      <4>2. Exists(tasks[u]) => \A j \in Jobs : ~Holding(j, u)'
        BY <1>1, <2>1, <2>2 DEF LeaseAt, Holding
      <4>3. QED
        BY <1>1, <2>1, <3>1, <3>3, <4>1, <4>2 DEF LeaseAt
    <3>4. QED
      BY <3>2, <3>3
  <2>5. QED
    BY <1>1, <2>1, <2>4 DEF NotLimited
<1>3. ASSUME NEW u \in Tasks, RecordExpires(u)
      PROVE  NotLimited' /\ \A t \in Tasks : LeaseAt(t)'
  <2>1. tasks' = [tasks EXCEPT ![u] = NoTask] /\ UNCHANGED <<added, job>>
    BY <1>3 DEF RecordExpires, producerVars, consumerVars
  <2>2. \A t \in Tasks : StaysLocked(t)
    <3>1. ~Exists(NoTask)
      BY DEF Exists, NoTask
    <3>2. QED
      BY <1>1, <2>1, <3>1, SameRecordStaysLocked DEF StaysLocked
  <2>3. QED
    BY <1>1, <2>1, <2>2, LeaseKept DEF NotLimited, Holding
<1>4. ASSUME NEW u \in Tasks, PushAgain(u)
      PROVE  NotLimited' /\ \A t \in Tasks : LeaseAt(t)'
  BY <1>1, <1>4, LeaseKept, SameRecordStaysLocked
     DEF PushAgain, NotLimited, Holding, storageVars, producerVars, consumerVars
<1>5. ASSUME NEW w \in Workers, Crash(w)
      PROVE  NotLimited' /\ \A t \in Tasks : LeaseAt(t)'
  <2>1. \A j \in Jobs : \/ job'[j] = job[j] /\ (WorkerOf[j] = w => job[j].pc = "none")
                        \/ job'[j] = NoJob
    BY <1>1, <1>5 DEF Crash, JobsOK, At
  <2>2. \A t \in Tasks, j \in Jobs :
           Holding(j, t)' => Holding(j, t) /\ WorkerOf[j] # w
    BY <1>1, <2>1 DEF Holding, NoJob, JobsOK
  <2>3. \A t \in Tasks : added'[t] \in Early => added[t] \in Early
    BY <1>1, <1>5 DEF Crash, Early
  <2>4. \A t \in Tasks :
           /\ Exists(tasks'[t]) <=> Exists(tasks[t])
           /\ tasks'[t].lockLive = tasks[t].lockLive
           /\ tasks[t].lockedBy # w => tasks'[t].lockedBy = tasks[t].lockedBy
    BY <1>1, <1>5 DEF Crash, Exists, TaskRecords
  <2>5. NotLimited'
    BY <1>1, <2>1 DEF NotLimited, NoJob, Limiting
  <2>6. ASSUME NEW t \in Tasks
        PROVE  LeaseAt(t)'
    BY <1>1, <2>2, <2>3, <2>4 DEF LeaseAt
  <2>7. QED
    BY <2>5, <2>6
<1>6. QED
  BY <1>2, <1>3, <1>4, <1>5 DEF EnvironmentNext

(***************************************************************************)
(* The lock of a task excludes: two instances never run its handler while both   *)
(* leases last, for either adapter and any number of instances, requests and     *)
(* polls, through crashes, expiring locks and records, repeated pushes and failed *)
(* sends.  The rate limiter is left out, because a denied request releases the    *)
(* lock of another one of its instance, and so is a task added a second time,    *)
(* whose createTask overwrites the lock of the first one.                       *)
(***************************************************************************)
THEOREM LeasesExclude ==
    ASSUME RateLimited = {}, "resubmit" \notin Faults
    PROVE  Spec => []LeaseExclusion
<1>1. Init => LeaseInv
  <2> SUFFICES ASSUME Init PROVE LeaseInv
    OBVIOUS
  <2>1. NotLimited
    BY DEF Init, ConsumerInit, NoJob, NotLimited, Limiting
  <2>2. \A t \in Tasks : LeaseAt(t)
    BY ConsumerAssumption
       DEF Init, ConsumerInit, StorageInit, NoJob, NoTask, Exists, LeaseAt, Holding
  <2>3. QED
    BY <2>1, <2>2, TypeInvInit DEF LeaseInv
<1>2. LeaseInv /\ [Next]_vars => LeaseInv'
  <2> SUFFICES ASSUME LeaseInv, [Next]_vars PROVE LeaseInv'
    OBVIOUS
  <2>1. TypeInv'
    BY TypeInvStep DEF LeaseInv
  <2>2. NotLimited' /\ \A t \in Tasks : LeaseAt(t)'
    <3>1. CASE ProducerNext
      <4>1. NotLimited'
        BY <3>1 DEF LeaseInv, NotLimited, ProducerNext, consumerVars
      <4>2. QED
        BY <3>1, <4>1, LeaseProducer
    <3>2. CASE UNCHANGED vars
      BY <3>2 DEF LeaseInv, NotLimited, LeaseAt, Holding, vars, storageVars,
                  producerVars, consumerVars
    <3>3. QED
      BY <3>1, <3>2, LeaseConsumer, LeaseEnvironment DEF Next
  <2>3. QED
    BY <2>1, <2>2 DEF LeaseInv
<1>3. QED
  BY <1>1, <1>2, LeaseInvIsEnough, PTL DEF Spec

-----------------------------------------------------------------------------
(* The uniqueness key *)

\* A key that a job holds is set, and has no second holder.
KeyInv ==
    /\ TypeInv /\ NotLimited /\ KeyExclusion
    /\ \A j \in Jobs : HoldsKey(j) => KeyIsSet(job[j].task)

\* Only SaveKey sets a key, and only if it was not set; only UnkeyFailed removes
\* one, for the job that held it.
KeyMoves(j) ==
    LET t == job[j].task
    IN  /\ \A i \in Jobs : i # j => job'[i] = job[i]
        /\ \/ /\ UNCHANGED keys
              /\ HoldsKey(j)' => HoldsKey(j) /\ job'[j].task = t
           \/ /\ ~KeyIsSet(t) /\ SaveUniquenessKey(t)
              /\ job'[j].task = t
           \/ /\ HoldsKey(j) /\ RemoveUniquenessKey(t)
              /\ ~HoldsKey(j)'

\* The states of HoldsKey.
Keyed == {"limit", "unkey", "lock", "lockFailed", "run", "complete", "fail", "unkeyFailed"}

LEMMA JobKeyMoves ==
    ASSUME TypeOK, NotLimited, NEW j \in Jobs, JobStep(j),
           RateLimited = {}, Adapter = "mongo"
    PROVE  KeyMoves(j)
<1> DEFINE t == job[j].task
<1>1. job[j].pc # "none" /\ job[j].pc \notin Limiting \cup {"limit"}
  BY JobStepInService DEF NotLimited
<1>2. /\ t \in Tasks /\ JobsOK
      /\ UniquenessKey[t] = UniquenessKey[job[j].task]
      /\ HoldsKey(j) <=> Unique(t) /\ job[j].pc \in Keyed
  BY <1>1, JobContext DEF HoldsKey, Keyed
<1>3. HoldsKey(j)' => Unique(job'[j].task) /\ job'[j].pc \in Keyed
  BY DEF HoldsKey, Keyed, Unique
<1>4. AfterUniqueness(t) = "lock" /\ NoJob.pc \notin Keyed
  BY DEF AfterUniqueness, NoJob, Keyed
<1> HIDE DEF t
\* The job goes on in a state without the key, or with the key it had.
<1>5. ASSUME NEW pc, Goto(j, pc), UNCHANGED keys,
             pc \in Keyed => job[j].pc \in Keyed \/ ~Unique(t)
      PROVE  KeyMoves(j)
  BY <1>2, <1>3, <1>5, GotoHandles DEF KeyMoves, t
<1>6. ASSUME Ack(j) \/ Nack(j) \/ Rethrow(j), UNCHANGED keys
      PROVE  KeyMoves(j)
  BY <1>2, <1>3, <1>4, <1>6, EndHandles DEF KeyMoves
<1>7. CASE Lookup(j) \/ CheckUniqueness(j) \/ FailDuplicate(j)
           \/ LockFailed(j) \/ Complete(j) \/ Fail(j) \/ FailAgain(j)
  <2>1. UNCHANGED keys
    BY <1>7 DEF Lookup, CheckUniqueness, FailDuplicate, LockFailed, Complete, Fail,
                FailAgain, storageVars
  <2>2. \/ Ack(j) \/ Nack(j) \/ Rethrow(j) \/ Goto(j, "activate") \/ Goto(j, "save")
        \/ job[j].pc \in Keyed /\ \E pc : Goto(j, pc)
    BY <1>7 DEF Lookup, CheckUniqueness, FailDuplicate, LockFailed, Complete, Fail,
                FailAgain, At, Keyed
  <2>3. QED
    BY <1>5, <1>6, <2>1, <2>2 DEF Keyed
<1>8. CASE Activate(j)
  <2> DEFINE pc == IF Unique(t) THEN "unique" ELSE AfterUniqueness(t)
             read == IF Exists(tasks[t]) THEN tasks[t].retryCount ELSE Missing
  <2>1. job' = [job EXCEPT ![j].pc = pc, ![j].read = read] /\ UNCHANGED keys
    BY <1>8 DEF Activate, t
  <2>2. Unique(t) => pc \notin Keyed
    BY DEF Keyed
  <2> HIDE DEF pc, read
  <2>3. /\ \A i \in Jobs : i # j => job'[i] = job[i]
        /\ job'[j].pc = pc /\ job'[j].task = t
    BY <1>2, <2>1 DEF JobsOK, JobRecords, t
  <2>4. QED
    BY <1>2, <1>3, <2>1, <2>2, <2>3 DEF KeyMoves, t
<1>9. CASE SaveKey(j)
  <2>1. CASE SaveUniquenessKeyThrows(t)
    BY <1>5, <1>9, <2>1 DEF SaveKey, Keyed, t
  <2>2. CASE ~SaveUniquenessKeyThrows(t)
    <3>1. ~KeyIsSet(t)
      BY <2>2 DEF SaveUniquenessKeyThrows, Mongo!SaveUniquenessKeyThrows
    <3>2. Goto(j, "lock") /\ SaveUniquenessKey(t)
      BY <1>4, <1>9, <2>2 DEF SaveKey, t
    <3>3. QED
      BY <1>2, <3>1, <3>2, GotoHandles DEF KeyMoves, t
  <2>3. QED
    BY <2>1, <2>2
<1>10. CASE UnkeyFailed(j)
  <2>1. /\ job[j].pc = "unkeyFailed" /\ Goto(j, "failAgain") /\ RemoveUniquenessKey(t)
    BY <1>10 DEF UnkeyFailed, At, t
  <2>2. CASE Unique(t)
    BY <1>2, <1>3, <2>1, <2>2, GotoHandles DEF KeyMoves, Keyed, t
  <2>3. CASE ~Unique(t)
    <3>1. UNCHANGED keys
      BY <1>2, <2>1, <2>3, JobContext, StorageAssumption, <1>1
         DEF RemoveUniquenessKey, Unique
    <3>2. QED
      BY <1>5, <2>1, <3>1 DEF Keyed
  <2>4. QED
    BY <2>2, <2>3
<1>11. CASE AcquireLock(j)
  BY <1>2, <1>3, <1>4, <1>11, AcquireLockMoves DEF AcquireLock, At, KeyMoves, Keyed, t
<1>12. CASE RetryLock(j)
  <2> DEFINE pc == IF job[j].tries + 1 < MaxLockRetries THEN "lock" ELSE "lockFailed"
             n == job[j].tries + 1
  <2>1. job' = [job EXCEPT ![j].tries = n, ![j].pc = pc] /\ UNCHANGED keys
    BY <1>12 DEF RetryLock, storageVars
  <2> HIDE DEF pc, n
  <2>2. /\ \A i \in Jobs : i # j => job'[i] = job[i]
        /\ job'[j].task = t /\ job[j].pc \in Keyed
    BY <1>2, <1>12, <2>1 DEF JobsOK, JobRecords, RetryLock, At, Keyed, t
  <2>3. QED
    BY <1>2, <1>3, <2>1, <2>2 DEF KeyMoves, t
<1>13. CASE RunHandler(j)
  <2>1. job[j].pc \in Keyed /\ UNCHANGED keys
    BY <1>13 DEF RunHandler, At, Keyed, storageVars
  <2>2. QED
    BY <1>2, <1>3, <1>13, <2>1, RunHandlerMoves DEF KeyMoves, t
<1>14. QED
  BY <1>1, <1>7, <1>8, <1>9, <1>10, <1>11, <1>12, <1>13
     DEF JobStep, At, RateLimit, Unkey, Refetch, Release, UnkeyAgain, GiveUpReEnqueue,
         Reschedule, ReAddCheckUniqueness, ReCreate, ReSend, ReReset, Limiting

LEMMA NotLimitedStep ==
    ASSUME TypeInv, NotLimited, RateLimited = {}, NEW j \in Jobs, JobStep(j)
    PROVE  NotLimited'
<1>1. TypeOK /\ JobsOK
  BY DEF TypeInv, TypeOK, ConsumerTypeOK, JobsOK
<1>2. CASE AcquireLock(j)
  BY <1>1, <1>2, AcquireLockMoves DEF NotLimited, Limiting
<1>3. CASE ~AcquireLock(j)
  BY <1>1, <1>3, JobHandles DEF Handles, NotLimited
<1>4. QED
  BY <1>2, <1>3

\* A step that moves the key of one job only leaves every key with one holder.
LEMMA KeyKept ==
    ASSUME KeyInv, NEW j \in Jobs, KeyMoves(j)
    PROVE  /\ KeyExclusion'
           /\ \A i \in Jobs : HoldsKey(i)' => KeyIsSet(job[i].task)'
<1> DEFINE K(i) == UniquenessKey[job[i].task]
<1>1. /\ \A i \in Jobs : HoldsKey(i) => K(i) \in keys
      /\ \A h, i \in Jobs : HoldsKey(h) /\ HoldsKey(i) /\ K(h) = K(i) => h = i
  BY DEF KeyInv, KeyExclusion, KeyIsSet
<1>2. \A i \in Jobs : i # j => /\ job'[i] = job[i]
                               /\ HoldsKey(i)' <=> HoldsKey(i)
  BY DEF KeyMoves, HoldsKey, Unique
<1>3. SUFFICES /\ \A i \in Jobs : HoldsKey(i)' => K(i)' \in keys'
               /\ \A h, i \in Jobs : HoldsKey(h)' /\ HoldsKey(i)' /\ K(h)' = K(i)' => h = i
  BY DEF KeyExclusion, KeyIsSet
<1>4. CASE UNCHANGED keys /\ (HoldsKey(j)' => HoldsKey(j) /\ job'[j].task = job[j].task)
  BY <1>1, <1>2, <1>4
<1>5. CASE /\ ~KeyIsSet(job[j].task) /\ SaveUniquenessKey(job[j].task)
           /\ job'[j].task = job[j].task
  BY <1>1, <1>2, <1>5 DEF KeyIsSet, SaveUniquenessKey
<1>6. CASE HoldsKey(j) /\ RemoveUniquenessKey(job[j].task) /\ ~HoldsKey(j)'
  BY <1>1, <1>2, <1>6 DEF RemoveUniquenessKey
<1>7. QED
  BY <1>4, <1>5, <1>6 DEF KeyMoves

\* Jobs that stay as they are, end, or start hold no key they did not hold.
LEMMA NoKeyMoves ==
    ASSUME KeyInv, UNCHANGED keys,
           \A j \in Jobs : HoldsKey(j)' => HoldsKey(j) /\ job'[j].task = job[j].task
    PROVE  /\ KeyExclusion'
           /\ \A j \in Jobs : HoldsKey(j)' => KeyIsSet(job[j].task)'
BY DEF KeyInv, KeyExclusion, KeyIsSet

LEMMA KeyStep ==
    ASSUME KeyInv, Next, RateLimited = {}, Adapter = "mongo"
    PROVE  KeyInv'
<1>1. TypeInv /\ TypeOK /\ NotLimited /\ JobsOK /\ TypeInv'
  BY TypeInvStep DEF KeyInv, TypeInv, TypeOK, ConsumerTypeOK, JobsOK
\* Every step but one of a job: no request gets any further.
<1>2. ASSUME UNCHANGED keys,
             \A j \in Jobs : \/ job'[j].pc = job[j].pc /\ job'[j].task = job[j].task
                             \/ job'[j].pc \in {"none", "lookup"}
      PROVE  KeyInv'
  <2>1. \A j \in Jobs : HoldsKey(j)' => HoldsKey(j) /\ job'[j].task = job[j].task
    BY <1>2 DEF HoldsKey, Unique
  <2>2. NotLimited'
    BY <1>1, <1>2 DEF NotLimited, Limiting
  <2>3. QED
    BY <1>1, <1>2, <2>1, <2>2, NoKeyMoves DEF KeyInv
<1>3. CASE ProducerNext
  <2>1. UNCHANGED <<keys, job>>
    BY <1>3 DEF ProducerNext, AddTask, AddTaskAgain, AddSteps, AddCheckUniqueness,
       AddCreate, AddSend, AddReset, PollSteps, PollFetch, PollMark, PollSend, PollReset,
       PollRevert, storageVars, consumerVars
  <2>2. QED
    BY <1>2, <2>1
<1>4. ASSUME NEW j \in Jobs, JobStep(j)
      PROVE  KeyInv'
  BY <1>1, <1>4, JobKeyMoves, KeyKept, NotLimitedStep DEF KeyInv
<1>5. ASSUME NEW j \in Jobs, NEW t \in Tasks, Deliver(j, t)
      PROVE  KeyInv'
  BY <1>1, <1>2, <1>5, DeliverEffect DEF OnlyJob
<1>6. ASSUME NEW t \in Tasks, DeliverWithoutTaskId(t) \/ RecordExpires(t) \/ PushAgain(t)
      PROVE  KeyInv'
  BY <1>2, <1>6 DEF DeliverWithoutTaskId, RecordExpires, PushAgain, storageVars,
                    consumerVars
<1>7. ASSUME NEW t \in Tasks, LockExpires(t)
      PROVE  KeyInv'
  BY <1>1, <1>2, <1>7, LockExpiresEffect
<1>8. ASSUME NEW w \in Workers, Crash(w)
      PROVE  KeyInv'
  BY <1>1, <1>2, <1>8, NoJobType DEF Crash, JobsOK
<1>9. QED
  BY <1>3, <1>4, <1>5, <1>6, <1>7, <1>8 DEF Next, ConsumerNext, EnvironmentNext

(***************************************************************************)
(* With the MongoDB adapter, whose saveUniquenessKey is an insert, a uniqueness   *)
(* key has one holder at a time, for any number of tasks, instances and requests   *)
(* under every fault, crashes and re-submitted tasks included.  A task that is      *)
(* rate-limited gives up a key that another one may hold.                        *)
(***************************************************************************)
THEOREM KeysExclude ==
    ASSUME RateLimited = {}, Adapter = "mongo"
    PROVE  Spec => []KeyExclusion
<1>1. Init => KeyInv
  <2> SUFFICES ASSUME Init PROVE KeyInv
    OBVIOUS
  <2>1. \A j \in Jobs : job[j].pc = "none"
    BY DEF Init, ConsumerInit, NoJob
  <2>2. QED
    BY <2>1, TypeInvInit DEF KeyInv, NotLimited, Limiting, KeyExclusion, HoldsKey
<1>2. KeyInv /\ [Next]_vars => KeyInv'
  <2> SUFFICES ASSUME KeyInv, [Next]_vars PROVE KeyInv'
    OBVIOUS
  <2>1. CASE Next
    BY <2>1, KeyStep
  <2>2. CASE UNCHANGED vars
    <3>1. TypeInv'
      BY TypeInvStep DEF KeyInv
    <3>2. QED
      BY <2>2, <3>1 DEF KeyInv, NotLimited, KeyExclusion, HoldsKey, Unique, KeyIsSet,
                        vars, storageVars, consumerVars
  <2>3. QED
    BY <2>1, <2>2
<1>3. KeyInv => KeyExclusion
  BY DEF KeyInv
<1>4. QED
  BY <1>1, <1>2, <1>3, PTL DEF Spec
=============================================================================
