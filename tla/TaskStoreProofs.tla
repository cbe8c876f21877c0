--------------------------- MODULE TaskStoreProofs ---------------------------
(***************************************************************************)
(* CloudTaskMQ implements TaskStore: every step of the path of a task is a step *)
(* of the abstract store, or leaves the records alone.                        *)
(***************************************************************************)
EXTENDS CloudTaskMQProofs

\* What becomes of the record of t is a step of the store, or nothing.
StoreStep(t) ==
    /\ OnlyRecordOf(t)
    /\ tasks'[t] = tasks[t] \/ Store!Steps(CallsAbout(t), tasks[t], tasks'[t])

LEMMA UnchangedIsCall ==
    ASSUME UNCHANGED tasks
    PROVE  Store!StoreNext
BY DEF Store!StoreNext, Store!Call

LEMMA StoreStepIsServed ==
    ASSUME TasksOK, NEW t \in Tasks, StoreStep(t)
    PROVE  Store!StoreNext
<1>1. CASE tasks'[t] = tasks[t]
  <2>1. tasks' = tasks
    BY <1>1 DEF StoreStep, OnlyRecordOf, TasksOK
  <2>2. QED
    BY <2>1, UnchangedIsCall
<1>2. CASE Store!Steps(CallsAbout(t), tasks[t], tasks'[t])
  <2>1. Store!Serve(t)
    BY <1>2 DEF StoreStep, OnlyRecordOf, Store!Serve
  <2>2. QED
    BY <2>1 DEF Store!StoreNext
<1>3. QED
  BY <1>1, <1>2 DEF StoreStep

LEMMA NoRecordStep ==
    ASSUME TasksOK, NEW t \in Tasks, UNCHANGED tasks
    PROVE  StoreStep(t)
BY NoRecordChange DEF StoreStep

-----------------------------------------------------------------------------
(* The calls that are under way *)

LEMMA AddCalls ==
    ASSUME NEW t \in Tasks, MethodAt(added[t]) # "none"
    PROVE  Store!UnderWay(CallsAbout(t), MethodAt(added[t]))
<1> DEFINE k == <<MethodAt(added[t]), CallerOf[t]>>
<1>1. k \in CallsAbout(t)
  BY DEF CallsAbout
<1>2. k[1] = MethodAt(added[t])
  OBVIOUS
<1> HIDE DEF k
<1>3. QED
  BY <1>1, <1>2 DEF Store!UnderWay

LEMMA PollCalls ==
    ASSUME NEW t \in Tasks, NEW p \in Polls, MethodAt(poll[p][t]) # "none"
    PROVE  Store!UnderWay(CallsAbout(t), MethodAt(poll[p][t]))
<1> DEFINE k == <<MethodAt(poll[p][t]), HostOf[p]>>
<1>1. k \in CallsAbout(t)
  BY DEF CallsAbout
<1>2. k[1] = MethodAt(poll[p][t])
  OBVIOUS
<1> HIDE DEF k
<1>3. QED
  BY <1>1, <1>2 DEF Store!UnderWay

LEMMA JobCalls ==
    ASSUME NEW j \in Jobs, MethodAt(job[j].pc) # "none"
    PROVE  /\ <<MethodAt(job[j].pc), WorkerOf[j]>> \in CallsAbout(job[j].task)
           /\ Store!UnderWay(CallsAbout(job[j].task), MethodAt(job[j].pc))
<1> DEFINE k == <<MethodAt(job[j].pc), WorkerOf[j]>>
<1>1. k \in CallsAbout(job[j].task)
  BY DEF CallsAbout
<1>2. k[1] = MethodAt(job[j].pc)
  OBVIOUS
<1>3. Store!UnderWay(CallsAbout(job[j].task), MethodAt(job[j].pc))
  <2> HIDE DEF k
  <2>1. QED
    BY <1>1, <1>2 DEF Store!UnderWay
<1>4. QED
  BY <1>1, <1>3

-----------------------------------------------------------------------------
(* The operations of the adapters, each while its method is under way *)

\* createTask replaces the record (memory) or updates it in place (mongo).
LEMMA CreateTaskStep ==
    ASSUME TasksOK, NEW t \in Tasks, NEW status \in {"idle", "active"}, NEW n \in Nat,
           CreateTask(t, status, n), Store!UnderWay(CallsAbout(t), "createTask")
    PROVE  StoreStep(t)
<1>1. OnlyRecordOf(t)
  BY CreateTaskEffect DEF Status
<1>2. CASE Adapter = "memory"
  <2>1. tasks'[t] = Memory!CreateTask(tasks[t], status, n)
    BY <1>2 DEF CreateTask, TasksOK
  <2>2. Store!Creates(CallsAbout(t), tasks[t], tasks'[t])
    BY <2>1 DEF Memory!CreateTask, Memory!NoTask, Store!Creates, Store!Unlocked
  <2>3. QED
    BY <1>1, <2>2 DEF StoreStep, Store!Steps
<1>3. CASE Adapter # "memory"
  <2>1. tasks'[t] = Mongo!CreateTask(tasks[t], status, n)
    BY <1>3 DEF CreateTask, TasksOK
  <2>2. Store!Creates(CallsAbout(t), tasks[t], tasks'[t])
    BY <2>1 DEF Mongo!CreateTask, Store!Creates, Store!SameLock, TasksOK, TaskRecords
  <2>3. QED
    BY <1>1, <2>2 DEF StoreStep, Store!Steps
<1>4. QED
  BY <1>2, <1>3

\* A late update of a removed record changes nothing.
LEMMA UpdateTaskStep ==
    ASSUME TasksOK, NEW t \in Tasks, NEW status \in {"idle", "active", "failed"},
           NEW n \in Nat, NEW m \in Nat, UpdateTask(t, status, n, m),
           Store!UnderWay(CallsAbout(t), "updateTaskStatus")
    PROVE  StoreStep(t)
<1>1. /\ OnlyRecordOf(t) /\ KeepsLock(t) /\ (Exists(tasks'[t]) <=> Exists(tasks[t]))
      /\ tasks'[t].status \in {status, "absent"}
  BY UpdateTaskEffect DEF Status
<1>2. CASE Exists(tasks[t])
  BY <1>1, <1>2 DEF StoreStep, Store!Steps, Store!Updates, Store!SameLock,
                    Store!Exists, Exists, KeepsLock
<1>3. CASE ~Exists(tasks[t])
  BY <1>1, <1>3 DEF UpdateTask, StoreStep, TasksOK
<1>4. QED
  BY <1>2, <1>3

LEMMA UpdateTaskStatusStep ==
    ASSUME TasksOK, NEW t \in Tasks, NEW status \in {"idle", "active", "failed"},
           UpdateTaskStatus(t, status),
           Store!UnderWay(CallsAbout(t), "updateTaskStatus")
    PROVE  StoreStep(t)
<1>1. tasks[t].retryCount \in Nat /\ tasks[t].reEnqueues \in Nat
  BY DEF TasksOK, TaskRecords
<1>2. QED
  BY <1>1, UpdateTaskStep DEF UpdateTaskStatus

LEMMA ResetAfterCatchStep ==
    ASSUME TasksOK, NEW t \in Tasks, ResetAfterCatch(t),
           Store!UnderWay(CallsAbout(t), "updateTaskStatus")
    PROVE  StoreStep(t)
BY UpdateTaskStatusStep, NoRecordStep DEF ResetAfterCatch

LEMMA AcquireTaskLockStep ==
    ASSUME TasksOK, NEW t \in Tasks, NEW w \in Workers,
           CanAcquireTaskLock(t, w), AcquireTaskLock(t, w),
           <<"acquireTaskLock", w>> \in CallsAbout(t)
    PROVE  StoreStep(t)
<1>1. /\ OnlyRecordOf(t)
      /\ tasks[t].lockLive => tasks[t].lockedBy = w
      /\ Exists(tasks[t])
  BY AcquireTaskLockEffect
<1>2. tasks'[t] = [tasks[t] EXCEPT !.status = "active", !.lockedBy = w, !.lockLive = TRUE]
  BY DEF AcquireTaskLock, Memory!AcquireTaskLock, Mongo!AcquireTaskLock, TasksOK
<1>3. tasks[t].status # "completed"
  BY DEF CanAcquireTaskLock, Memory!CanAcquireTaskLock, Mongo!CanAcquireTaskLock
<1>4. tasks'[t].lockedBy = w /\ tasks'[t].lockLive = TRUE
  BY <1>2 DEF TasksOK, TaskRecords
<1>5. Store!Locks(CallsAbout(t), tasks[t], tasks'[t])
  BY <1>1, <1>2, <1>3, <1>4 DEF Store!Locks, Store!Exists, Exists
<1>6. QED
  BY <1>1, <1>5 DEF StoreStep, Store!Steps

LEMMA ReleaseTaskLockStep ==
    ASSUME TasksOK, NEW t \in Tasks, NEW w \in Workers, ReleaseTaskLock(t, w),
           <<"releaseTaskLock", w>> \in CallsAbout(t)
    PROVE  StoreStep(t)
<1>1. OnlyRecordOf(t)
  BY ReleaseTaskLockEffect
<1>2. \/ tasks'[t] = tasks[t]
      \/ /\ tasks[t].lockedBy = w
         /\ tasks'[t] = [tasks[t] EXCEPT !.lockedBy = Nobody, !.lockLive = FALSE]
  BY DEF ReleaseTaskLock, Memory!ReleaseTaskLock, Mongo!ReleaseTaskLock, TasksOK
<1>3. QED
  BY <1>1, <1>2 DEF StoreStep, Store!Steps, Store!Unlocks

\* What completeTask and failTask, one of the calls in c, make of the record before
\* their cleanup.
Outcome(c, r, s) ==
    /\ s \in TaskRecords
    /\ \/ Store!UnderWay(c, "completeTask") /\ s.status = "completed"
       \/ Store!UnderWay(c, "failTask") /\ s.status = "failed"
    /\ Store!SameLock(r, s)

LEMMA CleanupStep ==
    ASSUME NEW c, NEW r \in TaskRecords, Exists(r), NEW s, Outcome(c, r, s),
           NEW removal \in RemoveOptions
    PROVE  /\ Store!Steps(c, r, Memory!HandleTaskCleanup(s, removal))
           /\ Store!Steps(c, r, Mongo!HandleTaskCleanup(s, removal))
<1>1. CASE removal = "now"
  <2>1. Store!Removes(c, r, Store!NoTask)
    BY DEF Outcome, Store!Removes
  <2>2. QED
    BY <1>1, <2>1 DEF Memory!HandleTaskCleanup, Mongo!HandleTaskCleanup, Memory!NoTask,
                      Mongo!NoTask, Store!Steps, Store!NoTask
<1>2. CASE removal = "later"
  <2> DEFINE q == [s EXCEPT !.expiring = TRUE]
  <2>1. Store!SameLock(r, q) /\ q.status = s.status
    BY DEF Outcome, Store!SameLock, TaskRecords
  <2>2. Memory!HandleTaskCleanup(s, removal) = q /\ Mongo!HandleTaskCleanup(s, removal) = q
    BY <1>2 DEF Memory!HandleTaskCleanup, Mongo!HandleTaskCleanup
  <2> HIDE DEF q
  <2>3. Store!Updates(c, r, q)
    BY <2>1 DEF Outcome, Store!Updates, Store!Exists, Exists
  <2>4. QED
    BY <2>2, <2>3 DEF Store!Steps
<1>3. CASE removal \in {"unset", "keep"}
  <2>1. Store!Updates(c, r, s)
    BY DEF Outcome, Store!Updates, Store!Exists, Exists
  <2>2. QED
    BY <1>3, <2>1 DEF Memory!HandleTaskCleanup, Mongo!HandleTaskCleanup, Store!Steps
<1>4. QED
  BY <1>1, <1>2, <1>3 DEF RemoveOptions

LEMMA CompleteTaskStep ==
    ASSUME TasksOK, NEW t \in Tasks, ~CompleteTaskThrows(t), CompleteTask(t),
           Store!UnderWay(CallsAbout(t), "completeTask")
    PROVE  StoreStep(t)
<1> DEFINE removal == EffectiveRemoval(RemoveOnComplete[t], tasks[t])
           s == [tasks[t] EXCEPT !.status = "completed"]
<1>1. OnlyRecordOf(t)
  BY CompleteTaskEffect
<1>2. Exists(tasks[t]) /\ tasks[t] \in TaskRecords /\ removal \in RemoveOptions
  BY RemovalType DEF TasksOK, CompleteTaskThrows, Memory!CompleteTaskThrows,
     Mongo!CompleteTaskThrows, Memory!Exists, Mongo!Exists, Exists
<1>3. Outcome(CallsAbout(t), tasks[t], s)
  BY <1>2 DEF Outcome, Store!SameLock, TaskRecords, Status
<1>4. \/ tasks'[t] = Memory!HandleTaskCleanup(s, removal)
      \/ tasks'[t] = Mongo!HandleTaskCleanup(s, removal)
  BY DEF CompleteTask, Memory!CompleteTask, Mongo!CompleteTask, TasksOK
<1> HIDE DEF removal, s
<1>5. QED
  BY <1>1, <1>2, <1>3, <1>4, CleanupStep DEF StoreStep

LEMMA FailTaskStep ==
    ASSUME TasksOK, NEW t \in Tasks, FailTask(t),
           Store!UnderWay(CallsAbout(t), "failTask")
    PROVE  StoreStep(t)
<1> DEFINE removal == EffectiveRemoval(RemoveOnFail[t], tasks[t])
           failed == [tasks[t] EXCEPT !.status = "failed"]
           counted == [tasks[t] EXCEPT !.status = "failed", !.retryCount = @ + 1]
<1>1. OnlyRecordOf(t) /\ tasks[t] \in TaskRecords /\ removal \in RemoveOptions
  BY FailTaskEffect, RemovalType DEF TasksOK
<1>2. CASE Exists(tasks[t])
  <2>1. Outcome(CallsAbout(t), tasks[t], failed) /\ Outcome(CallsAbout(t), tasks[t], counted)
    BY <1>1, FailedRecord DEF Outcome, FailedFrom, Store!SameLock
  <2>2. \/ tasks'[t] = Memory!HandleTaskCleanup(failed, removal)
        \/ tasks'[t] = Mongo!HandleTaskCleanup(counted, removal)
    <3>1. CASE Adapter = "memory"
      BY <1>2, <3>1 DEF FailTask, Memory!FailTask, Memory!Exists, Exists, TasksOK
    <3>2. CASE Adapter # "memory"
      <4>1. Mongo!FailTask(tasks[t], removal) = Mongo!HandleTaskCleanup(counted, removal)
        BY <1>2 DEF Mongo!FailTask, Mongo!Exists, Exists
      <4>2. tasks'[t] = Mongo!FailTask(tasks[t], removal)
        BY <3>2 DEF FailTask, TasksOK
      <4>3. QED
        BY <4>1, <4>2
    <3>3. QED
      BY <3>1, <3>2
  <2> HIDE DEF removal, failed, counted
  <2>3. QED
    BY <1>1, <1>2, <2>1, <2>2, CleanupStep DEF StoreStep
<1>3. CASE ~Exists(tasks[t])
  <2>1. tasks'[t] = tasks[t]
    BY <1>3 DEF FailTask, Memory!FailTask, Mongo!FailTask, Memory!Exists, Mongo!Exists,
                Exists, TasksOK
  <2>2. QED
    BY <1>1, <2>1 DEF StoreStep
<1>4. QED
  BY <1>2, <1>3

-----------------------------------------------------------------------------
(* The steps of the system *)

LEMMA JobStoreStep ==
    ASSUME TypeOK, NEW j \in Jobs, JobStep(j)
    PROVE  StoreStep(job[j].task)
<1> DEFINE t == job[j].task
<1>1. job[j].pc # "none"
  BY JobStepInService
<1>2. t \in Tasks /\ TasksOK /\ JobsOK /\ WorkerOf[j] \in Workers
  BY <1>1, JobContext, ConsumerAssumption
<1>3. MethodAt(job[j].pc) # "none" =>
         /\ <<MethodAt(job[j].pc), WorkerOf[j]>> \in CallsAbout(t)
         /\ Store!UnderWay(CallsAbout(t), MethodAt(job[j].pc))
  BY JobCalls
<1> HIDE DEF t
<1>4. CASE UNCHANGED tasks
  BY <1>2, <1>4, NoRecordStep DEF t
<1>5. CASE Activate(j)
  BY <1>2, <1>3, <1>5, UpdateTaskStatusStep DEF Activate, At, MethodAt, t
<1>6. CASE FailDuplicate(j) \/ LockFailed(j) \/ Fail(j) \/ FailAgain(j)
  <2>1. FailTask(t) /\ MethodAt(job[j].pc) = "failTask"
    BY <1>6 DEF FailDuplicate, LockFailed, Fail, FailAgain, At, MethodAt, t
  <2>2. QED
    BY <1>2, <1>3, <2>1, FailTaskStep DEF t
<1>7. CASE Release(j)
  BY <1>2, <1>3, <1>7, ReleaseTaskLockStep DEF Release, At, MethodAt, t
<1>8. CASE GiveUpReEnqueue(j) \/ Reschedule(j)
  <2>1. /\ ReEnqueueCount(j) \in Nat /\ ReEnqueueCount(j) - 1 \in Nat
        /\ tasks[t].retryCount \in Nat /\ tasks[t].reEnqueues \in Nat
    BY <1>2, ReEnqueueCountType DEF TasksOK, TaskRecords
  <2>2. QED
    BY <1>2, <1>3, <1>8, <2>1, UpdateTaskStep
       DEF GiveUpReEnqueue, Reschedule, At, MethodAt, t
<1>9. CASE ReCreate(j)
  BY <1>2, <1>3, <1>9, ReEnqueueCountType, CreateTaskStep DEF ReCreate, At, MethodAt, t
<1>10. CASE ReReset(j)
  BY <1>2, <1>3, <1>10, ResetAfterCatchStep DEF ReReset, At, MethodAt, t
<1>11. CASE AcquireLock(j)
  BY <1>2, <1>3, <1>11, AcquireTaskLockStep DEF AcquireLock, At, MethodAt, t
<1>12. CASE Complete(j) /\ ~CompleteTaskThrows(t)
  BY <1>2, <1>3, <1>12, CompleteTaskStep DEF Complete, At, MethodAt, t
<1>13. QED
  BY <1>4, <1>5, <1>6, <1>7, <1>8, <1>9, <1>10, <1>11, <1>12
     DEF JobStep, Lookup, CheckUniqueness, SaveKey, RateLimit, Unkey, Refetch,
         UnkeyAgain, ReAddCheckUniqueness, ReSend, RetryLock, RunHandler, Complete,
         UnkeyFailed, storageVars, t

LEMMA ProducerStoreStep ==
    ASSUME TypeOK, ProducerNext
    PROVE  UNCHANGED tasks \/ \E t \in Tasks : StoreStep(t)
<1>1. TasksOK /\ 0 \in Nat
  BY DEF TypeOK, StorageTypeOK, TasksOK
<1>2. ASSUME NEW t \in Tasks, AddTask(t) \/ AddTaskAgain(t) \/ AddSteps(t)
      PROVE  UNCHANGED tasks \/ StoreStep(t)
  <2>1. CASE AddCreate(t)
    BY <1>1, <2>1, AddCalls, CreateTaskStep DEF AddCreate, AddStep, MethodAt
  <2>2. CASE AddReset(t)
    BY <1>1, <2>2, AddCalls, ResetAfterCatchStep DEF AddReset, AddStep, MethodAt
  <2>3. QED
    BY <1>2, <2>1, <2>2 DEF AddTask, AddTaskAgain, AddSteps, AddCheckUniqueness, AddSend,
                            storageVars
<1>3. ASSUME NEW p \in Polls, PollSteps(p)
      PROVE  UNCHANGED tasks \/ \E t \in Tasks : StoreStep(t)
  <2>1. ASSUME NEW t \in Tasks, PollMark(p, t) \/ PollRevert(p, t)
        PROVE  StoreStep(t)
    BY <1>1, <2>1, PollCalls, UpdateTaskStatusStep
       DEF PollMark, PollRevert, PollStep, MethodAt
  <2>2. ASSUME NEW t \in Tasks, PollReset(p, t)
        PROVE  StoreStep(t)
    BY <1>1, <2>2, PollCalls, ResetAfterCatchStep DEF PollReset, PollStep, MethodAt
  <2>3. QED
    BY <1>3, <2>1, <2>2 DEF PollSteps, PollFetch, PollSend, storageVars
<1>4. QED
  BY <1>2, <1>3 DEF ProducerNext

LEMMA CrashStoreStep ==
    ASSUME TypeOK, NEW w \in Workers, Crash(w)
    PROVE  Store!WorkerDeparts
<1>1. tasks' = [t \in Tasks |-> IF tasks[t].lockedBy = w
                                THEN [tasks[t] EXCEPT !.lockedBy = Departed]
                                ELSE tasks[t]]
  BY DEF Crash
<1>2. ASSUME NEW t \in Tasks
      PROVE  tasks'[t] = tasks[t] \/ Store!Departs(tasks[t], tasks'[t])
  BY <1>1 DEF Store!Departs
<1>3. QED
  BY <1>2 DEF Store!WorkerDeparts

LEMMA TimeStoreStep ==
    ASSUME TypeOK, NEW t \in Tasks, LockExpires(t) \/ RecordExpires(t)
    PROVE  StoreStep(t)
<1>1. TasksOK
  BY DEF TypeOK, StorageTypeOK, TasksOK
<1>2. CASE LockExpires(t)
  <2>1. [tasks[t] EXCEPT !.lockLive = FALSE] \in TaskRecords
    BY <1>1 DEF TasksOK, TaskRecords
  <2>2. /\ OnlyRecordOf(t) /\ tasks[t].lockLive
        /\ tasks'[t] = [tasks[t] EXCEPT !.lockLive = FALSE]
    BY <1>1, <1>2, <2>1, RecordUpdate DEF LockExpires
  <2>3. QED
    BY <2>2 DEF StoreStep, Store!Steps, Store!Lapses
<1>3. CASE RecordExpires(t)
  <2>1. NoTask \in TaskRecords
    BY DEF NoTask, TaskRecords
  <2>2. OnlyRecordOf(t) /\ tasks'[t] = NoTask /\ tasks[t].expiring
    BY <1>1, <1>3, <2>1, RecordUpdate DEF RecordExpires
  <2>3. QED
    BY <2>2 DEF StoreStep, Store!Steps, Store!Removes, Store!NoTask, NoTask
<1>4. QED
  BY <1>2, <1>3

LEMMA NextStoreStep ==
    ASSUME TypeOK, Next
    PROVE  Store!StoreNext
<1>1. TasksOK
  BY DEF TypeOK, StorageTypeOK, TasksOK
<1>2. CASE UNCHANGED tasks
  BY <1>2, UnchangedIsCall
<1>3. CASE \E t \in Tasks : StoreStep(t)
  BY <1>1, <1>3, StoreStepIsServed
<1>4. CASE ConsumerNext
  <2>1. CASE \E j \in Jobs : JobStep(j)
    <3>1. PICK j \in Jobs : JobStep(j)
      BY <2>1
    <3>2. job[j].task \in Tasks /\ StoreStep(job[j].task)
      BY <3>1, JobStepInService, JobContext, JobStoreStep
    <3>3. QED
      BY <1>3, <3>2
  <2>2. QED
    BY <1>2, <1>4, <2>1 DEF ConsumerNext, Deliver, DeliverWithoutTaskId, storageVars
<1>5. CASE EnvironmentNext
  <2>1. CASE \E w \in Workers : Crash(w)
    BY <2>1, CrashStoreStep DEF Store!StoreNext
  <2>2. CASE \E t \in Tasks : PushAgain(t)
    BY <1>2, <2>2 DEF PushAgain, storageVars
  <2>3. QED
    BY <1>3, <1>5, <2>1, <2>2, TimeStoreStep DEF EnvironmentNext
<1>6. QED
  BY <1>2, <1>3, <1>4, <1>5, ProducerStoreStep DEF Next

(***************************************************************************)
(* Through the in-memory and the MongoDB adapter, whatever the producer, the     *)
(* consumer, timers and crashes do and however they interleave, a record changes  *)
(* as TaskStore promises, by a call of a method that is under way and allowed to     *)
(* do so: only createTask makes one, the lock passes only to a worker that may      *)
(* have it, and only its holder's releaseTaskLock or a createTask clears it.       *)
(***************************************************************************)
THEOREM PathImplementsTaskStore == Spec => ImplementsTaskStore
<1>1. Init => Store!StoreInit
  <2>1. ASSUME Init, NEW t \in Tasks PROVE CallsAbout(t) = {}
    <3>1. /\ MethodAt(added[t]) = "none"
          /\ \A p \in Polls : MethodAt(poll[p][t]) = "none"
          /\ {j \in Jobs : job[j].task = t} = {}
      BY <2>1, ConsumerAssumption DEF Init, ProducerInit, ConsumerInit, NoJob, MethodAt
    <3>2. QED
      BY <3>1 DEF CallsAbout
  <2>2. QED
    BY <2>1 DEF Init, StorageInit, Store!StoreInit, NoTask, Store!NoTask
<1>2. TypeInv /\ [Next]_vars => [Store!StoreNext]_(Store!storeVars)
  <2>1. ASSUME TypeInv, Next PROVE Store!StoreNext
    BY <2>1, NextStoreStep DEF TypeInv
  <2>2. ASSUME UNCHANGED vars PROVE Store!StoreNext
    BY <2>2, UnchangedIsCall DEF vars, storageVars
  <2>3. QED
    BY <2>1, <2>2
<1>3. QED
  BY <1>1, <1>2, TypeInvInit, TypeInvStep, PTL DEF Spec, ImplementsTaskStore, Store!StoreSpec
=============================================================================
