---------------------------- MODULE JobStepProofs ----------------------------
(***************************************************************************)
(* What a storage operation does to a record and what a step of a job does,   *)
(* for every value of the constants.                                         *)
(***************************************************************************)
EXTENDS CloudTaskMQ, TLAPS

-----------------------------------------------------------------------------
(* The storage operations *)

(***************************************************************************)
(* What each storage operation may do to the record of the task it is called   *)
(* for, whichever adapter serves it.                                         *)
(***************************************************************************)
TasksOK == tasks \in [Tasks -> TaskRecords]

\* Only the record of t changes, and it stays a record.
OnlyRecordOf(t) ==
    /\ tasks' \in [Tasks -> TaskRecords]
    /\ \A u \in Tasks : u # t => tasks'[u] = tasks[u]

\* The lock fields of t are left alone, unless the record goes.
KeepsLock(t) ==
    Exists(tasks'[t]) => /\ tasks'[t].lockedBy = tasks[t].lockedBy
                         /\ tasks'[t].lockLive = tasks[t].lockLive

\* An update of one record is enough to show OnlyRecordOf.
LEMMA RecordUpdate ==
    ASSUME TasksOK, NEW t \in Tasks, NEW r \in TaskRecords,
           tasks' = [tasks EXCEPT ![t] = r]
    PROVE  OnlyRecordOf(t) /\ tasks'[t] = r
BY DEF TasksOK, OnlyRecordOf

LEMMA CreateTaskEffect ==
    ASSUME TasksOK, NEW t \in Tasks, NEW status \in Status, NEW n \in Nat,
           CreateTask(t, status, n)
    PROVE  OnlyRecordOf(t) /\ tasks'[t].status = status
<1> USE DEF TasksOK
<1>1. CASE Adapter = "memory"
  <2> DEFINE r == Memory!CreateTask(tasks[t], status, n)
  <2>1. r \in TaskRecords /\ r.status = status
    BY DEF Memory!CreateTask, Memory!NoTask, TaskRecords, Status
  <2>2. tasks' = [tasks EXCEPT ![t] = r]
    BY <1>1 DEF CreateTask
  <2> HIDE DEF r
  <2>3. QED
    BY <2>1, <2>2, RecordUpdate
<1>2. CASE Adapter # "memory"
  <2> DEFINE r == Mongo!CreateTask(tasks[t], status, n)
  <2>1. r \in TaskRecords /\ r.status = status
    BY DEF Mongo!CreateTask, TaskRecords, Status
  <2>2. tasks' = [tasks EXCEPT ![t] = r]
    BY <1>2 DEF CreateTask
  <2> HIDE DEF r
  <2>3. QED
    BY <2>1, <2>2, RecordUpdate
<1>3. QED
  BY <1>1, <1>2

LEMMA UpdateTaskEffect ==
    ASSUME TasksOK, NEW t \in Tasks, NEW status \in Status,
           NEW n \in Nat, NEW m \in Nat, UpdateTask(t, status, n, m)
    PROVE  /\ OnlyRecordOf(t)
           /\ KeepsLock(t)
           /\ tasks'[t].status \in {status, "absent"}
           /\ Exists(tasks'[t]) <=> Exists(tasks[t])
BY DEF TasksOK, UpdateTask, OnlyRecordOf, KeepsLock, TaskRecords, Status, Exists

LEMMA UpdateTaskStatusEffect ==
    ASSUME TasksOK, NEW t \in Tasks, NEW status \in Status,
           UpdateTaskStatus(t, status)
    PROVE  /\ OnlyRecordOf(t)
           /\ KeepsLock(t)
           /\ tasks'[t].status \in {status, "absent"}
           /\ Exists(tasks'[t]) <=> Exists(tasks[t])
<1>1. tasks[t].retryCount \in Nat /\ tasks[t].reEnqueues \in Nat
  BY DEF TasksOK, TaskRecords
<1>2. QED
  BY <1>1, UpdateTaskEffect DEF UpdateTaskStatus

LEMMA ReleaseTaskLockEffect ==
    ASSUME TasksOK, NEW t \in Tasks, NEW w \in Workers, ReleaseTaskLock(t, w)
    PROVE  OnlyRecordOf(t) /\ tasks'[t].status = tasks[t].status
BY DEF TasksOK, ReleaseTaskLock, OnlyRecordOf, TaskRecords,
       Memory!ReleaseTaskLock, Mongo!ReleaseTaskLock

LEMMA AcquireTaskLockEffect ==
    ASSUME TasksOK, NEW t \in Tasks, NEW w \in Workers,
           CanAcquireTaskLock(t, w), AcquireTaskLock(t, w)
    PROVE  /\ OnlyRecordOf(t)
           /\ tasks'[t].status = "active"
           /\ tasks'[t].lockedBy = w
           /\ tasks'[t].lockLive
           /\ Exists(tasks[t])
           /\ tasks[t].lockLive => tasks[t].lockedBy = w
<1> DEFINE r == [tasks[t] EXCEPT !.status = "active", !.lockedBy = w, !.lockLive = TRUE]
<1>1. /\ r \in TaskRecords
      /\ r.status = "active" /\ r.lockedBy = w /\ r.lockLive
  BY DEF TasksOK, TaskRecords, Status
<1>2. tasks' = [tasks EXCEPT ![t] = r]
  BY DEF AcquireTaskLock, Memory!AcquireTaskLock, Mongo!AcquireTaskLock
<1>3. Exists(tasks[t]) /\ (tasks[t].lockLive => tasks[t].lockedBy = w)
  BY DEF CanAcquireTaskLock, Memory!CanAcquireTaskLock, Mongo!CanAcquireTaskLock,
         Exists, Memory!Exists, Mongo!Exists
<1> HIDE DEF r
<1>4. QED
  BY <1>1, <1>2, <1>3, RecordUpdate

\* handleTaskCleanup, the same in both adapters, keeps the record or deletes it.
CleanedUp(r, c) ==
    /\ c \in TaskRecords
    /\ c.status \in {r.status, "absent"}
    /\ Exists(c) => c.lockedBy = r.lockedBy /\ c.lockLive = r.lockLive

LEMMA CleanupEffect ==
    ASSUME NEW r \in TaskRecords, NEW removal \in RemoveOptions
    PROVE  /\ CleanedUp(r, Memory!HandleTaskCleanup(r, removal))
           /\ CleanedUp(r, Mongo!HandleTaskCleanup(r, removal))
<1>1. CASE removal = "now"
  BY <1>1 DEF CleanedUp, Memory!HandleTaskCleanup, Mongo!HandleTaskCleanup,
              Memory!NoTask, Mongo!NoTask, TaskRecords, Status, Exists
<1>2. CASE removal = "later"
  BY <1>2 DEF CleanedUp, Memory!HandleTaskCleanup, Mongo!HandleTaskCleanup,
              TaskRecords, Status, Exists
<1>3. CASE removal \in {"unset", "keep"}
  BY <1>3 DEF CleanedUp, Memory!HandleTaskCleanup, Mongo!HandleTaskCleanup,
              TaskRecords, Status, Exists
<1>4. QED
  BY <1>1, <1>2, <1>3 DEF RemoveOptions

LEMMA RemovalType ==
    ASSUME TasksOK, NEW t \in Tasks
    PROVE  /\ EffectiveRemoval(RemoveOnComplete[t], tasks[t]) \in RemoveOptions
           /\ EffectiveRemoval(RemoveOnFail[t], tasks[t]) \in RemoveOptions
BY StorageAssumption DEF EffectiveRemoval, RemoveOptions

LEMMA CompleteTaskEffect ==
    ASSUME TasksOK, NEW t \in Tasks, CompleteTask(t)
    PROVE  /\ OnlyRecordOf(t)
           /\ KeepsLock(t)
           /\ tasks'[t].status \in {"completed", "absent"}
<1> DEFINE removal == EffectiveRemoval(RemoveOnComplete[t], tasks[t])
           old == [tasks[t] EXCEPT !.status = "completed"]
<1>1. /\ old \in TaskRecords /\ old.status = "completed"
      /\ old.lockedBy = tasks[t].lockedBy /\ old.lockLive = tasks[t].lockLive
  BY DEF TasksOK, TaskRecords, Status
<1>2. \/ tasks' = [tasks EXCEPT ![t] = Memory!HandleTaskCleanup(old, removal)]
      \/ tasks' = [tasks EXCEPT ![t] = Mongo!HandleTaskCleanup(old, removal)]
  BY DEF CompleteTask, Memory!CompleteTask, Mongo!CompleteTask
<1>3. removal \in RemoveOptions
  BY RemovalType
<1> HIDE DEF removal, old
<1>4. \E c \in TaskRecords : CleanedUp(old, c) /\ tasks' = [tasks EXCEPT ![t] = c]
  BY <1>1, <1>2, <1>3, CleanupEffect DEF CleanedUp
<1>5. QED
  BY <1>1, <1>4, RecordUpdate DEF CleanedUp, KeepsLock

\* The record failTask writes before the cleanup, with or without $inc retryCount.
FailedFrom(r, old) ==
    /\ old \in TaskRecords /\ old.status = "failed"
    /\ old.lockedBy = r.lockedBy /\ old.lockLive = r.lockLive

LEMMA FailedRecord ==
    ASSUME NEW r \in TaskRecords
    PROVE  /\ FailedFrom(r, [r EXCEPT !.status = "failed"])
           /\ FailedFrom(r, [r EXCEPT !.status = "failed", !.retryCount = @ + 1])
<1>1. r.retryCount + 1 \in Nat
  BY DEF TaskRecords
<1>2. FailedFrom(r, [r EXCEPT !.status = "failed"])
  BY DEF FailedFrom, TaskRecords, Status
<1>3. FailedFrom(r, [r EXCEPT !.status = "failed", !.retryCount = @ + 1])
  <2> DEFINE n == r.retryCount + 1
  <2> HIDE DEF n
  <2>1. FailedFrom(r, [r EXCEPT !.status = "failed", !.retryCount = n])
    BY <1>1 DEF FailedFrom, TaskRecords, Status, n
  <2>2. QED
    BY <2>1 DEF n
<1>4. QED
  BY <1>2, <1>3

LEMMA FailTaskEffect ==
    ASSUME TasksOK, NEW t \in Tasks, FailTask(t)
    PROVE  /\ OnlyRecordOf(t)
           /\ KeepsLock(t)
           /\ tasks'[t].status \in {"failed", "absent"}
<1> DEFINE removal == EffectiveRemoval(RemoveOnFail[t], tasks[t])
           failed == [tasks[t] EXCEPT !.status = "failed"]
           counted == [tasks[t] EXCEPT !.status = "failed", !.retryCount = @ + 1]
<1>1. CASE Exists(tasks[t])
  <2>0. tasks[t] \in TaskRecords
    BY DEF TasksOK
  <2>1. \A old \in {failed, counted} : FailedFrom(tasks[t], old)
    BY <2>0, FailedRecord
  <2>2. \/ tasks' = [tasks EXCEPT ![t] = Memory!HandleTaskCleanup(failed, removal)]
        \/ tasks' = [tasks EXCEPT ![t] = Mongo!HandleTaskCleanup(counted, removal)]
    <3>1. CASE Adapter = "memory"
      BY <1>1, <3>1 DEF FailTask, Memory!FailTask, Memory!Exists, Exists
    <3>2. CASE Adapter # "memory"
      <4>1. Mongo!FailTask(tasks[t], removal) = Mongo!HandleTaskCleanup(counted, removal)
        BY <1>1 DEF Mongo!FailTask, Mongo!Exists, Exists
      <4>2. QED
        BY <3>2, <4>1 DEF FailTask
    <3>3. QED
      BY <3>1, <3>2
  <2>3. removal \in RemoveOptions
    BY RemovalType
  <2> HIDE DEF removal, failed, counted
  <2>4. \E old \in {failed, counted}, c \in TaskRecords :
           CleanedUp(old, c) /\ tasks' = [tasks EXCEPT ![t] = c]
    BY <2>1, <2>2, <2>3, CleanupEffect DEF CleanedUp, FailedFrom
  <2>5. QED
    BY <2>1, <2>4, RecordUpdate DEF CleanedUp, KeepsLock, FailedFrom
<1>2. CASE ~Exists(tasks[t])
  <2>1. tasks' = [tasks EXCEPT ![t] = tasks[t]]
    BY <1>2 DEF FailTask, Memory!FailTask, Mongo!FailTask, Memory!Exists, Mongo!Exists,
                Exists
  <2>2. QED
    BY <1>2, <2>1, RecordUpdate DEF TasksOK, KeepsLock, Exists
<1>3. QED
  BY <1>1, <1>2

LEMMA ResetAfterCatchEffect ==
    ASSUME TasksOK, NEW t \in Tasks, ResetAfterCatch(t)
    PROVE  /\ OnlyRecordOf(t)
           /\ KeepsLock(t)
           /\ Exists(tasks'[t]) <=> Exists(tasks[t])
           /\ t \in CustomIds => tasks'[t].status \in {"idle", "absent"}
<1>1. CASE t \in CustomIds
  BY <1>1, UpdateTaskStatusEffect DEF ResetAfterCatch, Status
<1>2. CASE t \notin CustomIds
  BY <1>2 DEF ResetAfterCatch, TasksOK, OnlyRecordOf, KeepsLock
<1>3. QED
  BY <1>1, <1>2

-----------------------------------------------------------------------------
(* The jobs *)

USE DEF TasksOK

(***************************************************************************)
(* What a step may do to the jobs.                                           *)
(***************************************************************************)
JobsOK ==
    /\ job \in [Jobs -> JobRecords]
    /\ \A j \in Jobs : job[j].pc = "none" <=> job[j].task = NoTaskId

OnlyJob(j) == JobsOK' /\ \A i \in Jobs : i # j => job'[i] = job[i]

\* The job goes on with its request, or ends.
MovesOn(j, pc) == OnlyJob(j) /\ job'[j].task = job[j].task /\ job'[j].pc = pc
Ends(j) == OnlyJob(j) /\ job'[j] = NoJob

\* No HTTP task is lost.
CloudGrows ==
    /\ cloud' \in [Tasks -> Nat]
    /\ \A t \in Tasks : cloud'[t] >= cloud[t]

LEMMA TaskOfJob ==
    ASSUME JobsOK, NEW j \in Jobs, job[j].pc # "none"
    PROVE  job[j].task \in Tasks
BY DEF JobsOK, JobRecords

LEMMA GotoEffect ==
    ASSUME JobsOK, NEW j \in Jobs, job[j].pc # "none",
           NEW pc \in JobStates \ {"none"}, Goto(j, pc)
    PROVE  MovesOn(j, pc)
BY DEF JobsOK, JobRecords, Goto, MovesOn, OnlyJob

LEMMA NoJobType == NoJob \in JobRecords /\ NoJob.pc = "none" /\ NoJob.task = NoTaskId
BY DEF NoJob, JobRecords, JobStates, Missing

LEMMA EndEffect ==
    ASSUME JobsOK, NEW j \in Jobs, job' = [job EXCEPT ![j] = NoJob]
    PROVE  Ends(j)
BY NoJobType DEF JobsOK, Ends, OnlyJob

LEMMA EnqueueEffect ==
    ASSUME CloudTypeOK, NEW t \in Tasks, Enqueue(t)
    PROVE  CloudGrows /\ cloud'[t] > 0
BY DEF CloudTypeOK, Enqueue, CloudGrows

LEMMA AckEffect ==
    ASSUME JobsOK, CloudTypeOK, NEW j \in Jobs, Ack(j)
    PROVE  Ends(j) /\ CloudGrows
<1>1. Ends(j)
  BY EndEffect DEF Ack
<1>2. CloudGrows
  BY DEF Ack, CloudTypeOK, CloudGrows
<1>3. QED
  BY <1>1, <1>2

LEMMA NackEffect ==
    ASSUME JobsOK, CloudTypeOK, NEW j \in Jobs, job[j].pc # "none", Nack(j)
    PROVE  /\ Ends(j) /\ CloudGrows
           /\ ControllerOf[job[j].task] = "interceptor" => cloud'[job[j].task] > 0
<1>1. job[j].task \in Tasks
  BY TaskOfJob
<1>2. Ends(j)
  BY EndEffect DEF Nack
<1>3. CASE ControllerOf[job[j].task] = "interceptor"
  BY <1>1, <1>2, <1>3, EnqueueEffect DEF Nack
<1>4. CASE ControllerOf[job[j].task] # "interceptor"
  BY <1>2, <1>4 DEF Nack, CloudTypeOK, CloudGrows
<1>5. QED
  BY <1>3, <1>4

LEMMA RethrowEffect ==
    ASSUME JobsOK, CloudTypeOK, NEW j \in Jobs, job[j].pc # "none", Rethrow(j)
    PROVE  Ends(j) /\ CloudGrows
<1>1. job[j].task \in Tasks
  BY TaskOfJob
<1>2. CASE job[j].threw = "httpError"
  BY <1>1, <1>2, EndEffect, EnqueueEffect DEF Rethrow
<1>3. CASE job[j].threw # "httpError"
  BY <1>3, NackEffect DEF Rethrow
<1>4. QED
  BY <1>2, <1>3

\* The handler throws.
LEMMA ThrowEffect ==
    ASSUME JobsOK, NEW j \in Jobs, job[j].pc # "none", NEW error \in {"error", "httpError"},
           job' = [job EXCEPT ![j].pc = "fail", ![j].threw = error]
    PROVE  MovesOn(j, "fail")
<1> DEFINE request == [job[j] EXCEPT !.pc = "fail", !.threw = error]
<1>1. job[j].task \in Tasks /\ job[j] \in JobRecords
  BY TaskOfJob DEF JobsOK
<1>2. request \in JobRecords /\ request.pc = "fail" /\ request.task = job[j].task
  BY <1>1 DEF JobRecords, JobStates
<1>3. job' = [job EXCEPT ![j] = request]
  OBVIOUS
<1> HIDE DEF request
<1>4. job' \in [Jobs -> JobRecords] /\ job'[j] = request
  BY <1>2, <1>3 DEF JobsOK
<1>5. \A i \in Jobs : i # j => job'[i] = job[i]
  BY <1>3 DEF JobsOK
<1>6. job[j].task # NoTaskId
  BY <1>1, ConsumerAssumption
<1>7. JobsOK'
  BY <1>2, <1>4, <1>5, <1>6 DEF JobsOK
<1>8. QED
  BY <1>2, <1>4, <1>5, <1>7 DEF MovesOn, OnlyJob

LEMMA FaultEffect ==
    ASSUME CloudTypeOK, NEW kind, Fault(kind)
    PROVE  faults' \in 0..MaxFaults
BY CloudAssumption DEF Fault, CloudTypeOK

LEMMA SendEffect ==
    ASSUME CloudTypeOK, NEW t \in Tasks, NEW outcome, SendTaskToGcp(t, outcome)
    PROVE  /\ CloudGrows
           /\ faults' \in 0..MaxFaults
           /\ outcome = "created" => cloud'[t] > 0
<1>1. CASE outcome = "created" /\ Enqueue(t) /\ UNCHANGED faults
  BY <1>1, EnqueueEffect DEF CloudTypeOK
<1>2. CASE outcome = "caught" /\ Fault("reject") /\ UNCHANGED cloud
  BY <1>2, FaultEffect DEF CloudTypeOK, CloudGrows
<1>3. CASE outcome = "caught" /\ Fault("ambiguous") /\ Enqueue(t)
  BY <1>3, FaultEffect, EnqueueEffect DEF CloudTypeOK, CloudGrows
<1>4. CASE outcome = "thrown" /\ Fault("credentials") /\ UNCHANGED cloud
  BY <1>4, FaultEffect DEF CloudTypeOK, CloudGrows
<1>5. QED
  BY <1>1, <1>2, <1>3, <1>4 DEF SendTaskToGcp

LEMMA NoRecordChange ==
    ASSUME TasksOK, NEW t \in Tasks, UNCHANGED tasks
    PROVE  OnlyRecordOf(t)
BY DEF TasksOK, OnlyRecordOf

LEMMA KeyType ==
    ASSUME NEW t \in Tasks, Unique(t)
    PROVE  UniquenessKey[t] \in Keys
BY StorageAssumption DEF Unique

-----------------------------------------------------------------------------
(***************************************************************************)
(* Every step of a job, in one statement: what stays well-formed, and that a   *)
(* job that ends leaves its task in the hands of Cloud Tasks or not ACTIVE.    *)
(***************************************************************************)

\* processTask saves and looks up uniqueness keys only for a task that has one.
KeyedAt ==
    \A j \in Jobs : job[j].pc \in {"unique", "save"} => Unique(job[j].task)

JobFrame(j) ==
    /\ OnlyRecordOf(job[j].task)
    /\ keys' \subseteq Keys
    /\ OnlyJob(j)
    /\ job'[j].task \in {job[j].task, NoTaskId}
    /\ job'[j].pc \in {"unique", "save"} => Unique(job[j].task)
    /\ CloudGrows
    /\ faults' \in 0..MaxFaults
    /\ failures' \in [Tasks -> Nat]

HandedOn(j) ==
    LET t == job[j].task
    IN  \/ job'[j].task = t
        \/ cloud'[t] > 0
        \/ tasks'[t].status # "active"
        \/ Unique(t)
        \/ t \notin CustomIds

JobEffect(j) == JobFrame(j) /\ (ControllerOf[job[j].task] = "interceptor" => HandedOn(j))

LEMMA MovesOnEffect ==
    ASSUME TypeOK, NEW j \in Jobs, NEW pc \in JobStates, MovesOn(j, pc),
           OnlyRecordOf(job[j].task), keys' \subseteq Keys,
           CloudGrows, faults' \in 0..MaxFaults, failures' \in [Tasks -> Nat],
           pc \in {"unique", "save"} => Unique(job[j].task)
    PROVE  JobEffect(j)
BY DEF MovesOn, JobEffect, JobFrame, HandedOn

LEMMA EndsEffect ==
    ASSUME TypeOK, NEW j \in Jobs, Ends(j),
           OnlyRecordOf(job[j].task), keys' \subseteq Keys,
           CloudGrows, faults' \in 0..MaxFaults, failures' \in [Tasks -> Nat],
           ControllerOf[job[j].task] = "interceptor" => HandedOn(j)
    PROVE  JobEffect(j)
BY NoJobType DEF Ends, JobEffect, JobFrame

\* From the push to the rate limiter.
LEMMA ArrivalEffect ==
    ASSUME TypeOK, KeyedAt, NEW j \in Jobs,
           \/ Lookup(j) \/ Activate(j) \/ CheckUniqueness(j)
           \/ SaveKey(j) \/ FailDuplicate(j)
    PROVE  JobEffect(j)
<1> DEFINE t == job[j].task
<1>1. job[j].pc # "none"
  BY DEF Lookup, Activate, CheckUniqueness, SaveKey, FailDuplicate, At
<1>2. /\ t \in Tasks /\ TasksOK /\ JobsOK /\ CloudTypeOK /\ keys \subseteq Keys
      /\ failures \in [Tasks -> Nat] /\ faults \in 0..MaxFaults
  BY <1>1, TaskOfJob DEF TypeOK, StorageTypeOK, ConsumerTypeOK, CloudTypeOK, JobsOK
<1>3. UNCHANGED cloud => CloudGrows
  BY <1>2 DEF CloudTypeOK, CloudGrows
<1>4. {"activate", "unique", "save", "duplicate", "limit", "lock"} \subseteq JobStates
  BY DEF JobStates
<1>5. AfterUniqueness(t) \in {"limit", "lock"}
  BY DEF AfterUniqueness
<1>6. CASE Lookup(j)
  <2>1. OnlyRecordOf(t)
    BY <1>2, <1>6, NoRecordChange DEF Lookup, storageVars
  <2>2. CASE Exists(tasks[t])
    BY <1>1, <1>2, <1>3, <1>4, <1>6, <2>1, <2>2, GotoEffect, MovesOnEffect
       DEF Lookup, storageVars
  <2>3. CASE ~Exists(tasks[t])
    <3>1. Ends(j) /\ CloudGrows
      BY <1>2, <1>6, <2>3, AckEffect DEF Lookup
    <3>2. HandedOn(j)
      BY <1>6, <2>3 DEF Lookup, storageVars, HandedOn, Exists
    <3>3. QED
      BY <1>2, <1>6, <2>1, <3>1, <3>2, EndsEffect DEF Lookup, storageVars
  <2>4. QED
    BY <2>2, <2>3
<1>7. CASE Activate(j)
  <2>1. OnlyRecordOf(t)
    BY <1>2, <1>7, UpdateTaskStatusEffect DEF Activate, Status
  <2> DEFINE pc == IF Unique(t) THEN "unique" ELSE AfterUniqueness(t)
             read == IF Exists(tasks[t]) THEN tasks[t].retryCount ELSE Missing
  <2>2. pc \in JobStates \ {"none", "save"} /\ (pc = "unique" => Unique(t))
    BY <1>4, <1>5
  <2>3. read \in Nat \cup {Missing}
    BY <1>2 DEF TasksOK, TaskRecords, Missing
  <2>4. job' = [job EXCEPT ![j].pc = pc, ![j].read = read]
    BY <1>7 DEF Activate
  <2> HIDE DEF pc, read
  <2>5. MovesOn(j, pc)
    BY <1>1, <1>2, <2>2, <2>3, <2>4 DEF MovesOn, OnlyJob, JobsOK, JobRecords
  <2>6. QED
    BY <1>2, <1>3, <1>7, <2>1, <2>2, <2>5, MovesOnEffect DEF Activate, cloudVars
<1>8. CASE CheckUniqueness(j)
  <2>1. OnlyRecordOf(t)
    BY <1>2, <1>8, NoRecordChange DEF CheckUniqueness, storageVars
  <2>2. Unique(t)
    BY <1>8 DEF KeyedAt, CheckUniqueness, At
  <2>3. CASE KeyIsSet(t)
    <3>1. Ends(j) /\ CloudGrows
      BY <1>2, <1>8, <2>3, AckEffect DEF CheckUniqueness
    <3>2. QED
      BY <1>2, <1>8, <2>1, <2>2, <3>1, EndsEffect
         DEF CheckUniqueness, storageVars, HandedOn
  <2>4. CASE ~KeyIsSet(t)
    BY <1>1, <1>2, <1>3, <1>4, <1>8, <2>1, <2>2, <2>4, GotoEffect, MovesOnEffect
       DEF CheckUniqueness, storageVars
  <2>5. QED
    BY <2>3, <2>4
<1>9. CASE SaveKey(j)
  <2>1. OnlyRecordOf(t)
    BY <1>2, <1>9, NoRecordChange DEF SaveKey
  <2>2. UniquenessKey[t] \in Keys
    BY <1>2, <1>9, KeyType DEF KeyedAt, SaveKey, At
  <2>3. \E pc \in {"duplicate", "limit", "lock"} : Goto(j, pc)
    BY <1>5, <1>9 DEF SaveKey
  <2>4. keys' \subseteq Keys
    BY <1>2, <1>9, <2>2 DEF SaveKey, SaveUniquenessKey
  <2>5. QED
    BY <1>1, <1>2, <1>3, <1>4, <1>9, <2>1, <2>3, <2>4, GotoEffect, MovesOnEffect
       DEF SaveKey, cloudVars
<1>10. CASE FailDuplicate(j)
  <2>1. OnlyRecordOf(t) /\ tasks'[t].status # "active"
    BY <1>2, <1>10, FailTaskEffect DEF FailDuplicate
  <2>2. Ends(j) /\ CloudGrows
    BY <1>2, <1>10, AckEffect DEF FailDuplicate
  <2>3. QED
    BY <1>2, <1>10, <2>1, <2>2, EndsEffect DEF FailDuplicate, HandedOn
<1>11. QED
  BY <1>6, <1>7, <1>8, <1>9, <1>10

\* What every step of a job may take for granted.
LEMMA JobContext ==
    ASSUME TypeOK, NEW j \in Jobs, job[j].pc # "none"
    PROVE  /\ job[j].task \in Tasks
           /\ TasksOK /\ JobsOK /\ CloudTypeOK
           /\ keys \subseteq Keys
           /\ failures \in [Tasks -> Nat]
           /\ faults \in 0..MaxFaults
           /\ UNCHANGED cloud => CloudGrows
           /\ UNCHANGED tasks => OnlyRecordOf(job[j].task)
<1>1. /\ TasksOK /\ JobsOK /\ CloudTypeOK /\ keys \subseteq Keys
      /\ failures \in [Tasks -> Nat] /\ faults \in 0..MaxFaults
  BY DEF TypeOK, StorageTypeOK, ConsumerTypeOK, CloudTypeOK, JobsOK
<1>2. job[j].task \in Tasks
  BY <1>1, TaskOfJob
<1>3. QED
  BY <1>1, <1>2, NoRecordChange DEF CloudTypeOK, CloudGrows

\* A token is granted or denied; the key is removed and the record read again.
LEMMA DenialEffect ==
    ASSUME TypeOK, KeyedAt, NEW j \in Jobs,
           \/ RateLimit(j) \/ Unkey(j) \/ Refetch(j) \/ Release(j) \/ UnkeyAgain(j)
    PROVE  JobEffect(j)
<1> DEFINE t == job[j].task
<1>1. job[j].pc # "none"
  BY DEF RateLimit, Unkey, Refetch, Release, UnkeyAgain, At
<1>2. /\ t \in Tasks /\ TasksOK /\ JobsOK /\ CloudTypeOK /\ keys \subseteq Keys
      /\ failures \in [Tasks -> Nat] /\ faults \in 0..MaxFaults
      /\ UNCHANGED cloud => CloudGrows
      /\ UNCHANGED tasks => OnlyRecordOf(t)
  BY <1>1, JobContext
<1>3. {"lock", "unkey", "refetch", "release", "unkeyAgain", "reschedule"}
         \subseteq JobStates
  BY DEF JobStates
<1>4. CASE RateLimit(j)
  <2>1. \E pc \in {"lock", "unkey", "refetch"} : Goto(j, pc)
    BY <1>4 DEF RateLimit
  <2>2. faults' \in 0..MaxFaults
    BY <1>2, <1>4, FaultEffect DEF RateLimit
  <2>3. QED
    BY <1>1, <1>2, <1>3, <1>4, <2>1, <2>2, GotoEffect, MovesOnEffect
       DEF RateLimit, storageVars
<1>5. CASE Unkey(j)
  <2>1. keys' \subseteq Keys
    BY <1>2, <1>5 DEF Unkey, RemoveUniquenessKey
  <2>2. QED
    BY <1>1, <1>2, <1>3, <1>5, <2>1, GotoEffect, MovesOnEffect DEF Unkey, cloudVars
<1>6. CASE Refetch(j)
  <2> DEFINE read == IF Exists(tasks[t]) THEN tasks[t].reEnqueues ELSE Missing
  <2>1. read \in Nat \cup {Missing}
    BY <1>2 DEF TasksOK, TaskRecords, Missing
  <2>2. job' = [job EXCEPT ![j].pc = "release", ![j].read = read]
    BY <1>6 DEF Refetch
  <2> HIDE DEF read
  <2>3. MovesOn(j, "release")
    BY <1>1, <1>2, <1>3, <2>1, <2>2 DEF MovesOn, OnlyJob, JobsOK, JobRecords
  <2>4. QED
    BY <1>2, <1>3, <1>6, <2>3, MovesOnEffect DEF Refetch, storageVars, cloudVars
<1>7. CASE Release(j)
  <2>1. OnlyRecordOf(t)
    BY <1>2, <1>7, ConsumerAssumption, ReleaseTaskLockEffect DEF Release
  <2>2. \E pc \in {"unkeyAgain", "reschedule"} : Goto(j, pc)
    BY <1>7 DEF Release
  <2>3. QED
    BY <1>1, <1>2, <1>3, <1>7, <2>1, <2>2, GotoEffect, MovesOnEffect
       DEF Release, cloudVars
<1>8. CASE UnkeyAgain(j)
  <2>1. keys' \subseteq Keys
    BY <1>2, <1>8 DEF UnkeyAgain, RemoveUniquenessKey
  <2>2. QED
    BY <1>1, <1>2, <1>3, <1>8, <2>1, GotoEffect, MovesOnEffect
       DEF UnkeyAgain, cloudVars
<1>9. QED
  BY <1>4, <1>5, <1>6, <1>7, <1>8

\* retryCount of a re-enqueued task is a number.
LEMMA ReEnqueueCountType ==
    ASSUME JobsOK, NEW j \in Jobs
    PROVE  ReEnqueueCount(j) \in Nat /\ ReEnqueueCount(j) - 1 \in Nat
<1>1. job[j].read \in Nat \cup {Missing}
  BY DEF JobsOK, JobRecords
<1>2. QED
  BY <1>1 DEF ReEnqueueCount, Missing

\* The second half of reEnqueueTaskWithDelay.
LEMMA ReEnqueueEffect ==
    ASSUME TypeOK, KeyedAt, NEW j \in Jobs,
           \/ GiveUpReEnqueue(j) \/ Reschedule(j) \/ ReAddCheckUniqueness(j)
           \/ ReCreate(j) \/ ReSend(j) \/ ReReset(j)
    PROVE  JobEffect(j)
<1> DEFINE t == job[j].task
<1>1. job[j].pc # "none"
  BY DEF GiveUpReEnqueue, Reschedule, ReAddCheckUniqueness, ReCreate, ReSend,
         ReReset, At
<1>2. /\ t \in Tasks /\ TasksOK /\ JobsOK /\ CloudTypeOK /\ keys \subseteq Keys
      /\ failures \in [Tasks -> Nat] /\ faults \in 0..MaxFaults
      /\ UNCHANGED cloud => CloudGrows
      /\ UNCHANGED tasks => OnlyRecordOf(t)
  BY <1>1, JobContext
<1>3. {"readd", "recreate", "resend", "rereset"} \subseteq JobStates
  BY DEF JobStates
<1>4. /\ ReEnqueueCount(j) \in Nat /\ ReEnqueueCount(j) - 1 \in Nat
      /\ tasks[t].retryCount \in Nat /\ tasks[t].reEnqueues \in Nat
  BY <1>2, ReEnqueueCountType DEF TasksOK, TaskRecords
<1>5. CASE GiveUpReEnqueue(j)
  <2>1. OnlyRecordOf(t) /\ tasks'[t].status # "active"
    BY <1>2, <1>4, <1>5, UpdateTaskEffect DEF GiveUpReEnqueue, Status
  <2>2. Ends(j) /\ CloudGrows
    BY <1>1, <1>2, <1>5, NackEffect DEF GiveUpReEnqueue
  <2>3. QED
    BY <1>2, <1>5, <2>1, <2>2, EndsEffect DEF GiveUpReEnqueue, HandedOn
<1>6. CASE Reschedule(j)
  <2>1. OnlyRecordOf(t)
    BY <1>2, <1>4, <1>6, UpdateTaskEffect DEF Reschedule, Status
  <2>2. \E pc \in {"readd", "recreate"} : Goto(j, pc)
    BY <1>6 DEF Reschedule
  <2>3. QED
    BY <1>1, <1>2, <1>3, <1>6, <2>1, <2>2, GotoEffect, MovesOnEffect
       DEF Reschedule, cloudVars
<1>7. CASE ReAddCheckUniqueness(j)
  <2>1. CASE KeyIsSet(t)
    <3>1. Ends(j) /\ CloudGrows /\ (ControllerOf[t] = "interceptor" => cloud'[t] > 0)
      BY <1>1, <1>2, <1>7, <2>1, NackEffect DEF ReAddCheckUniqueness
    <3>2. QED
      BY <1>2, <1>7, <3>1, EndsEffect
         DEF ReAddCheckUniqueness, storageVars, HandedOn
  <2>2. CASE ~KeyIsSet(t)
    BY <1>1, <1>2, <1>3, <1>7, <2>2, GotoEffect, MovesOnEffect
       DEF ReAddCheckUniqueness, storageVars
  <2>3. QED
    BY <2>1, <2>2
<1>8. CASE ReCreate(j)
  <2>1. OnlyRecordOf(t)
    BY <1>2, <1>4, <1>8, CreateTaskEffect DEF ReCreate, Status
  <2>2. QED
    BY <1>1, <1>2, <1>3, <1>8, <2>1, GotoEffect, MovesOnEffect
       DEF ReCreate, cloudVars
<1>9. CASE ReSend(j)
  <2>1. CASE SendTaskToGcp(t, "created") /\ job' = [job EXCEPT ![j] = NoJob]
    <3>1. CloudGrows /\ cloud'[t] > 0 /\ faults' \in 0..MaxFaults
      BY <1>2, <2>1, SendEffect
    <3>2. Ends(j)
      BY <1>2, <2>1, EndEffect
    <3>3. QED
      BY <1>2, <1>9, <3>1, <3>2, EndsEffect DEF ReSend, storageVars, HandedOn
  <2>2. CASE SendTaskToGcp(t, "caught") /\ Goto(j, "rereset")
    <3>1. CloudGrows /\ faults' \in 0..MaxFaults
      BY <1>2, <2>2, SendEffect
    <3>2. QED
      BY <1>1, <1>2, <1>3, <1>9, <2>2, <3>1, GotoEffect, MovesOnEffect
         DEF ReSend, storageVars
  <2>3. CASE Fault("credentials") /\ Nack(j)
    <3>1. /\ Ends(j) /\ CloudGrows /\ faults' \in 0..MaxFaults
          /\ ControllerOf[t] = "interceptor" => cloud'[t] > 0
      BY <1>1, <1>2, <2>3, FaultEffect, NackEffect
    <3>2. QED
      BY <1>2, <1>9, <3>1, EndsEffect DEF ReSend, storageVars, HandedOn
  <2>4. QED
    BY <1>9, <2>1, <2>2, <2>3 DEF ReSend
<1>10. CASE ReReset(j)
  <2>1. /\ OnlyRecordOf(t)
        /\ t \in CustomIds => tasks'[t].status # "active"
    BY <1>2, <1>10, ResetAfterCatchEffect DEF ReReset
  <2>2. Ends(j) /\ CloudGrows
    BY <1>2, <1>10, AckEffect DEF ReReset
  <2>3. QED
    BY <1>2, <1>10, <2>1, <2>2, EndsEffect DEF ReReset, HandedOn
<1>11. QED
  BY <1>5, <1>6, <1>7, <1>8, <1>9, <1>10

\* The lock, the handler and the outcome.
LEMMA HandlingEffect ==
    ASSUME TypeOK, KeyedAt, NEW j \in Jobs,
           \/ AcquireLock(j) \/ RetryLock(j) \/ LockFailed(j)
           \/ RunHandler(j) \/ Complete(j)
           \/ Fail(j) \/ UnkeyFailed(j) \/ FailAgain(j)
    PROVE  JobEffect(j)
<1> DEFINE t == job[j].task
<1>1. job[j].pc # "none"
  BY DEF AcquireLock, RetryLock, LockFailed, RunHandler, Complete, Fail,
         UnkeyFailed, FailAgain, At
<1>2. /\ t \in Tasks /\ TasksOK /\ JobsOK /\ CloudTypeOK /\ keys \subseteq Keys
      /\ failures \in [Tasks -> Nat] /\ faults \in 0..MaxFaults
      /\ UNCHANGED cloud => CloudGrows
      /\ UNCHANGED tasks => OnlyRecordOf(t)
  BY <1>1, JobContext
<1>3. {"lock", "lockFailed", "run", "complete", "fail", "unkeyFailed", "failAgain"}
         \subseteq JobStates
  BY DEF JobStates
\* failTask and the answer, whichever it is.
<1>4. ASSUME FailTask(t), Nack(j) \/ Rethrow(j) \/ Ack(j),
             UNCHANGED <<keys, faults, failures>>
      PROVE  JobEffect(j)
  <2>1. OnlyRecordOf(t) /\ tasks'[t].status # "active"
    BY <1>2, <1>4, FailTaskEffect
  <2>2. Ends(j) /\ CloudGrows
    BY <1>1, <1>2, <1>4, NackEffect, RethrowEffect, AckEffect
  <2>3. QED
    BY <1>2, <1>4, <2>1, <2>2, EndsEffect DEF HandedOn
<1>5. CASE AcquireLock(j)
  <2>1. OnlyRecordOf(t)
    BY <1>2, <1>5, ConsumerAssumption, AcquireTaskLockEffect DEF AcquireLock
  <2>2. CASE job[j].read = Missing
    <3>1. Ends(j) /\ CloudGrows /\ (ControllerOf[t] = "interceptor" => cloud'[t] > 0)
      BY <1>1, <1>2, <1>5, <2>2, NackEffect DEF AcquireLock
    <3>2. QED
      BY <1>2, <1>5, <2>1, <3>1, EndsEffect DEF AcquireLock, HandedOn
  <2>3. CASE job[j].read # Missing
    <3>1. job' = [job EXCEPT ![j].pc = "run", ![j].leased = TRUE]
      BY <1>5, <2>3 DEF AcquireLock
    <3>2. MovesOn(j, "run")
      BY <1>1, <1>2, <1>3, <3>1 DEF MovesOn, OnlyJob, JobsOK, JobRecords
    <3>3. QED
      BY <1>2, <1>3, <1>5, <2>1, <2>3, <3>2, MovesOnEffect DEF AcquireLock
  <2>4. QED
    BY <2>2, <2>3
<1>6. CASE RetryLock(j)
  <2> DEFINE pc == IF job[j].tries + 1 < MaxLockRetries THEN "lock" ELSE "lockFailed"
             tries == job[j].tries + 1
  <2>1. pc \in {"lock", "lockFailed"} /\ tries \in Nat
    BY <1>2 DEF JobsOK, JobRecords
  <2>2. job' = [job EXCEPT ![j].tries = tries, ![j].pc = pc]
    BY <1>6 DEF RetryLock
  <2> HIDE DEF pc, tries
  <2>3. MovesOn(j, pc)
    BY <1>1, <1>2, <1>3, <2>1, <2>2 DEF MovesOn, OnlyJob, JobsOK, JobRecords
  <2>4. QED
    BY <1>2, <1>3, <1>6, <2>1, <2>3, MovesOnEffect
       DEF RetryLock, storageVars, cloudVars
<1>7. CASE LockFailed(j)
  BY <1>4, <1>7 DEF LockFailed
<1>8. CASE RunHandler(j)
  <2>1. MovesOn(j, "complete") \/ MovesOn(j, "fail")
    BY <1>1, <1>2, <1>3, <1>8, GotoEffect, ThrowEffect DEF RunHandler
  <2>2. faults' \in 0..MaxFaults
    BY <1>2, <1>8, FaultEffect DEF RunHandler
  <2>3. failures' \in [Tasks -> Nat]
    BY <1>2, <1>8 DEF RunHandler
  <2>4. QED
    BY <1>2, <1>3, <1>8, <2>1, <2>2, <2>3, MovesOnEffect DEF RunHandler, storageVars
<1>9. CASE Complete(j)
  <2>1. CASE CompleteTaskThrows(t)
    BY <1>1, <1>2, <1>3, <1>9, <2>1, GotoEffect, MovesOnEffect DEF Complete
  <2>2. CASE ~CompleteTaskThrows(t)
    <3>1. OnlyRecordOf(t) /\ tasks'[t].status # "active"
      BY <1>2, <1>9, <2>2, CompleteTaskEffect DEF Complete
    <3>2. Ends(j) /\ CloudGrows
      BY <1>2, <1>9, <2>2, AckEffect DEF Complete
    <3>3. QED
      BY <1>2, <1>9, <3>1, <3>2, EndsEffect DEF Complete, HandedOn
  <2>3. QED
    BY <2>1, <2>2
<1>10. CASE Fail(j)
  <2>1. CASE FailTaskThrows(t)
    BY <1>4, <1>10, <2>1 DEF Fail
  <2>2. CASE ~FailTaskThrows(t)
    <3>1. OnlyRecordOf(t)
      BY <1>2, <1>10, FailTaskEffect DEF Fail
    <3>2. \E pc \in {"unkeyFailed", "failAgain"} : Goto(j, pc)
      BY <1>10, <2>2 DEF Fail
    <3>3. QED
      BY <1>1, <1>2, <1>3, <1>10, <2>2, <3>1, <3>2, GotoEffect, MovesOnEffect
         DEF Fail
  <2>3. QED
    BY <2>1, <2>2
<1>11. CASE UnkeyFailed(j)
  <2>1. keys' \subseteq Keys
    BY <1>2, <1>11 DEF UnkeyFailed, RemoveUniquenessKey
  <2>2. QED
    BY <1>1, <1>2, <1>3, <1>11, <2>1, GotoEffect, MovesOnEffect
       DEF UnkeyFailed, cloudVars
<1>12. CASE FailAgain(j)
  BY <1>4, <1>12 DEF FailAgain
<1>13. QED
  BY <1>5, <1>6, <1>7, <1>8, <1>9, <1>10, <1>11, <1>12

LEMMA JobStepInService ==
    ASSUME NEW j \in Jobs, JobStep(j)
    PROVE  job[j].pc # "none"
BY DEF JobStep, At, Lookup, Activate, CheckUniqueness, SaveKey, FailDuplicate, RateLimit,
       Unkey, Refetch, Release, UnkeyAgain, GiveUpReEnqueue, Reschedule,
       ReAddCheckUniqueness, ReCreate, ReSend, ReReset, AcquireLock, RetryLock,
       LockFailed, RunHandler, Complete, Fail, UnkeyFailed, FailAgain

LEMMA JobStepEffect ==
    ASSUME TypeOK, KeyedAt, NEW j \in Jobs, JobStep(j)
    PROVE  JobEffect(j)
BY ArrivalEffect, DenialEffect, ReEnqueueEffect, HandlingEffect DEF JobStep
=============================================================================
