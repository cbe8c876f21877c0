------------------------------- MODULE Consumer -------------------------------
(***************************************************************************)
(* ConsumerService.processTask, from the push of an HTTP task to its answer.  *)
(* A job is one request being served; jobs of one instance interleave at       *)
(* every await and share that instance's workerId.                           *)
(*                                                                         *)
(* Tasks are added without chain options here, so that completeTask and        *)
(* failTask of the storage are all that a finished job calls.                *)
(***************************************************************************)
EXTENDS CloudTasks, Integers

CONSTANTS
    Jobs,           \* requests that may be served at the same time
    WorkerOf,       \* the instance that serves each of them
    NoTaskId,       \* the task of a job that serves no request
    ControllerOf,   \* what each task is pushed to, by the processorUrl of its queue:
                    \* "interceptor" (CloudTaskProcessorInterceptor) or
                    \* "builtin" (TaskController)
    LongHandlers    \* a handler may run longer than its lock lasts

MaxLockRetries == 3

ASSUME ConsumerAssumption ==
    /\ IsFiniteSet(Jobs)
    /\ WorkerOf \in [Jobs -> Workers]
    /\ NoTaskId \notin Tasks
    /\ ControllerOf \in [Tasks -> {"interceptor", "builtin"}]
    /\ LongHandlers \in BOOLEAN

VARIABLES
    job,        \* the request each job serves and how far it has come
    failures    \* how often the handler of each task has thrown (history)

consumerVars == <<job, failures>>

JobStates ==
    {"none", "lookup", "activate", "unique", "save", "duplicate", "limit",
     "unkey", "refetch", "release", "unkeyAgain", "reschedule", "readd",
     "recreate", "resend", "rereset",
     "lock", "lockFailed", "run", "complete", "fail", "unkeyFailed", "failAgain"}

(***************************************************************************)
(* read is the counter the job took from the record when it read it:           *)
(* taskRecord.retryCount after ACTIVE was set, and on the re-enqueue path       *)
(* originalTask.metadata.retryCount; Missing when there was no record.  threw is *)
(* what the handler has thrown, if it has: an HttpException or another error.   *)
(* leased says that the lease of the job's lock has not run out (history).      *)
(***************************************************************************)
Missing == -1

JobRecords ==
    [pc     : JobStates,
     task   : Tasks \cup {NoTaskId},
     read   : Nat \cup {Missing},
     tries  : Nat,
     threw  : {"nothing", "error", "httpError"},
     leased : BOOLEAN]

NoJob == [pc |-> "none", task |-> NoTaskId, read |-> Missing,
          tries |-> 0, threw |-> "nothing", leased |-> FALSE]

ConsumerTypeOK ==
    /\ job \in [Jobs -> JobRecords]
    /\ \A j \in Jobs : job[j].pc = "none" <=> job[j].task = NoTaskId
    /\ failures \in [Tasks -> Nat]

ConsumerInit ==
    /\ job = [j \in Jobs |-> NoJob]
    /\ failures = [t \in Tasks |-> 0]

-----------------------------------------------------------------------------

At(j, pc) == job[j].pc = pc

Goto(j, pc) == job' = [job EXCEPT ![j].pc = pc]

\* Mutant of Ack: the request is left with the job.
Ack_KeepsTask(j) ==
    /\ Goto(j, "none")
    /\ UNCHANGED cloud

\* The request is answered with a success status: Cloud Tasks drops the task.
Ack(j) ==
    /\ job' = [job EXCEPT ![j] = NoJob]
    /\ UNCHANGED cloud

\* processTask throws an error of its own or of the storage.  The interceptor
\* passes it on and Cloud Tasks pushes again; TaskController answers 200.
Nack(j) ==
    /\ job' = [job EXCEPT ![j] = NoJob]
    /\ IF ControllerOf[job[j].task] = "interceptor" THEN Enqueue(job[j].task)
                                                    ELSE UNCHANGED cloud

\* processTask throws what the handler threw; an HttpException passes through
\* TaskController too.
Rethrow(j) ==
    IF job[j].threw = "httpError"
    THEN job' = [job EXCEPT ![j] = NoJob] /\ Enqueue(job[j].task)
    ELSE Nack(j)

AfterUniqueness(t) == IF t \in RateLimited THEN "limit" ELSE "lock"

\* Only a body with a taskId gets as far as processTask.
Deliver(j, t) ==
    /\ At(j, "none")
    /\ t \in CustomIds
    /\ Dequeue(t)
    /\ job' = [job EXCEPT ![j] = [NoJob EXCEPT !.pc = "lookup", !.task = t]]
    /\ UNCHANGED <<storageVars, faults, failures>>

\* Without one the interceptor lets the request through unprocessed and it is
\* answered; TaskController answers 400 and the push is repeated.
DeliverWithoutTaskId(t) ==
    /\ t \notin CustomIds
    /\ cloud[t] > 0
    /\ IF ControllerOf[t] = "interceptor" THEN Dequeue(t) ELSE UNCHANGED cloud
    /\ UNCHANGED <<storageVars, faults, consumerVars>>

Lookup(j) ==
    LET t == job[j].task
    IN  /\ At(j, "lookup")
        /\ IF Exists(tasks[t]) THEN Goto(j, "activate") /\ UNCHANGED cloud
                               ELSE Ack(j)
        /\ UNCHANGED <<storageVars, faults, failures>>

\* updateTaskStatus(taskId, ACTIVE), whatever the status was.
Activate(j) ==
    LET t == job[j].task
    IN  /\ At(j, "activate")
        /\ UpdateTaskStatus(t, "active")
        /\ job' = [job EXCEPT
              ![j].pc = IF Unique(t) THEN "unique" ELSE AfterUniqueness(t),
              ![j].read = IF Exists(tasks[t]) THEN tasks[t].retryCount ELSE Missing]
        /\ UNCHANGED <<keys, cloudVars, failures>>

CheckUniqueness(j) ==
    /\ At(j, "unique")
    /\ IF KeyIsSet(job[j].task) THEN Ack(j) ELSE Goto(j, "save") /\ UNCHANGED cloud
    /\ UNCHANGED <<storageVars, faults, failures>>

SaveKey(j) ==
    LET t == job[j].task
    IN  /\ At(j, "save")
        /\ IF SaveUniquenessKeyThrows(t)
           THEN Goto(j, "duplicate") /\ UNCHANGED keys
           ELSE Goto(j, AfterUniqueness(t)) /\ SaveUniquenessKey(t)
        /\ UNCHANGED <<tasks, cloudVars, failures>>

\* The key was taken meanwhile: failTask, its own error swallowed.
FailDuplicate(j) ==
    /\ At(j, "duplicate")
    /\ FailTask(job[j].task)
    /\ Ack(j)
    /\ UNCHANGED <<keys, faults, failures>>

-----------------------------------------------------------------------------
(* Rate limiting: the limiter's own state is the subject of RateLimiter. *)

RateLimit(j) ==
    LET t == job[j].task
    IN  /\ At(j, "limit")
        /\ \/ Goto(j, "lock") /\ UNCHANGED faults
           \/ Goto(j, IF Unique(t) THEN "unkey" ELSE "refetch") /\ Fault("denied")
        /\ UNCHANGED <<storageVars, cloud, failures>>

Unkey(j) ==
    /\ At(j, "unkey")
    /\ RemoveUniquenessKey(job[j].task)
    /\ Goto(j, "refetch")
    /\ UNCHANGED <<tasks, cloudVars, failures>>

\* reEnqueueTaskWithDelay starts: getTaskById.
Refetch(j) ==
    LET t == job[j].task
    IN  /\ At(j, "refetch")
        /\ job' = [job EXCEPT
              ![j].pc = "release",
              ![j].read = IF Exists(tasks[t]) THEN tasks[t].reEnqueues ELSE Missing]
        /\ UNCHANGED <<storageVars, cloudVars, failures>>

\* releaseTaskLock(taskId, this.workerId), although this job holds no lock.
Release(j) ==
    LET t == job[j].task
    IN  /\ At(j, "release")
        /\ ReleaseTaskLock(t, WorkerOf[j])
        /\ Goto(j, IF Unique(t) /\ job[j].read # Missing
                   THEN "unkeyAgain" ELSE "reschedule")
        /\ UNCHANGED <<keys, cloudVars, failures>>

UnkeyAgain(j) ==
    /\ At(j, "unkeyAgain")
    /\ RemoveUniquenessKey(job[j].task)
    /\ Goto(j, "reschedule")
    /\ UNCHANGED <<tasks, cloudVars, failures>>

\* retryCount of reEnqueueTaskWithDelay, this time included.
ReEnqueueCount(j) == IF job[j].read = Missing THEN 1 ELSE job[j].read + 1

\* Too many: FAILED, and undefined is returned, which makes processTask throw.
GiveUpReEnqueue(j) ==
    LET t == job[j].task
    IN  /\ At(j, "reschedule")
        /\ ReEnqueueCount(j) > MaxRetry[t]
        /\ UpdateTask(t, "failed", tasks[t].retryCount, ReEnqueueCount(j) - 1)
        /\ Nack(j)
        /\ UNCHANGED <<keys, faults, failures>>

\* updateTaskStatus(taskId, IDLE, additionalData): the re-enqueue data is spread
\* over the record and overwrites retryCount.
Reschedule(j) ==
    LET t == job[j].task
    IN  /\ At(j, "reschedule")
        /\ ReEnqueueCount(j) <= MaxRetry[t]
        /\ UpdateTask(t, "idle", ReEnqueueCount(j), tasks[t].reEnqueues)
        /\ Goto(j, IF Unique(t) THEN "readd" ELSE "recreate")
        /\ UNCHANGED <<keys, cloudVars, failures>>

\* addTask drops a task whose key is set: no taskId comes back, processTask throws.
ReAddCheckUniqueness(j) ==
    /\ At(j, "readd")
    /\ IF KeyIsSet(job[j].task) THEN Nack(j)
                                ELSE Goto(j, "recreate") /\ UNCHANGED cloud
    /\ UNCHANGED <<storageVars, faults, failures>>

\* addTask with a scheduleTime: created ACTIVE and sent at once.
ReCreate(j) ==
    /\ At(j, "recreate")
    /\ CreateTask(job[j].task, "active", ReEnqueueCount(j))
    /\ Goto(j, "resend")
    /\ UNCHANGED <<keys, cloudVars, failures>>

\* Mutant of ReSend: an error of addTask is swallowed.
ReSend_SwallowsError(j) ==
    LET t == job[j].task
    IN  /\ At(j, "resend")
        /\ \/ SendTaskToGcp(t, "created") /\ job' = [job EXCEPT ![j] = NoJob]
           \/ SendTaskToGcp(t, "caught") /\ Goto(j, "rereset")
           \/ Fault("credentials") /\ Ack(j)
        /\ UNCHANGED <<storageVars, failures>>

ReSend(j) ==
    LET t == job[j].task
    IN  /\ At(j, "resend")
        /\ \/ SendTaskToGcp(t, "created") /\ job' = [job EXCEPT ![j] = NoJob]
           \/ SendTaskToGcp(t, "caught") /\ Goto(j, "rereset")
           \/ Fault("credentials") /\ Nack(j)
        /\ UNCHANGED <<storageVars, failures>>

ReReset(j) ==
    /\ At(j, "rereset")
    /\ ResetAfterCatch(job[j].task)
    /\ Ack(j)
    /\ UNCHANGED <<keys, faults, failures>>

-----------------------------------------------------------------------------
(* Lock, handler, outcome. *)

\* One of three attempts.  A record that was missing when it was set ACTIVE makes
\* new CloudTask(null) throw outside the try block.
AcquireLock(j) ==
    LET t == job[j].task
    IN  /\ At(j, "lock")
        /\ CanAcquireTaskLock(t, WorkerOf[j])
        /\ AcquireTaskLock(t, WorkerOf[j])
        /\ IF job[j].read = Missing
           THEN Nack(j)
           ELSE /\ job' = [job EXCEPT ![j].pc = "run", ![j].leased = TRUE]
                /\ UNCHANGED cloud
        /\ UNCHANGED <<keys, faults, failures>>

RetryLock(j) ==
    /\ At(j, "lock")
    /\ ~CanAcquireTaskLock(job[j].task, WorkerOf[j])
    /\ job' = [job EXCEPT
          ![j].tries = @ + 1,
          ![j].pc = IF job[j].tries + 1 < MaxLockRetries THEN "lock" ELSE "lockFailed"]
    /\ UNCHANGED <<storageVars, cloudVars, failures>>

\* Mutant of LockFailed: the answer without the failTask.
LockFailed_NoFailTask(j) ==
    /\ At(j, "lockFailed")
    /\ Ack(j)
    /\ UNCHANGED <<storageVars, faults, failures>>

\* failTask(taskId, 'LOCK_FAILED') and a success answer.
LockFailed(j) ==
    LET t == job[j].task
    IN  /\ At(j, "lockFailed")
        /\ FailTask(t)
        /\ IF FailTaskThrows(t) THEN Nack(j) ELSE Ack(j)
        /\ UNCHANGED <<keys, faults, failures>>

\* The handler returns or throws.
RunHandler(j) ==
    LET t == job[j].task
    IN  /\ At(j, "run")
        /\ \/ Goto(j, "complete") /\ UNCHANGED <<faults, failures>>
           \/ /\ \E error \in {"error", "httpError"} :
                    job' = [job EXCEPT ![j].pc = "fail", ![j].threw = error]
              /\ failures' = [failures EXCEPT ![t] = @ + 1]
              /\ Fault("handler")
        /\ UNCHANGED <<storageVars, cloud>>

\* storageAdapter.completeTask; its error lands in the catch block.
Complete(j) ==
    LET t == job[j].task
    IN  /\ At(j, "complete")
        /\ IF CompleteTaskThrows(t)
           THEN Goto(j, "fail") /\ UNCHANGED <<tasks, cloud>>
           ELSE CompleteTask(t) /\ Ack(j)
        /\ UNCHANGED <<keys, faults, failures>>

Fail(j) ==
    LET t == job[j].task
    IN  /\ At(j, "fail")
        /\ FailTask(t)
        /\ IF FailTaskThrows(t)
           THEN Nack(j)
           ELSE /\ Goto(j, IF Unique(t) THEN "unkeyFailed" ELSE "failAgain")
                /\ UNCHANGED cloud
        /\ UNCHANGED <<keys, faults, failures>>

UnkeyFailed(j) ==
    /\ At(j, "unkeyFailed")
    /\ RemoveUniquenessKey(job[j].task)
    /\ Goto(j, "failAgain")
    /\ UNCHANGED <<tasks, cloudVars, failures>>

\* currentRetryCount, from the record as it was when the job started.
CurrentRetryCount(j) == job[j].read + 1

FailAgain(j) ==
    LET t == job[j].task
    IN  /\ At(j, "failAgain")
        /\ FailTask(t)
        /\ \/ FailTaskThrows(t) /\ Nack(j)
           \/ ~FailTaskThrows(t) /\ CurrentRetryCount(j) <= MaxRetry[t] /\ Rethrow(j)
           \/ ~FailTaskThrows(t) /\ CurrentRetryCount(j) > MaxRetry[t] /\ Ack(j)
        /\ UNCHANGED <<keys, faults, failures>>
=============================================================================
