----------------------------- MODULE RedisTaskMQ -----------------------------
(***************************************************************************)
(* addTask and processTask over the Redis adapter. Module Consumer has the      *)
(* same steps with calls that take effect at once; here a step resumes its       *)
(* caller with the reply to one adapter call and starts the next one.           *)
(*                                                                         *)
(* The tasks are sent at once (skipBuffering or scheduleTime) under a taskId of   *)
(* their own. Buffered tasks are not here, because over Redis they are never      *)
(* sent: findTasksWithoutActiveVersion joins all criteria, the sort order         *)
(* included, to the name of a set that nobody writes.                          *)
(***************************************************************************)
EXTENDS RedisStorage

CONSTANTS
    Jobs,           \* requests that may be served at the same time
    WorkerOf,       \* the instance that serves each of them
    RateLimited,    \* the tasks whose rateLimiterKey names a limiter
    MaxRetry,       \* options.maxRetry of each task
    Faults,         \* the kinds of fault that may happen
    MaxFaults       \* how many may happen in all: the bound of every run

FaultKinds == {"reject", "ambiguous", "credentials", "duplicate", "crash", "handler",
               "denied"}

ASSUME RedisTaskAssumption ==
    /\ IsFiniteSet(Jobs)
    /\ Jobs \cap Tasks = {}
    /\ Callers = Jobs \cup Tasks       \* the caller named t is addTask of task t
    /\ WorkerOf \in [Jobs -> Workers]
    /\ RateLimited \subseteq Tasks
    /\ MaxRetry \in [Tasks -> Nat]
    /\ Faults \subseteq FaultKinds
    /\ MaxFaults \in Nat

VARIABLES
    cloud,      \* HTTP tasks waiting to be pushed, for each task
    faults,     \* faults so far
    adding,     \* how far addTask has come for each task
    job         \* the request each job serves and what it waits for

vars == <<redisVars, cloud, faults, adding, job>>

\* read is the counter a job took from a record, Missing without a record; lease
\* the lockedUntil of the lock it has got, 0 without one.
Missing == -1

NoJob == [pc |-> "none", task |-> NoTaskId, read |-> Missing, tries |-> 0, lease |-> 0]

JobStates == {"none", "lookup", "activate", "limit", "refetch", "release", "giveUp",
              "reschedule", "recreate", "resend", "rereset", "lock", "lockFailed",
              "run", "complete", "fail", "failAgain"}

TypeOK ==
    /\ RedisTypeOK
    /\ cloud \in [Tasks -> Nat]
    /\ faults \in 0 .. MaxFaults
    /\ adding \in [Tasks -> {"none", "create", "send", "reset", "done", "threw"}]
    /\ job \in [Jobs -> [pc : JobStates, task : Tasks \cup {NoTaskId},
                         read : Nat \cup {Missing}, tries : 0 .. 3, lease : Nat]]

Init ==
    /\ RedisInit
    /\ cloud = [t \in Tasks |-> 0]
    /\ faults = 0
    /\ adding = [t \in Tasks |-> "none"]
    /\ job = [j \in Jobs |-> NoJob]

-----------------------------------------------------------------------------
(* Cloud Tasks *)

store == <<hash, ttl, listed, locks>>

Fault(kind) ==
    /\ kind \in Faults
    /\ faults < MaxFaults
    /\ faults' = faults + 1

Enqueue(t) == cloud' = [cloud EXCEPT ![t] = @ + 1]

\* sendTaskToGcp succeeds, fails in Google's client, which addTask catches, or fails
\* for want of credentials, which addTask throws on.
Sent(t) == Enqueue(t) /\ UNCHANGED faults

NotSent(t) ==
    \/ Fault("reject") /\ UNCHANGED cloud
    \/ Fault("ambiguous") /\ Enqueue(t)

NoCredentials == Fault("credentials")

NoCallBy(c) == call' = [call EXCEPT ![c] = NoCall] /\ UNCHANGED overlapped

-----------------------------------------------------------------------------
(* addTask, the caller t itself *)

AddTask(t) ==
    /\ adding[t] = "none"
    /\ adding' = [adding EXCEPT ![t] = "create"]
    /\ Invoke(t, CreateTask(t, "active", 0))
    /\ UNCHANGED <<store, cloud, faults, job>>

AddSend(t) ==
    /\ adding[t] = "create" /\ Returned(t, "done")
    /\ adding' = [adding EXCEPT ![t] = "send"]
    /\ NoCallBy(t)
    /\ UNCHANGED <<store, cloud, faults, job>>

\* The call of Google has its answer. The catch block makes the record IDLE.
AddSent(t) ==
    /\ adding[t] = "send"
    /\ \/ /\ Sent(t)
          /\ adding' = [adding EXCEPT ![t] = "done"]
          /\ UNCHANGED <<call, overlapped>>
       \/ /\ NotSent(t)
          /\ adding' = [adding EXCEPT ![t] = "reset"]
          /\ Invoke(t, UpdateTaskStatus(t, [status |-> "idle"]))
       \/ /\ NoCredentials /\ UNCHANGED cloud
          /\ adding' = [adding EXCEPT ![t] = "threw"]
          /\ UNCHANGED <<call, overlapped>>
    /\ UNCHANGED <<store, job>>

AddEnd(t) ==
    /\ adding[t] = "reset" /\ ~InCall(t)
    /\ adding' = [adding EXCEPT ![t] = "done"]
    /\ NoCallBy(t)
    /\ UNCHANGED <<store, cloud, faults, job>>

-----------------------------------------------------------------------------
(* processTask *)

At(j, pc) == job[j].pc = pc
Replied(j, pc, result) == At(j, pc) /\ Returned(j, result)

\* j goes on to pc and waits there for the adapter call it makes.
Await(j, pc, request) ==
    /\ job' = [job EXCEPT ![j].pc = pc]
    /\ Invoke(j, request)

\* The request is answered, with success or with an error that repeats the push.
Ack(j) ==
    /\ job' = [job EXCEPT ![j] = NoJob]
    /\ NoCallBy(j)
    /\ UNCHANGED cloud

Nack(j) ==
    /\ job' = [job EXCEPT ![j] = NoJob]
    /\ NoCallBy(j)
    /\ Enqueue(job[j].task)

\* An adapter call that throws makes processTask throw; but an error of completeTask
\* counts as one of the handler.
Rethrow(j) ==
    /\ ~At(j, "complete") /\ Returned(j, "threw")
    /\ Nack(j)
    /\ UNCHANGED <<store, faults, adding>>

Deliver(j, t) ==
    /\ At(j, "none") /\ cloud[t] > 0
    /\ cloud' = [cloud EXCEPT ![t] = @ - 1]
    /\ job' = [job EXCEPT ![j] = [NoJob EXCEPT !.pc = "lookup", !.task = t]]
    /\ Invoke(j, GetTaskById(t))
    /\ UNCHANGED <<store, faults, adding>>

Lookup(j) ==
    /\ \/ /\ Replied(j, "lookup", "done")
          /\ Await(j, "activate", UpdateTaskStatus(job[j].task, [status |-> "active"]))
          /\ UNCHANGED cloud
       \/ Replied(j, "lookup", "null") /\ Ack(j)
    /\ UNCHANGED <<store, faults, adding>>

\* The record is ACTIVE, or has gone.
Activate(j) ==
    LET read == IF Returned(j, "done") THEN call[j].seen.retryCount ELSE Missing
    IN  /\ Replied(j, "activate", "done") \/ Replied(j, "activate", "null")
        /\ job' = [job EXCEPT ![j].pc = "limit", ![j].read = read]
        /\ NoCallBy(j)
        /\ UNCHANGED <<store, cloud, faults, adding>>

\* The rate limiter, for a task that has one, denies it or not.
RateLimit(j) ==
    LET t == job[j].task
    IN  /\ At(j, "limit")
        /\ \/ Await(j, "lock", AcquireTaskLock(t, WorkerOf[j])) /\ UNCHANGED faults
           \/ t \in RateLimited /\ Await(j, "refetch", GetTaskById(t)) /\ Fault("denied")
        /\ UNCHANGED <<store, cloud, adding>>

\* reEnqueueTaskWithDelay
Refetch(j) ==
    LET t == job[j].task
        read == IF Returned(j, "done") THEN call[j].seen.reEnqueues ELSE Missing
    IN  /\ Replied(j, "refetch", "done") \/ Replied(j, "refetch", "null")
        /\ job' = [job EXCEPT ![j].pc = "release", ![j].read = read]
        /\ Invoke(j, ReleaseTaskLock(t, WorkerOf[j]))
        /\ UNCHANGED <<store, cloud, faults, adding>>

ReEnqueueCount(j) == IF job[j].read = Missing THEN 1 ELSE job[j].read + 1

\* FAILED once too often, else IDLE with the re-enqueue data over the record.
Released(j) ==
    LET t == job[j].task
        n == ReEnqueueCount(j)
    IN  /\ Replied(j, "release", "done") \/ Replied(j, "release", "refused")
        /\ IF n > MaxRetry[t]
           THEN Await(j, "giveUp", UpdateTaskStatus(t,
                         [status |-> "failed", reEnqueues |-> n - 1]))
           ELSE Await(j, "reschedule", UpdateTaskStatus(t,
                         [status |-> "idle", retryCount |-> n]))
        /\ UNCHANGED <<store, cloud, faults, adding>>

GiveUp(j) ==
    /\ Replied(j, "giveUp", "done") \/ Replied(j, "giveUp", "null")
    /\ Nack(j)
    /\ UNCHANGED <<store, faults, adding>>

\* addTask with a scheduleTime: created ACTIVE, sent at once.
Reschedule(j) ==
    /\ Replied(j, "reschedule", "done") \/ Replied(j, "reschedule", "null")
    /\ Await(j, "recreate", CreateTask(job[j].task, "active", ReEnqueueCount(j)))
    /\ UNCHANGED <<store, cloud, faults, adding>>

ReCreate(j) ==
    /\ Replied(j, "recreate", "done")
    /\ job' = [job EXCEPT ![j].pc = "resend"]
    /\ NoCallBy(j)
    /\ UNCHANGED <<store, cloud, faults, adding>>

ReSend(j) ==
    LET t == job[j].task
    IN  /\ At(j, "resend")
        /\ \/ /\ Sent(t)
              /\ job' = [job EXCEPT ![j] = NoJob]
              /\ UNCHANGED <<call, overlapped>>
           \/ /\ NotSent(t)
              /\ Await(j, "rereset", UpdateTaskStatus(t, [status |-> "idle"]))
           \/ NoCredentials /\ Nack(j)
        /\ UNCHANGED <<store, adding>>

ReReset(j) ==
    /\ Replied(j, "rereset", "done") \/ Replied(j, "rereset", "null")
    /\ Ack(j)
    /\ UNCHANGED <<store, faults, adding>>

\* Mutant of MaxLockRetries: one attempt more.
MaxLockRetries_OneMore == 4

MaxLockRetries == 3

\* Without a record new CloudTask(null) throws, the lock being held or not.
Locked(j) ==
    /\ \/ /\ Replied(j, "lock", "done") /\ job[j].read # Missing
          /\ job' = [job EXCEPT ![j].pc = "run", ![j].lease = call[j].seen.lockedUntil]
          /\ NoCallBy(j)
          /\ UNCHANGED cloud
       \/ Replied(j, "lock", "done") /\ job[j].read = Missing /\ Nack(j)
    /\ UNCHANGED <<store, faults, adding>>

\* Mutant of NotLocked: the last refusal is answered without failTask.
NotLocked_Acks(j) ==
    /\ Replied(j, "lock", "refused")
    /\ Ack(j)
    /\ UNCHANGED <<store, faults, adding>>

\* The lock is tried three times in all; after that the task has FAILED.
NotLocked(j) ==
    LET t == job[j].task
    IN  /\ Replied(j, "lock", "refused")
        /\ IF job[j].tries + 1 < MaxLockRetries
           THEN /\ job' = [job EXCEPT ![j].tries = @ + 1]
                /\ Invoke(j, AcquireTaskLock(t, WorkerOf[j]))
           ELSE /\ job' = [job EXCEPT ![j].tries = @ + 1, ![j].pc = "lockFailed"]
                /\ Invoke(j, FailTask(t))
        /\ UNCHANGED <<store, cloud, faults, adding>>

LockFailed(j) ==
    /\ Replied(j, "lockFailed", "done")
    /\ Ack(j)
    /\ UNCHANGED <<store, faults, adding>>

RunHandler(j) ==
    LET t == job[j].task
    IN  /\ At(j, "run")
        /\ \/ Await(j, "complete", CompleteTask(t)) /\ UNCHANGED faults
           \/ Await(j, "fail", FailTask(t)) /\ Fault("handler")
        /\ UNCHANGED <<store, cloud, adding>>

Complete(j) ==
    /\ \/ Replied(j, "complete", "done") /\ Ack(j)
       \/ /\ Replied(j, "complete", "threw")
          /\ Await(j, "fail", FailTask(job[j].task))
          /\ UNCHANGED cloud
    /\ UNCHANGED <<store, faults, adding>>

Fail(j) ==
    /\ Replied(j, "fail", "done")
    /\ Await(j, "failAgain", FailTask(job[j].task))
    /\ UNCHANGED <<store, cloud, faults, adding>>

FailAgain(j) ==
    /\ Replied(j, "failAgain", "done")
    /\ IF job[j].read + 1 <= MaxRetry[job[j].task] THEN Nack(j) ELSE Ack(j)
    /\ UNCHANGED <<store, faults, adding>>

\* What a job does with the reply to its adapter call, and with other answers.
HandleReply(j) ==
    \/ Rethrow(j) \/ Lookup(j) \/ Activate(j) \/ Refetch(j) \/ Released(j) \/ GiveUp(j)
    \/ Reschedule(j) \/ ReCreate(j) \/ ReReset(j)
    \/ Locked(j) \/ NotLocked(j) \/ LockFailed(j)
    \/ Complete(j) \/ Fail(j) \/ FailAgain(j)

GoOn(j) == RateLimit(j) \/ ReSend(j) \/ RunHandler(j)

-----------------------------------------------------------------------------
(* Redis, time and faults *)

queues == <<cloud, faults, adding, job>>

LockRunsOut(t) ==
    /\ LockLapses(t)
    /\ job' = [j \in Jobs |->
          IF job[j].task = t THEN [job[j] EXCEPT !.lease = Sooner(@)] ELSE job[j]]
    /\ UNCHANGED <<cloud, faults, adding>>

PushAgain(t) ==
    /\ cloud[t] > 0 \/ \E j \in Jobs : job[j].task = t
    /\ Enqueue(t)
    /\ Fault("duplicate")
    /\ UNCHANGED <<redisVars, adding, job>>

\* An instance that serves requests stops: they are pushed again, and it comes
\* back under another workerId. Instances that add tasks do not stop here.
Crash(w) ==
    LET lost == {j \in Jobs : WorkerOf[j] = w /\ ~At(j, "none")}
        Renamed(h) == [f \in DOMAIN h |-> IF f = "workerId" /\ h[f] = w THEN Departed
                                                                        ELSE h[f]]
    IN  /\ lost # {}
        /\ Fault("crash")
        /\ job' = [j \in Jobs |-> IF j \in lost THEN NoJob ELSE job[j]]
        /\ cloud' = [t \in Tasks |->
                       cloud[t] + Cardinality({j \in lost : job[j].task = t})]
        /\ hash' = [t \in Tasks |-> Renamed(hash[t])]
        /\ call' = [c \in Callers |->
              IF c \in lost THEN NoCall
              ELSE [call[c] EXCEPT !.seen = Renamed(@),
                                   !.change = Renamed(@)]]
        /\ UNCHANGED <<ttl, listed, locks, overlapped, adding>>

\* A reply is handled before anything else happens but a crash. Handling it any
\* later makes no difference: it reads nothing that others write, and the command
\* it sends may be late.
AllHandled == \A c \in Callers : call[c].at # "returned"

Next ==
    \/ \E t \in Tasks : AddSend(t) \/ AddEnd(t)
    \/ \E j \in Jobs : HandleReply(j)
    \/ \E w \in Workers : Crash(w)
    \/ /\ AllHandled
       /\ \/ \E t \in Tasks : AddTask(t) \/ AddSent(t) \/ PushAgain(t)
          \/ \E j \in Jobs : GoOn(j) \/ \E t \in Tasks : Deliver(j, t)
          \/ (\E c \in Callers : Serve(c)) /\ UNCHANGED queues
          \/ (\E t \in Tasks : HashExpires(t)) /\ UNCHANGED queues
          \/ \E t \in Tasks : LockRunsOut(t)

Spec == Init /\ [][Next]_vars

-----------------------------------------------------------------------------
(* Properties *)

\* Somebody will still act on t.
InHand(t) ==
    \/ cloud[t] > 0
    \/ \E j \in Jobs : job[j].task = t
    \/ adding[t] \in {"create", "send", "reset"}

(***************************************************************************)
(* Although updates write back what was read before somebody else's write, no     *)
(* late write leaves a task ACTIVE that nobody will act on: whoever writes ACTIVE  *)
(* (updateTaskStatus and releaseTaskLock with a status read earlier, a record      *)
(* brought back after its removal) has yet to write the task's outcome.           *)
(***************************************************************************)
AccountedFor ==
    \A t \in Tasks : hash[t].status = "active" => InHand(t) \/ adding[t] = "threw"

(***************************************************************************)
(* As long as calls about a task do not overlap, the index sets tell the truth:   *)
(* the record is listed under its status, which countTasks counts, and under       *)
(* ACTIVE only if it is, which hasActiveTaskInChain relies on. Re-created           *)
(* records may be listed under another status besides.                          *)
(***************************************************************************)
FoundByStatus ==
    \A t \in Tasks \ overlapped :
        hash[t].status \in Status =>
            /\ hash[t].status \in listed[t]
            /\ "active" \in listed[t] => hash[t].status = "active"

(***************************************************************************)
(* As long as calls about a task do not overlap, RedisStorage keeps the promise    *)
(* of every adapter although a call is several commands: the record changes only    *)
(* while a call that may change it so is under way, a removed one comes back by      *)
(* createTask alone, and a live lock is neither lost nor passed on. (Its             *)
(* releaseTaskLock is a step that changes nothing: the lock fields stay.)           *)
(***************************************************************************)
RecordOf(t) ==
    IF hash[t].status \in Status
    THEN [status     |-> hash[t].status,
          retryCount |-> hash[t].retryCount,
          lockedBy   |-> hash[t].workerId,
          lockLive   |-> LockIsLive(hash[t]),
          reEnqueues |-> hash[t].reEnqueues,
          expiring   |-> t \in ttl]
    ELSE NoTask

CallsAbout(t) ==
    {<<call[c].op, call[c].worker>> : c \in {d \in Callers : InCall(d) /\ call[d].task = t}}

Store == INSTANCE TaskStore WITH
    record <- [t \in Tasks |-> RecordOf(t)],
    calls <- [t \in Tasks |-> CallsAbout(t)],
    misused <- overlapped

ImplementsTaskStore == Store!StoreSpec

(***************************************************************************)
(* PRD.txt:40: the lock "prevents concurrent processing if Cloud Tasks were to     *)
(* deliver the same task instance multiple times".                            *)
(***************************************************************************)
Leased(j) == job[j].pc \in {"run", "complete"} /\ job[j].lease > 0

LeaseExclusion ==
    \A i, j \in Jobs :
        Leased(i) /\ Leased(j) /\ job[i].task = job[j].task => WorkerOf[i] = WorkerOf[j]
=============================================================================
