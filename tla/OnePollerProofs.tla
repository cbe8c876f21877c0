--------------------------- MODULE OnePollerProofs ---------------------------
(***************************************************************************)
(* What holds while sendBufferTasks calls do not overlap and nothing is pushed   *)
(* twice: one HTTP task per task, final outcomes, failures for cause, and         *)
(* attempts within maxRetry.                                                  *)
(***************************************************************************)
EXTENDS ExclusionProofs

(***************************************************************************)
(* The conditions: one sendBufferTasks call at a time, no task that is rate-     *)
(* limited, which is sent again by its own request, and none of the faults that   *)
(* send or push a task a second time.                                        *)
(***************************************************************************)
OneSender ==
    /\ \A p, q \in Polls : p = q
    /\ RateLimited = {}
    /\ Faults \cap {"ambiguous", "duplicate", "crash", "resubmit"} = {}

Adding(t) == added[t] \in Early \cup {"send", "reset"}
Polling(t) == \E p \in Polls : poll[p][t] # "none"

(***************************************************************************)
(* Why there is one push. A task has one owner at a time: the addTask call, the   *)
(* poll, the HTTP task or the request; it waits for a poll only while it has       *)
(* none, and has none any more when it is completed.                           *)
(***************************************************************************)
Sole(t) ==
    /\ added[t] \in Early => tasks[t] = NoTask
    /\ Adding(t) => ~Polling(t)
    /\ Adding(t) \/ Polling(t) => ~InService(t)
    /\ cloud[t] \in {0, 1}
    /\ cloud[t] = 1 => \A j \in Jobs : job[j].task # t
    /\ \A i, j \in Jobs : job[i].task = t /\ job[j].task = t => i = j
    /\ tasks[t].status = "idle" => /\ ~Adding(t) /\ ~InService(t)
                                   /\ \A p \in Polls : poll[p][t] \in {"none", "mark"}
    /\ tasks[t].status = "completed" => ~Adding(t) /\ ~Polling(t) /\ ~InService(t)

PushInv == TypeInv /\ NotLimited /\ \A t \in Tasks : Sole(t)

LEMMA PushInvIsEnough == PushInv => OnePush
<1> SUFFICES ASSUME PushInv, NEW t \in Tasks
             PROVE  cloud[t] + Cardinality({j \in Jobs : job[j].task = t}) <= 1
  BY DEF OnePush
<1> DEFINE served == {j \in Jobs : job[j].task = t}
<1>1. Sole(t)
  BY DEF PushInv
<1>2. CASE served = {}
  <2>1. Cardinality(served) = 0
    BY <1>2, FS_EmptySet
  <2> HIDE DEF served
  <2>2. QED
    BY <1>1, <2>1 DEF Sole, served
<1>3. ASSUME NEW j \in Jobs, job[j].task = t
      PROVE  cloud[t] + Cardinality(served) <= 1
  <2>1. served = {j} /\ cloud[t] = 0
    BY <1>1, <1>3 DEF Sole
  <2>2. Cardinality(served) = 1
    BY <2>1, FS_Singleton
  <2> HIDE DEF served
  <2>3. QED
    BY <2>1, <2>2
<1>4. QED
  BY <1>2, <1>3

LEMMA PushContext ==
    ASSUME PushInv
    PROVE  /\ TypeInv /\ TypeOK /\ KeyedAt /\ NotLimited
           /\ TasksOK /\ JobsOK /\ CloudTypeOK /\ ProducerTypeOK
           /\ \A t \in Tasks : Sole(t) /\ t # NoTaskId
BY ConsumerAssumption
   DEF PushInv, TypeInv, TypeOK, StorageTypeOK, ConsumerTypeOK, TasksOK, JobsOK

\* A step that is not about t.
Untouched(t) ==
    /\ tasks'[t] = tasks[t] /\ cloud'[t] = cloud[t]
    /\ added'[t] = added[t] /\ \A p \in Polls : poll'[p][t] = poll[p][t]
    /\ \A j \in Jobs : job'[j] = job[j] \/ (job[j].task # t /\ job'[j].task # t)

LEMMA UntouchedSole ==
    ASSUME NEW t \in Tasks, Sole(t), Untouched(t)
    PROVE  Sole(t)'
BY DEF Sole, Untouched, Adding, Polling, InService

\* Without an ambiguous answer an HTTP task is there if, and only if, it was made.
LEMMA SendOnce ==
    ASSUME OneSender, CloudTypeOK, NEW t \in Tasks,
           NEW outcome \in {"created", "caught", "thrown"}, SendTaskToGcp(t, outcome)
    PROVE  /\ \A u \in Tasks : u # t => cloud'[u] = cloud[u]
           /\ cloud'[t] = IF outcome = "created" THEN cloud[t] + 1 ELSE cloud[t]
<1>1. "ambiguous" \notin Faults
  BY DEF OneSender
<1>2. QED
  BY <1>1 DEF SendTaskToGcp, Fault, Enqueue, CloudTypeOK

\* addTask
LEMMA AddSole ==
    ASSUME PushInv, OneSender, NEW t \in Tasks, UNCHANGED consumerVars,
           AddTask(t) \/ AddSteps(t), NEW u \in Tasks
    PROVE  Sole(u)'
<1>1. /\ TypeOK /\ TasksOK /\ CloudTypeOK /\ ProducerTypeOK /\ Sole(t) /\ Sole(u)
      /\ UNCHANGED job
  BY PushContext DEF consumerVars
<1>2. ProducerEffect(t)
  BY <1>1, AddEffect, AddSendEffect DEF AddSteps
<1>3. UNCHANGED poll
  BY DEF AddTask, AddSteps, AddCheckUniqueness, AddCreate, AddSend, AddReset, AddStep
<1>4. CASE AddTask(t) \/ AddCheckUniqueness(t)
  <2>1. /\ UNCHANGED <<tasks, cloud>> /\ added[t] \in Early
        /\ added'[t] \in {"unique", "create", "skipped"}
    BY <1>1, <1>4 DEF AddTask, AddCheckUniqueness, AddStep, AddStart, ProducerTypeOK,
       storageVars, cloudVars, Early
  <2>2. QED
    BY <1>1, <1>2, <1>3, <2>1, UntouchedSole DEF ProducerEffect, ProducerFrame, Untouched,
       Sole, Adding, Polling, InService, Early
<1>5. CASE AddCreate(t)
  <2> DEFINE status == IF t \in Immediate THEN "active" ELSE "idle"
  <2>1. status \in Status /\ CreateTask(t, status, 0) /\ UNCHANGED cloud
    BY <1>5 DEF AddCreate, Status, cloudVars
  <2>2. OnlyRecordOf(t) /\ tasks'[t].status = status
    BY <1>1, <2>1, CreateTaskEffect
  <2>3. added[t] \in Early /\ added'[t] = IF t \in Immediate THEN "send" ELSE "done"
    BY <1>1, <1>5 DEF AddCreate, AddStep, ProducerTypeOK, Early
  <2>4. CASE u = t
    BY <1>1, <1>3, <2>1, <2>2, <2>3, <2>4 DEF Sole, Adding, Polling, InService, Early
  <2>5. CASE u # t
    BY <1>1, <1>2, <2>1, <2>5, UntouchedSole
       DEF ProducerEffect, ProducerFrame, OnlyRecordOf, Untouched
  <2>6. QED
    BY <2>4, <2>5
<1>6. CASE AddSend(t)
  <2>1. PICK outcome \in {"created", "caught", "thrown"} :
           /\ SendTaskToGcp(t, outcome)
           /\ AddStep(t, "send", CASE outcome = "created" -> "done"
                                   [] outcome = "caught"  -> "reset"
                                   [] outcome = "thrown"  -> "threw")
    BY <1>6 DEF AddSend
  <2>2. /\ \A v \in Tasks : v # t => cloud'[v] = cloud[v]
        /\ cloud'[t] = IF outcome = "created" THEN cloud[t] + 1 ELSE cloud[t]
        /\ UNCHANGED tasks
    BY <1>1, <1>6, <2>1, SendOnce DEF AddSend, storageVars
  <2>3. added[t] = "send" /\ (outcome = "created" => added'[t] = "done")
        /\ added'[t] \in {"done", "reset", "threw"}
    BY <1>1, <2>1 DEF AddStep, ProducerTypeOK
  <2>4. CASE u = t
    BY <1>1, <1>3, <2>2, <2>3, <2>4 DEF Sole, Adding, Polling, InService, Early
  <2>5. CASE u # t
    BY <1>1, <1>2, <2>2, <2>5, UntouchedSole DEF ProducerEffect, ProducerFrame, Untouched
  <2>6. QED
    BY <2>4, <2>5
<1>7. CASE AddReset(t)
  <2>1. /\ OnlyRecordOf(t)
        /\ t \in CustomIds => tasks'[t].status \in {"idle", "absent"}
        /\ t \notin CustomIds => UNCHANGED tasks
        /\ UNCHANGED cloud
    BY <1>1, <1>7, ResetAfterCatchEffect DEF AddReset, ResetAfterCatch, cloudVars
  <2>2. added[t] = "reset" /\ added'[t] = "done"
    BY <1>1, <1>7 DEF AddReset, AddStep, ProducerTypeOK
  <2>3. CASE u = t
    BY <1>1, <1>3, <2>1, <2>2, <2>3 DEF Sole, Adding, Polling, InService, Early
  <2>4. CASE u # t
    BY <1>1, <1>2, <2>1, <2>4, UntouchedSole
       DEF ProducerEffect, ProducerFrame, OnlyRecordOf, Untouched
  <2>5. QED
    BY <2>3, <2>4
<1>8. QED
  BY <1>4, <1>5, <1>6, <1>7 DEF AddSteps

\* A step of sendBufferTasks about t: what it may change, and how.
LEMMA PollMoves ==
    ASSUME PushInv, OneSender, NEW p \in Polls, NEW t \in Tasks,
           PollMark(p, t) \/ PollSend(p, t) \/ PollReset(p, t) \/ PollRevert(p, t)
    PROVE  /\ OnlyRecordOf(t) /\ UNCHANGED added /\ Polling(t)
           /\ \A u \in Tasks : u # t => cloud'[u] = cloud[u]
           /\ tasks'[t].status \in {tasks[t].status, "active", "idle", "absent"}
           /\ \/ poll'[p][t] = "none"
              \/ poll'[p][t] \in {"send", "reset", "revert"} /\ tasks'[t].status # "idle"
           /\ \/ cloud'[t] = cloud[t]
              \/ /\ cloud'[t] = cloud[t] + 1 /\ tasks'[t].status # "idle"
                 /\ poll'[p][t] = "none"
<1>1. /\ TasksOK /\ CloudTypeOK /\ ProducerTypeOK /\ Sole(t)
  BY PushContext
<1>2. ASSUME NEW from \in PollStates \ {"none"}, NEW to \in PollStates,
             PollStep(p, t, from, to)
      PROVE  /\ poll[p][t] = from /\ poll'[p][t] = to
             /\ UNCHANGED added /\ Polling(t)
  BY <1>1, <1>2, PollStepEffect DEF Polling
<1>3. PollStates = {"none", "mark", "send", "reset", "revert"}
  BY DEF PollStates
<1>4. CASE PollMark(p, t)
  <2>1. /\ OnlyRecordOf(t) /\ tasks'[t].status \in {"active", "absent"}
        /\ UNCHANGED cloud
    BY <1>1, <1>4, UpdateTaskStatusEffect DEF PollMark, Status, cloudVars
  <2>2. poll'[p][t] = "send" /\ UNCHANGED added /\ Polling(t)
    BY <1>2, <1>3, <1>4 DEF PollMark
  <2>3. QED
    BY <2>1, <2>2
<1>5. CASE PollSend(p, t)
  <2>1. PICK outcome \in {"created", "caught", "thrown"} :
           /\ SendTaskToGcp(t, outcome)
           /\ PollStep(p, t, "send", CASE outcome = "created" -> "none"
                                       [] outcome = "caught"  -> "reset"
                                       [] outcome = "thrown"  -> "revert")
    BY <1>5 DEF PollSend
  <2>2. /\ \A v \in Tasks : v # t => cloud'[v] = cloud[v]
        /\ cloud'[t] = IF outcome = "created" THEN cloud[t] + 1 ELSE cloud[t]
        /\ UNCHANGED tasks
    BY <1>1, <1>5, <2>1, SendOnce DEF PollSend, storageVars
  <2>3. /\ poll[p][t] = "send" /\ UNCHANGED added /\ Polling(t)
        /\ outcome = "created" => poll'[p][t] = "none"
        /\ outcome # "created" => poll'[p][t] \in {"reset", "revert"}
    BY <1>2, <1>3, <2>1
  <2>4. tasks[t].status # "idle"
    BY <1>1, <2>3 DEF Sole
  <2>5. OnlyRecordOf(t)
    BY <1>1, <2>2, NoRecordChange
  <2>6. CASE outcome = "created"
    BY <2>2, <2>3, <2>4, <2>5, <2>6
  <2>7. CASE outcome # "created"
    BY <2>2, <2>3, <2>4, <2>5, <2>7
  <2>8. QED
    BY <2>6, <2>7
<1>6. CASE PollReset(p, t)
  <2>1. /\ OnlyRecordOf(t)
        /\ t \in CustomIds => tasks'[t].status \in {"idle", "absent"}
        /\ t \notin CustomIds => UNCHANGED tasks
        /\ UNCHANGED cloud
    BY <1>1, <1>6, ResetAfterCatchEffect DEF PollReset, ResetAfterCatch, cloudVars
  <2>2. poll'[p][t] = "none" /\ UNCHANGED added /\ Polling(t)
    BY <1>2, <1>3, <1>6 DEF PollReset
  <2>3. QED
    BY <2>1, <2>2
<1>7. CASE PollRevert(p, t)
  <2>1. /\ OnlyRecordOf(t) /\ tasks'[t].status \in {"idle", "absent"}
        /\ UNCHANGED cloud
    BY <1>1, <1>7, UpdateTaskStatusEffect DEF PollRevert, Status, cloudVars
  <2>2. poll'[p][t] = "none" /\ UNCHANGED added /\ Polling(t)
    BY <1>2, <1>3, <1>7 DEF PollRevert
  <2>3. QED
    BY <2>1, <2>2
<1>8. QED
  BY <1>4, <1>5, <1>6, <1>7

LEMMA PollSole ==
    ASSUME PushInv, OneSender, UNCHANGED consumerVars, NEW p \in Polls, PollSteps(p),
           NEW u \in Tasks
    PROVE  Sole(u)'
<1>1. /\ TypeOK /\ TasksOK /\ CloudTypeOK /\ ProducerTypeOK /\ Sole(u)
      /\ UNCHANGED job /\ \A q \in Polls : q = p
  BY PushContext DEF consumerVars, OneSender
<1>2. ASSUME NEW t \in Tasks,
             PollMark(p, t) \/ PollSend(p, t) \/ PollReset(p, t) \/ PollRevert(p, t)
      PROVE  Sole(u)'
  <2>1. /\ OnlyRecordOf(t) /\ UNCHANGED added /\ Polling(t)
        /\ \A v \in Tasks : v # t => cloud'[v] = cloud[v]
        /\ tasks'[t].status \in {tasks[t].status, "active", "idle", "absent"}
        /\ \/ poll'[p][t] = "none"
           \/ poll'[p][t] \in {"send", "reset", "revert"} /\ tasks'[t].status # "idle"
        /\ \/ cloud'[t] = cloud[t]
           \/ cloud'[t] = cloud[t] + 1 /\ tasks'[t].status # "idle" /\ poll'[p][t] = "none"
    BY <1>2, PollMoves
  <2>2. ProducerEffect(t) /\ Sole(t)
    BY <1>1, <1>2, PushContext, PollEffect
  <2>3. CASE u = t
    <3>1. ~Adding(t) /\ ~InService(t) /\ cloud[t] = 0 /\ tasks[t].status # "completed"
      BY <1>1, <2>1, <2>3 DEF Sole, InService, CloudTypeOK
    <3>2. Polling(t)' <=> poll'[p][t] # "none"
      BY <1>1 DEF Polling
    <3>3. ~Adding(t)' /\ added'[t] \notin Early /\ (InService(t)' <=> cloud'[t] > 0)
      BY <1>1, <2>1, <3>1 DEF Adding, InService
    <3>4. \A j \in Jobs : job'[j].task # t
      BY <1>1, <3>1 DEF InService
    <3>5. QED
      BY <1>1, <2>1, <2>3, <3>1, <3>2, <3>3, <3>4 DEF Sole
  <2>4. CASE u # t
    BY <1>1, <2>1, <2>2, <2>4, UntouchedSole
       DEF ProducerEffect, ProducerFrame, OnlyRecordOf, Untouched
  <2>5. QED
    BY <2>3, <2>4
<1>3. CASE PollFetch(p)
  <2>1. /\ UNCHANGED <<tasks, cloud, added>>
        /\ \A t \in Tasks : poll[p][t] = "none"
        /\ poll'[p][u] \in {"none", "mark"}
        /\ poll'[p][u] = "mark" => tasks[u].status = "idle"
    BY <1>1, <1>3 DEF PollFetch, Idle, ProducerTypeOK, storageVars, cloudVars
  <2>2. QED
    BY <1>1, <2>1 DEF Sole, Adding, Polling, InService
<1>4. QED
  BY <1>2, <1>3 DEF PollSteps

\* What a step of a request does to its task while nothing is rate-limited.
Serves(j) ==
    LET t == job[j].task
    IN  /\ OnlyRecordOf(t)
        /\ \A i \in Jobs : i # j => job'[i] = job[i]
        /\ \A u \in Tasks : u # t => cloud'[u] = cloud[u]
        /\ \/ job'[j].task = t /\ cloud'[t] = cloud[t]
           \/ job'[j] = NoJob /\ cloud'[t] \in {cloud[t], cloud[t] + 1}
        /\ tasks'[t].status = "idle" => tasks[t].status = "idle"
        /\ tasks'[t].status = "completed" =>
              \/ tasks[t].status = "completed"
              \/ job'[j] = NoJob /\ cloud'[t] = cloud[t]

LEMMA NackOnce ==
    ASSUME JobsOK, CloudTypeOK, NEW j \in Jobs, job[j].task \in Tasks,
           Ack(j) \/ Nack(j) \/ Rethrow(j)
    PROVE  /\ \A i \in Jobs : i # j => job'[i] = job[i]
           /\ job'[j] = NoJob
           /\ \A u \in Tasks : u # job[j].task => cloud'[u] = cloud[u]
           /\ cloud'[job[j].task] \in {cloud[job[j].task], cloud[job[j].task] + 1}
           /\ Ack(j) => UNCHANGED cloud
<1>1. /\ \A i \in Jobs : i # j => job'[i] = job[i]
      /\ job'[j] = NoJob
  BY EndHandles
<1>2. UNCHANGED cloud \/ Enqueue(job[j].task)
  BY DEF Ack, Nack, Rethrow
<1>3. QED
  BY <1>1, <1>2 DEF Ack, Enqueue, CloudTypeOK

LEMMA JobServes ==
    ASSUME TypeOK, NotLimited, RateLimited = {}, NEW j \in Jobs, JobStep(j)
    PROVE  Serves(j)
<1> DEFINE t == job[j].task
<1>1. job[j].pc # "none" /\ job[j].pc \notin Limiting \cup {"limit"}
  BY JobStepInService DEF NotLimited
<1>2. t \in Tasks /\ TasksOK /\ JobsOK /\ CloudTypeOK
  BY <1>1, JobContext
<1>3. ~AcquireLock(j) => /\ OnlyRecordOf(t)
                         /\ \A i \in Jobs : i # j => job'[i] = job[i]
                         /\ job'[j] = NoJob \/ job'[j].task = t
  BY JobHandles DEF Handles
<1> HIDE DEF t
<1>4. ASSUME UNCHANGED <<tasks, cloud>>, ~AcquireLock(j)
      PROVE  Serves(j)
  BY <1>3, <1>4 DEF Serves, t
<1>5. ASSUME Ack(j), UNCHANGED tasks, ~AcquireLock(j)
      PROVE  Serves(j)
  BY <1>4, <1>5 DEF Ack
<1>6. ASSUME tasks'[t].status \in {"active", "failed", "absent"}, ~AcquireLock(j),
             Ack(j) \/ Nack(j) \/ Rethrow(j) \/ (job'[j].task = t /\ UNCHANGED cloud)
      PROVE  Serves(j)
  BY <1>2, <1>3, <1>6, NackOnce DEF Serves, t
<1>7. CASE Lookup(j) \/ CheckUniqueness(j) \/ SaveKey(j) \/ UnkeyFailed(j)
              \/ RunHandler(j) \/ RetryLock(j)
  <2>1. UNCHANGED tasks /\ (Ack(j) \/ UNCHANGED cloud) /\ ~AcquireLock(j)
    BY <1>7 DEF Lookup, CheckUniqueness, SaveKey, UnkeyFailed, RunHandler, RetryLock,
                storageVars, cloudVars, AcquireLock, At
  <2>2. QED
    BY <1>4, <1>5, <2>1
<1>8. CASE Activate(j)
  <2>1. tasks'[t].status \in {"active", "absent"} /\ UNCHANGED cloud
    BY <1>2, <1>8, UpdateTaskStatusEffect DEF Activate, Status, cloudVars, t
  <2>2. ~AcquireLock(j) /\ job'[j].task = t
    BY <1>2, <1>8 DEF Activate, AcquireLock, At, JobsOK, JobRecords, t
  <2>3. QED
    BY <1>6, <2>1, <2>2
<1>9. CASE FailDuplicate(j) \/ LockFailed(j) \/ FailAgain(j)
  <2>1. /\ FailTask(t) /\ (Ack(j) \/ Nack(j) \/ Rethrow(j)) /\ ~AcquireLock(j)
    BY <1>9 DEF FailDuplicate, LockFailed, FailAgain, AcquireLock, At, t
  <2>2. QED
    BY <1>2, <1>6, <2>1, FailTaskEffect
<1>10. CASE Fail(j)
  <2>1. FailTask(t) /\ ~AcquireLock(j)
    BY <1>10 DEF Fail, AcquireLock, At, t
  <2>2. Nack(j) \/ \E pc \in {"unkeyFailed", "failAgain"} : Goto(j, pc) /\ UNCHANGED cloud
    BY <1>10 DEF Fail
  <2>3. Nack(j) \/ (job'[j].task = t /\ UNCHANGED cloud)
    BY <1>2, <2>2, GotoHandles DEF t
  <2>4. QED
    BY <1>2, <1>6, <2>1, <2>3, FailTaskEffect
<1>11. CASE Complete(j)
  <2>1. ~AcquireLock(j)
    BY <1>11 DEF Complete, AcquireLock, At
  <2>2. CASE CompleteTaskThrows(t)
    BY <1>4, <1>11, <2>1, <2>2 DEF Complete, t
  <2>3. CASE ~CompleteTaskThrows(t)
    <3>1. Ack(j) /\ CompleteTask(t)
      BY <1>11, <2>3 DEF Complete, t
    <3>2. tasks'[t].status \in {"completed", "absent"} /\ job'[j] = NoJob /\ UNCHANGED cloud
      BY <1>2, <3>1, CompleteTaskEffect, EndHandles DEF Ack
    <3>3. QED
      BY <1>3, <2>1, <3>2 DEF Serves, t
  <2>4. QED
    BY <2>2, <2>3
<1>12. CASE AcquireLock(j)
  <2>1. OnlyRecordOf(t) /\ tasks'[t].status = "active"
    BY <1>2, <1>12, ConsumerAssumption, AcquireTaskLockEffect DEF AcquireLock, t
  <2>2. CASE job[j].read = Missing
    <3>1. Nack(j)
      BY <1>12, <2>2 DEF AcquireLock
    <3>2. QED
      BY <1>2, <2>1, <3>1, NackOnce DEF Serves, t
  <2>3. CASE job[j].read # Missing
    <3>1. UNCHANGED cloud /\ job' = [job EXCEPT ![j].pc = "run", ![j].leased = TRUE]
      BY <1>12, <2>3 DEF AcquireLock
    <3>2. job'[j].task = t /\ \A i \in Jobs : i # j => job'[i] = job[i]
      BY <1>2, <3>1 DEF JobsOK, JobRecords, t
    <3>3. QED
      BY <2>1, <3>1, <3>2 DEF Serves, t
  <2>4. QED
    BY <2>2, <2>3
<1>13. QED
  BY <1>1, <1>7, <1>8, <1>9, <1>10, <1>11, <1>12
     DEF JobStep, At, RateLimit, Unkey, Refetch, Release, UnkeyAgain, GiveUpReEnqueue,
         Reschedule, ReAddCheckUniqueness, ReCreate, ReSend, ReReset, Limiting

LEMMA ConsumerSole ==
    ASSUME PushInv, OneSender, ConsumerNext, NEW u \in Tasks
    PROVE  Sole(u)'
<1>1. /\ TypeInv /\ TypeOK /\ NotLimited /\ TasksOK /\ CloudTypeOK /\ JobsOK /\ Sole(u)
      /\ u # NoTaskId /\ RateLimited = {} /\ UNCHANGED <<added, poll>>
  BY PushContext DEF OneSender, ConsumerNext, producerVars
<1>2. ASSUME NEW j \in Jobs, JobStep(j)
      PROVE  Sole(u)'
  <2> DEFINE t == job[j].task
  <2>1. Serves(j) /\ t \in Tasks
    BY <1>1, <1>2, JobServes, JobStepInService, TaskOfJob
  <2>2. CASE u # t
    <3>1. Untouched(u)
      BY <1>1, <2>1, <2>2 DEF Serves, Untouched, OnlyRecordOf, NoJob
    <3>2. QED
      BY <1>1, <3>1, UntouchedSole
  <2>3. CASE u = t
    <3>1. /\ ~Adding(u) /\ ~Polling(u) /\ cloud[u] = 0 /\ added[u] \notin Early
          /\ tasks[u].status \notin {"idle", "completed"}
          /\ \A i \in Jobs : i # j => job[i].task # u
      BY <1>1, <2>3 DEF Sole, InService, Adding
    <3>2. /\ ~Adding(u)' /\ ~Polling(u)' /\ added'[u] \notin Early
          /\ tasks'[u].status # "idle"
          /\ \A i \in Jobs : i # j => job'[i].task # u
      BY <1>1, <2>1, <2>3, <3>1 DEF Adding, Polling, Serves
    <3>3. \/ job'[j].task = u /\ cloud'[u] = 0
          \/ job'[j].task = NoTaskId /\ cloud'[u] \in {0, 1}
      BY <2>1, <2>3, <3>1 DEF Serves, NoJob
    <3>4. tasks'[u].status = "completed" => job'[j].task = NoTaskId /\ cloud'[u] = 0
      BY <2>1, <2>3, <3>1 DEF Serves, NoJob
    <3>5. QED
      BY <1>1, <3>2, <3>3, <3>4 DEF Sole, InService
  <2>4. QED
    BY <2>2, <2>3
<1>3. ASSUME NEW j \in Jobs, NEW t \in Tasks, Deliver(j, t)
      PROVE  Sole(u)'
  <2>1. /\ \A i \in Jobs : i # j => job'[i] = job[i]
        /\ job[j].task = NoTaskId /\ job'[j].task = t
        /\ \A v \in Tasks : v # t => cloud'[v] = cloud[v]
        /\ UNCHANGED tasks
    BY <1>1, <1>3, DeliverEffect DEF OnlyJob
  <2>2. cloud[t] > 0 /\ cloud'[t] = cloud[t] - 1
    BY <1>1, <1>3 DEF Deliver, Dequeue, CloudTypeOK
  <2>3. CASE u # t
    BY <1>1, <2>1, <2>3, UntouchedSole DEF Untouched
  <2>4. CASE u = t
    <3>1. cloud[u] = 1 /\ cloud'[u] = 0 /\ InService(u)
      BY <1>1, <2>2, <2>4 DEF Sole, InService
    <3>2. QED
      BY <1>1, <2>1, <2>4, <3>1 DEF Sole, Adding, Polling, InService
  <2>5. QED
    BY <2>3, <2>4
<1>4. ASSUME NEW t \in Tasks, DeliverWithoutTaskId(t)
      PROVE  Sole(u)'
  <2>1. /\ UNCHANGED <<tasks, job>>
        /\ \A v \in Tasks : v # t => cloud'[v] = cloud[v]
        /\ cloud[t] > 0 /\ cloud'[t] \in {cloud[t], cloud[t] - 1}
    BY <1>1, <1>4 DEF DeliverWithoutTaskId, Dequeue, CloudTypeOK, storageVars, consumerVars
  <2>2. CASE u # t
    BY <1>1, <2>1, <2>2, UntouchedSole DEF Untouched
  <2>3. CASE u = t
    <3>1. cloud[u] = 1 /\ cloud'[u] \in {0, 1} /\ InService(u)
      BY <1>1, <2>1, <2>3 DEF Sole, InService
    <3>2. QED
      BY <1>1, <2>1, <3>1 DEF Sole, Adding, Polling, InService
  <2>4. QED
    BY <2>2, <2>3
<1>5. QED
  BY <1>2, <1>3, <1>4 DEF ConsumerNext

\* A request that has not moved, although its lease may have run out.
StaysPut(q, n) ==
    /\ n.pc = q.pc /\ n.task = q.task /\ n.read = q.read
    /\ n.tries = q.tries /\ n.threw = q.threw

\* Of the environment only time is left; it makes nobody an owner.
LEMMA TimePasses ==
    ASSUME PushInv, OneSender, EnvironmentNext
    PROVE  /\ UNCHANGED <<cloud, added, poll, failures>>
           /\ \A j \in Jobs : StaysPut(job[j], job'[j])
           /\ \A t \in Tasks :
                 \/ tasks'[t] = NoTask
                 \/ tasks'[t] = tasks[t]
                 \/ /\ tasks[t].lockLive
                    /\ tasks'[t] = [tasks[t] EXCEPT !.lockLive = FALSE]
<1>1. TypeInv /\ TasksOK /\ JobsOK
  BY PushContext
<1>2. ASSUME NEW u \in Tasks, LockExpires(u)
      PROVE  /\ \A j \in Jobs : StaysPut(job[j], job'[j])
             /\ \A t \in Tasks :
                   \/ tasks'[t] = tasks[t]
                   \/ /\ tasks[t].lockLive
                      /\ tasks'[t] = [tasks[t] EXCEPT !.lockLive = FALSE]
  <2>1. ASSUME NEW j \in Jobs
        PROVE  StaysPut(job[j], job'[j])
    <3>1. job[j] \in JobRecords
      BY <1>1 DEF JobsOK
    <3>2. job'[j] \in {job[j], [job[j] EXCEPT !.leased = FALSE]}
      BY <1>2 DEF LockExpires
    <3>3. QED
      BY <3>1, <3>2 DEF JobRecords, StaysPut
  <2>2. ASSUME NEW t \in Tasks
        PROVE  \/ tasks'[t] = tasks[t]
               \/ /\ tasks[t].lockLive
                  /\ tasks'[t] = [tasks[t] EXCEPT !.lockLive = FALSE]
    <3>1. tasks[u].lockLive /\ tasks' = [tasks EXCEPT ![u].lockLive = FALSE]
      BY <1>2 DEF LockExpires
    <3>2. QED
      BY <1>1, <3>1 DEF TasksOK
  <2>3. QED
    BY <2>1, <2>2
<1>3. \A u \in Tasks : ~PushAgain(u)
  BY DEF OneSender, PushAgain, Fault
<1>4. \A w \in Workers : ~Crash(w)
  BY DEF OneSender, Crash, Fault
<1>5. CASE \E u \in Tasks : LockExpires(u)
  BY <1>2, <1>5 DEF LockExpires, cloudVars, producerVars
<1>6. CASE \E u \in Tasks : RecordExpires(u)
  BY <1>1, <1>6 DEF RecordExpires, cloudVars, producerVars, consumerVars, StaysPut
<1>7. QED
  BY <1>3, <1>4, <1>5, <1>6 DEF EnvironmentNext

LEMMA NoAddTaskAgain ==
    ASSUME OneSender, NEW t \in Tasks
    PROVE  ~AddTaskAgain(t)
BY DEF OneSender, AddTaskAgain, Fault

LEMMA PushInvInit == Init => PushInv
<1> SUFFICES ASSUME Init PROVE PushInv
  OBVIOUS
<1>1. NotLimited
  BY DEF Init, ConsumerInit, NoJob, NotLimited, Limiting
<1>2. ASSUME NEW t \in Tasks
      PROVE  Sole(t)
  BY ConsumerAssumption DEF Init, StorageInit, CloudInit, ProducerInit, ConsumerInit,
     NoJob, NoTask, Sole, Polling, InService
<1>3. QED
  BY <1>1, <1>2, TypeInvInit DEF PushInv

LEMMA PushInvStep ==
    ASSUME OneSender
    PROVE  PushInv /\ [Next]_vars => PushInv'
<1> SUFFICES ASSUME PushInv, [Next]_vars PROVE PushInv'
  OBVIOUS
<1>1. TypeInv' /\ TypeInv /\ NotLimited /\ RateLimited = {}
  BY TypeInvStep DEF PushInv, OneSender
<1>2. CASE ProducerNext
  <2>1. NotLimited' /\ UNCHANGED consumerVars
    BY <1>1, <1>2 DEF NotLimited, ProducerNext, consumerVars
  <2>2. \A u \in Tasks : Sole(u)'
    BY <1>2, <2>1, AddSole, PollSole, NoAddTaskAgain DEF ProducerNext
  <2>3. QED
    BY <1>1, <2>1, <2>2 DEF PushInv
<1>3. CASE ConsumerNext
  <2>1. NotLimited'
    <3>1. ASSUME NEW j \in Jobs, NEW t \in Tasks, Deliver(j, t)
          PROVE  NotLimited'
      BY <1>1, <3>1, DeliverEffect DEF OnlyJob, NotLimited, Limiting
    <3>2. ASSUME NEW t \in Tasks, DeliverWithoutTaskId(t)
          PROVE  NotLimited'
      BY <1>1, <3>2 DEF DeliverWithoutTaskId, consumerVars, NotLimited
    <3>3. QED
      BY <1>1, <1>3, <3>1, <3>2, NotLimitedStep DEF ConsumerNext
  <2>2. QED
    BY <1>1, <1>3, <2>1, ConsumerSole DEF PushInv
<1>4. CASE EnvironmentNext
  <2>1. NotLimited'
    BY <1>1, <1>4, TimePasses DEF NotLimited, StaysPut
  <2>2. ASSUME NEW u \in Tasks
        PROVE  Sole(u)'
    <3>1. Sole(u) /\ tasks[u] \in TaskRecords
      BY PushContext DEF TasksOK
    <3>2. /\ tasks'[u].status \in {tasks[u].status, "absent"}
          /\ tasks[u] = NoTask => tasks'[u] = NoTask
      <4>1. NoTask.status = "absent" /\ ~NoTask.lockLive
        BY DEF NoTask
      <4>2. \/ tasks'[u] = NoTask
            \/ tasks'[u] = tasks[u]
            \/ tasks[u].lockLive /\ tasks'[u] = [tasks[u] EXCEPT !.lockLive = FALSE]
        BY <1>4, TimePasses
      <4>3. [tasks[u] EXCEPT !.lockLive = FALSE].status = tasks[u].status
        BY <3>1 DEF TaskRecords
      <4>4. QED
        BY <4>1, <4>2, <4>3
    <3>3. QED
      BY <1>4, <3>1, <3>2, TimePasses DEF Sole, Adding, Polling, InService, StaysPut
  <2>3. QED
    BY <1>1, <2>1, <2>2 DEF PushInv
<1>5. CASE UNCHANGED vars
  BY <1>1, <1>5 DEF PushInv, NotLimited, Sole, Adding, Polling, InService, vars,
                    storageVars, cloudVars, producerVars, consumerVars
<1>6. QED
  BY <1>2, <1>3, <1>4, <1>5 DEF Next

(***************************************************************************)
(* Every task has at most one HTTP task, waiting or being served, through       *)
(* retries, failing sends and expiring locks, for either adapter and any number   *)
(* of tasks, instances and requests in service, as long as nobody sends twice.    *)
(***************************************************************************)
THEOREM OnePushHolds ==
    ASSUME OneSender
    PROVE  Spec => []OnePush
BY PushInvInit, PushInvStep, PushInvIsEnough, PTL DEF Spec

\* Nobody is left who could write to the record of a completed task.
LEMMA CompletedStep ==
    ASSUME OneSender, PushInv, [Next]_vars, NEW t \in Tasks, tasks[t].status = "completed"
    PROVE  tasks'[t].status \in {"completed", "absent"}
<1>1. /\ TypeInv /\ TypeOK /\ NotLimited /\ JobsOK /\ RateLimited = {}
      /\ ~Adding(t) /\ ~Polling(t) /\ ~InService(t)
  BY PushContext DEF Sole, OneSender
<1>2. ASSUME NEW u \in Tasks, u # t, OnlyRecordOf(u)
      PROVE  tasks'[t] = tasks[t]
  BY <1>2 DEF OnlyRecordOf
<1>3. CASE ProducerNext
  <2>1. UNCHANGED consumerVars
    BY <1>3 DEF ProducerNext
  <2>2. ASSUME NEW u \in Tasks, AddTask(u) \/ AddSteps(u)
        PROVE  tasks'[t] = tasks[t]
    <3>1. u # t
      BY <1>1, <2>2 DEF AddTask, AddSteps, AddCheckUniqueness, AddCreate, AddSend,
         AddReset, AddStep, Adding, Early
    <3>2. ProducerEffect(u)
      BY <1>1, <2>1, <2>2, AddEffect, AddSendEffect DEF AddSteps
    <3>3. QED
      BY <1>2, <3>1, <3>2 DEF ProducerEffect, ProducerFrame
  <2>3. ASSUME NEW p \in Polls, PollSteps(p)
        PROVE  tasks'[t] = tasks[t]
    <3>1. CASE PollFetch(p)
      BY <3>1 DEF PollFetch, storageVars
    <3>2. ASSUME NEW u \in Tasks,
                 PollMark(p, u) \/ PollSend(p, u) \/ PollReset(p, u) \/ PollRevert(p, u)
          PROVE  tasks'[t] = tasks[t]
      <4>1. OnlyRecordOf(u) /\ Polling(u)
        BY <3>2, PollMoves
      <4>2. QED
        BY <1>1, <1>2, <4>1
    <3>3. QED
      BY <2>3, <3>1, <3>2 DEF PollSteps
  <2>4. QED
    BY <1>3, <2>2, <2>3, NoAddTaskAgain DEF ProducerNext
<1>4. CASE ConsumerNext
  <2>1. ASSUME NEW j \in Jobs, JobStep(j)
        PROVE  tasks'[t] = tasks[t]
    <3>1. Serves(j) /\ job[j].task \in Tasks
      BY <1>1, <2>1, JobServes, JobStepInService, TaskOfJob
    <3>2. job[j].task # t
      BY <1>1 DEF InService
    <3>3. QED
      BY <1>2, <3>1, <3>2 DEF Serves
  <2>2. QED
    BY <1>4, <2>1 DEF ConsumerNext, Deliver, DeliverWithoutTaskId, storageVars
<1>5. CASE EnvironmentNext
  <2>1. tasks[t] \in TaskRecords
    BY PushContext DEF TasksOK
  <2>2. [tasks[t] EXCEPT !.lockLive = FALSE].status = "completed"
    BY <2>1 DEF TaskRecords
  <2>3. NoTask.status = "absent"
    BY DEF NoTask
  <2>4. \/ tasks'[t] = NoTask
        \/ tasks'[t] = tasks[t]
        \/ tasks'[t] = [tasks[t] EXCEPT !.lockLive = FALSE]
    BY <1>5, TimePasses
  <2>5. QED
    BY <2>2, <2>3, <2>4
<1>6. CASE UNCHANGED vars
  BY <1>6 DEF vars, storageVars
<1>7. QED
  BY <1>3, <1>4, <1>5, <1>6 DEF Next

(***************************************************************************)
(* A completed task stays completed until its record is removed, under the      *)
(* conditions of one sender: no poll that fetched it earlier, no second push and  *)
(* no late failTask reaches it.                                             *)
(***************************************************************************)
THEOREM CompletedStaysFinal ==
    ASSUME OneSender
    PROVE  Spec => CompletedFinal
<1>1. PushInv /\ [Next]_vars =>
        [\A t \in Tasks : tasks[t].status = "completed"
                             => tasks'[t].status \in {"completed", "absent"}]_vars
  BY CompletedStep
<1>2. QED
  BY <1>1, PushInvInit, PushInvStep, PTL DEF Spec, CompletedFinal

-----------------------------------------------------------------------------
(* What addTask and sendBufferTasks write, in one statement. *)

\* Whoever is still to have t pushed, or to fetch it.
Pending(t) == Adding(t) \/ Polling(t) \/ cloud[t] = 1 \/ tasks[t].status = "idle"

\* A record that is still there was there, with the same lock and counter.
KeepsFields(t) ==
    Exists(tasks'[t]) => /\ Exists(tasks[t])
                         /\ tasks'[t].lockedBy = tasks[t].lockedBy
                         /\ tasks'[t].lockLive = tasks[t].lockLive
                         /\ tasks'[t].retryCount = tasks[t].retryCount

\* addTask's record starts with no lock and no failed attempt.
Creates(t) ==
    /\ added[t] \in Early
    /\ ~tasks'[t].lockLive /\ tasks'[t].retryCount = 0

Writes(t) ==
    /\ Adding(t) \/ Polling(t)
    /\ tasks'[t].status \in {"active", "idle", "absent"}
    /\ Creates(t) \/ KeepsFields(t)

LEMMA UpdateKeepsFields ==
    ASSUME TasksOK, NEW t \in Tasks, NEW status \in Status, UpdateTaskStatus(t, status)
    PROVE  KeepsFields(t) /\ tasks'[t].status \in {status, "absent"}
<1>1. tasks[t] \in TaskRecords
  BY DEF TasksOK
<1>2. tasks'[t] = IF Exists(tasks[t])
                  THEN [tasks[t] EXCEPT !.status = status,
                                        !.retryCount = tasks[t].retryCount,
                                        !.reEnqueues = tasks[t].reEnqueues]
                  ELSE tasks[t]
  BY DEF TasksOK, UpdateTaskStatus, UpdateTask
<1>3. QED
  BY <1>1, <1>2 DEF KeepsFields, TaskRecords, Exists

LEMMA ResetKeepsFields ==
    ASSUME TasksOK, NEW t \in Tasks, ResetAfterCatch(t)
    PROVE  \/ tasks'[t] = tasks[t]
           \/ KeepsFields(t) /\ tasks'[t].status \in {"idle", "absent"}
<1>1. CASE t \in CustomIds
  BY <1>1, UpdateKeepsFields DEF ResetAfterCatch, Status
<1>2. CASE t \notin CustomIds
  BY <1>2 DEF ResetAfterCatch
<1>3. QED
  BY <1>1, <1>2

LEMMA CreateIsFresh ==
    ASSUME TasksOK, NEW t \in Tasks, tasks[t] = NoTask, NEW status \in Status,
           CreateTask(t, status, 0)
    PROVE  ~tasks'[t].lockLive /\ tasks'[t].retryCount = 0 /\ tasks'[t].status = status
<1>1. tasks'[t] \in {Memory!CreateTask(NoTask, status, 0), Mongo!CreateTask(NoTask, status, 0)}
  BY DEF TasksOK, CreateTask
<1>2. QED
  BY <1>1 DEF Memory!CreateTask, Mongo!CreateTask, Memory!NoTask, NoTask

\* addTask
LEMMA AddWrites ==
    ASSUME PushInv, OneSender, UNCHANGED consumerVars, NEW t \in Tasks,
           AddTask(t) \/ AddSteps(t)
    PROVE  /\ Adding(t)
           /\ added'[t] \in Early => added[t] \in Early
           /\ tasks'[t] = tasks[t] \/ Writes(t)
<1>1. /\ TypeOK /\ TasksOK /\ CloudTypeOK /\ ProducerTypeOK /\ Sole(t)
  BY PushContext
<1>2. Adding(t) /\ (added'[t] \in Early => added[t] \in Early)
  <2>1. CASE AddTask(t) \/ AddCheckUniqueness(t) \/ AddCreate(t)
    BY <2>1 DEF AddTask, AddCheckUniqueness, AddCreate, AddStep, Adding, Early
  <2>2. CASE AddSend(t)
    <3>1. PICK outcome \in {"created", "caught", "thrown"} :
             AddStep(t, "send", CASE outcome = "created" -> "done"
                                  [] outcome = "caught"  -> "reset"
                                  [] outcome = "thrown"  -> "threw")
      BY <2>2 DEF AddSend
    <3>2. added[t] = "send" /\ added'[t] \in {"done", "reset", "threw"}
      BY <1>1, <3>1 DEF AddStep, ProducerTypeOK
    <3>3. QED
      BY <3>2 DEF Adding, Early
  <2>3. CASE AddReset(t)
    BY <1>1, <2>3 DEF AddReset, AddStep, Adding, Early, ProducerTypeOK
  <2>4. QED
    BY <2>1, <2>2, <2>3 DEF AddSteps
<1>3. CASE AddTask(t) \/ AddCheckUniqueness(t) \/ AddSend(t)
  BY <1>2, <1>3 DEF AddTask, AddCheckUniqueness, AddSend, storageVars
<1>4. CASE AddCreate(t)
  <2> DEFINE status == IF t \in Immediate THEN "active" ELSE "idle"
  <2>1. CreateTask(t, status, 0) /\ status \in Status /\ added[t] \in Early
    BY <1>4 DEF AddCreate, AddStep, Status, Early
  <2>2. tasks[t] = NoTask
    BY <1>1, <2>1 DEF Sole
  <2>3. /\ ~tasks'[t].lockLive /\ tasks'[t].retryCount = 0
        /\ tasks'[t].status \in {"active", "idle"}
    BY <1>1, <2>1, <2>2, CreateIsFresh
  <2>4. QED
    BY <1>2, <2>1, <2>3 DEF Writes, Creates
<1>5. CASE AddReset(t)
  BY <1>1, <1>2, <1>5, ResetKeepsFields DEF AddReset, Writes
<1>6. QED
  BY <1>2, <1>3, <1>4, <1>5 DEF AddSteps

LEMMA PollWrites ==
    ASSUME PushInv, OneSender, NEW p \in Polls, NEW t \in Tasks,
           PollMark(p, t) \/ PollSend(p, t) \/ PollReset(p, t) \/ PollRevert(p, t)
    PROVE  tasks'[t] = tasks[t] \/ Writes(t)
<1>1. TasksOK /\ Polling(t) /\ {"active", "idle"} \subseteq Status
  BY PushContext, PollMoves DEF Status
<1>2. CASE PollMark(p, t)
  BY <1>1, <1>2, UpdateKeepsFields DEF PollMark, Writes
<1>3. CASE PollSend(p, t)
  BY <1>3 DEF PollSend, storageVars
<1>4. CASE PollReset(p, t)
  BY <1>1, <1>4, ResetKeepsFields DEF PollReset, Writes
<1>5. CASE PollRevert(p, t)
  BY <1>1, <1>5, UpdateKeepsFields DEF PollRevert, Writes
<1>6. QED
  BY <1>2, <1>3, <1>4, <1>5

\* The producer as a whole, for any task.
LEMMA ProducerWrites ==
    ASSUME PushInv, OneSender, ProducerNext, NEW u \in Tasks
    PROVE  /\ tasks'[u] = tasks[u] \/ Writes(u)
           /\ Pending(u)' => Pending(u)
           /\ added'[u] \in Early => added[u] \in Early
           /\ UNCHANGED <<job, failures>>
<1>1. /\ TypeOK /\ TasksOK /\ CloudTypeOK /\ ProducerTypeOK /\ Sole(u)
      /\ UNCHANGED consumerVars /\ UNCHANGED <<job, failures>>
  BY PushContext DEF ProducerNext, consumerVars
<1>2. ASSUME NEW t \in Tasks, AddTask(t) \/ AddSteps(t)
      PROVE  /\ tasks'[u] = tasks[u] \/ Writes(u)
             /\ Pending(u)' => Pending(u)
             /\ added'[u] \in Early => added[u] \in Early
  <2>1. ProducerEffect(t)
    BY <1>1, <1>2, AddEffect, AddSendEffect DEF AddSteps
  <2>2. CASE u = t
    BY <1>1, <1>2, <2>2, AddWrites DEF Pending
  <2>3. CASE u # t
    <3>1. cloud'[u] = cloud[u]
      <4>1. CASE AddSend(t)
        BY <1>1, <2>3, <4>1, SendOnce DEF AddSend
      <4>2. CASE ~AddSend(t)
        BY <1>2, <4>2 DEF AddTask, AddSteps, AddCheckUniqueness, AddCreate, AddReset,
                          cloudVars
      <4>3. QED
        BY <4>1, <4>2
    <3>2. QED
      BY <2>1, <2>3, <3>1 DEF ProducerEffect, ProducerFrame, OnlyRecordOf, Pending,
                              Adding, Polling
  <2>4. QED
    BY <2>2, <2>3
<1>3. ASSUME NEW p \in Polls, PollSteps(p)
      PROVE  /\ tasks'[u] = tasks[u] \/ Writes(u)
             /\ Pending(u)' => Pending(u)
             /\ added'[u] \in Early => added[u] \in Early
  <2>1. CASE PollFetch(p)
    <3>1. /\ UNCHANGED <<tasks, cloud, added>>
          /\ poll'[p][u] = "mark" => tasks[u].status = "idle"
          /\ poll'[p][u] \in {"none", "mark"}
          /\ \A q \in Polls : q # p => poll'[q][u] = poll[q][u]
      BY <1>1, <2>1 DEF PollFetch, Idle, ProducerTypeOK, storageVars, cloudVars
    <3>2. QED
      BY <3>1 DEF Pending, Adding, Polling
  <2>2. ASSUME NEW t \in Tasks,
               PollMark(p, t) \/ PollSend(p, t) \/ PollReset(p, t) \/ PollRevert(p, t)
        PROVE  /\ tasks'[u] = tasks[u] \/ Writes(u)
               /\ Pending(u)' => Pending(u)
               /\ added'[u] \in Early => added[u] \in Early
    <3>1. /\ OnlyRecordOf(t) /\ UNCHANGED added /\ Polling(t) /\ ProducerEffect(t)
          /\ \A v \in Tasks : v # t => cloud'[v] = cloud[v]
      BY <1>1, <2>2, PollMoves, PollEffect, PushContext
    <3>2. CASE u = t
      BY <2>2, <3>1, <3>2, PollWrites DEF Pending
    <3>3. CASE u # t
      BY <3>1, <3>3 DEF ProducerEffect, ProducerFrame, OnlyRecordOf, Pending, Adding,
                        Polling
    <3>4. QED
      BY <3>2, <3>3
  <2>3. QED
    BY <1>3, <2>1, <2>2 DEF PollSteps
<1>4. QED
  BY <1>1, <1>2, <1>3, NoAddTaskAgain DEF ProducerNext

-----------------------------------------------------------------------------
(* A record becomes FAILED for cause. *)

(***************************************************************************)
(* What is so of the record r of a task, of the request q that serves it (NoJob if *)
(* there is none), of that request's worker w and of the f failures so far. A      *)
(* live lock is a running request's, or was left by an attempt that has failed; a  *)
(* request that has been refused the lock has met such a one, of another worker;   *)
(* and one that calls failTask has seen its handler throw, or there is no record.  *)
(***************************************************************************)
CausedWith(r, q, w, f) ==
    /\ Exists(r) =>
          /\ r.lockLive => /\ r.lockedBy # Nobody
                           /\ \/ r.status = "completed"
                              \/ q.pc \in {"run", "complete"}
                              \/ f > 0
          /\ q.pc = "lockFailed" \/ (q.pc = "lock" /\ q.tries > 0)
                => r.lockedBy \notin {Nobody, w} /\ f > 0
          /\ q.pc = "lock" => r.status = "active" /\ q.read # Missing
          /\ q.pc \in {"fail", "failAgain"} => q.threw # "nothing"
    /\ q.pc \in {"lookup", "activate"} => q.tries = 0
    /\ q.pc \notin {"unique", "save", "duplicate", "unkeyFailed"}

Caused(t) ==
    /\ \A j \in Jobs : job[j].task = t
          => CausedWith(tasks[t], job[j], WorkerOf[j], failures[t])
    /\ (\A j \in Jobs : job[j].task # t)
          => CausedWith(tasks[t], NoJob, Nobody, failures[t])

CausedInv == PushInv /\ \A t \in Tasks : Caused(t)

LEMMA GotoKeeps ==
    ASSUME JobsOK, NEW j \in Jobs, NEW pc, Goto(j, pc)
    PROVE  /\ job'[j].pc = pc /\ job'[j].read = job[j].read
           /\ job'[j].tries = job[j].tries /\ job'[j].threw = job[j].threw
BY DEF Goto, JobsOK, JobRecords

LEMMA FailTaskOfMissing ==
    ASSUME TasksOK, NEW t \in Tasks, ~Exists(tasks[t]), FailTask(t)
    PROVE  tasks'[t] = tasks[t]
BY DEF TasksOK, FailTask, Memory!FailTask, Mongo!FailTask, Memory!Exists, Mongo!Exists,
       Exists

\* A task that no request serves any more.
LEMMA CausedAtRest ==
    ASSUME NEW r, NEW w, NEW f,
           Exists(r) /\ r.lockLive => r.lockedBy # Nobody /\ (r.status = "completed" \/ f > 0)
    PROVE  CausedWith(r, NoJob, w, f)
BY DEF CausedWith, NoJob

\* What a step of the request that serves t makes of it and of the record.
LEMMA CausedJob ==
    ASSUME PushInv, OneSender, NEW j \in Jobs, JobStep(j), ~Unique(job[j].task),
           CausedWith(tasks[job[j].task], job[j], WorkerOf[j], failures[job[j].task])
    PROVE  CausedWith(tasks'[job[j].task], job'[j], WorkerOf[j],
                      failures'[job[j].task])
<1> DEFINE t == job[j].task
           r == tasks[t]
           w == WorkerOf[j]
           f == failures[t]
<1>1. /\ TypeOK /\ TasksOK /\ JobsOK /\ NotLimited /\ RateLimited = {}
      /\ t \in Tasks /\ job[j].pc # "none" /\ w \in Workers
      /\ failures \in [Tasks -> Nat]
  BY PushContext, JobStepInService, TaskOfJob, ConsumerAssumption
     DEF OneSender, TypeOK, ConsumerTypeOK
<1>2. /\ r \in TaskRecords /\ r.status # "completed"
      /\ job[j] \in JobRecords /\ f \in Nat /\ w # Nobody
  BY <1>1, PushContext, StorageAssumption DEF Sole, InService, TasksOK, JobsOK
<1>3. job[j].pc \notin {"unique", "save", "duplicate", "unkeyFailed", "limit"} \cup Limiting
  BY <1>1 DEF CausedWith, NotLimited
<1>4. AfterUniqueness(t) = "lock"
  BY <1>1 DEF AfterUniqueness
<1>5. ~AcquireLock(j) => StaysLocked(t)
  BY <1>1, JobHandles DEF Handles
<1> HIDE DEF t, w
<1>6. CASE Lookup(j)
  <2>1. tasks'[t] = r /\ failures' = failures /\ job[j].pc = "lookup"
    BY <1>6 DEF Lookup, At, storageVars
  <2>2. CASE Goto(j, "activate")
    BY <1>1, <2>1, <2>2, GotoKeeps DEF CausedWith, t, w
  <2>3. CASE Ack(j)
    <3>1. job'[j] = NoJob
      BY <1>1, <2>3, EndHandles
    <3>2. QED
      BY <2>1, <3>1, CausedAtRest DEF CausedWith, t, w
  <2>4. QED
    BY <1>6, <2>2, <2>3 DEF Lookup
<1>7. CASE Activate(j)
  <2>1. /\ job[j].pc = "activate" /\ UpdateTaskStatus(t, "active") /\ "active" \in Status
        /\ failures' = failures /\ ~AcquireLock(j)
    BY <1>7 DEF Activate, AcquireLock, At, Status, t
  <2>2. tasks'[t].status \in {"active", "absent"} /\ StaysLocked(t)
    BY <1>1, <1>5, <2>1, UpdateTaskStatusEffect
  <2> DEFINE read == IF Exists(r) THEN r.retryCount ELSE Missing
  <2>3. read = Missing => ~Exists(r)
    BY <1>2 DEF Missing, TaskRecords
  <2>4. job' = [job EXCEPT ![j].pc = "lock", ![j].read = read]
    BY <1>4, <1>7 DEF Activate, t
  <2> HIDE DEF read
  <2>5. job'[j].pc = "lock" /\ job'[j].read = read /\ job'[j].tries = job[j].tries
    BY <1>1, <2>4 DEF JobsOK, JobRecords
  <2>6. job[j].tries = 0
    BY <2>1 DEF CausedWith
  <2>7. Exists(r) /\ r.lockLive => r.lockedBy # Nobody /\ f > 0
    BY <1>2, <2>1 DEF CausedWith, t
  <2>8. ~(job'[j].tries > 0)
    BY <2>5, <2>6
  <2>9. QED
    BY <2>1, <2>2, <2>3, <2>5, <2>7, <2>8 DEF CausedWith, StaysLocked, KeepsLock, Exists, t, w
<1>8. CASE RetryLock(j)
  <2>1. /\ job[j].pc = "lock" /\ ~CanAcquireTaskLock(t, w) /\ tasks'[t] = r
        /\ failures' = failures
    BY <1>8 DEF RetryLock, At, storageVars, t, w
  <2>2. Exists(r) => r.status = "active" /\ job[j].read # Missing
    BY <2>1 DEF CausedWith, t
  <2>3. Exists(r) => r.lockLive /\ r.lockedBy # w
    BY <2>1, <2>2 DEF CanAcquireTaskLock, Memory!CanAcquireTaskLock,
       Mongo!CanAcquireTaskLock, Memory!Exists, Mongo!Exists, Exists
  <2>4. Exists(r) => r.lockedBy # Nobody /\ f > 0
    BY <2>1, <2>2, <2>3 DEF CausedWith, t
  <2> DEFINE pc == IF job[j].tries + 1 < MaxLockRetries THEN "lock" ELSE "lockFailed"
             n == job[j].tries + 1
  <2>5. job' = [job EXCEPT ![j].tries = n, ![j].pc = pc] /\ pc \in {"lock", "lockFailed"}
    BY <1>8 DEF RetryLock
  <2> HIDE DEF pc, n
  <2>6. job'[j].pc \in {"lock", "lockFailed"} /\ job'[j].read = job[j].read
    BY <1>1, <2>5 DEF JobsOK, JobRecords
  <2>7. QED
    BY <2>1, <2>2, <2>3, <2>4, <2>6 DEF CausedWith, t, w
<1>9. CASE AcquireLock(j)
  <2>1. /\ tasks'[t].status = "active" /\ tasks'[t].lockedBy = w /\ Exists(r)
        /\ job[j].pc = "lock" /\ failures' = failures
    BY <1>1, <1>9, AcquireTaskLockEffect DEF AcquireLock, At, t, w
  <2>2. job[j].read # Missing
    BY <2>1 DEF CausedWith, t
  <2>3. job' = [job EXCEPT ![j].pc = "run", ![j].leased = TRUE]
    BY <1>9, <2>2 DEF AcquireLock
  <2>4. job'[j].pc = "run"
    BY <1>1, <2>3 DEF JobsOK, JobRecords
  <2>5. QED
    BY <1>2, <2>1, <2>4 DEF CausedWith, t, w
<1>10. CASE RunHandler(j)
  <2>1. job[j].pc = "run" /\ tasks'[t] = r
    BY <1>10 DEF RunHandler, At, storageVars
  <2>2. Exists(r) /\ r.lockLive => r.lockedBy # Nobody
    BY <2>1 DEF CausedWith, t
  <2>3. CASE Goto(j, "complete")
    BY <1>1, <2>1, <2>2, <2>3, GotoKeeps DEF CausedWith, t
  <2>4. CASE /\ \E error \in {"error", "httpError"} :
                   job' = [job EXCEPT ![j].pc = "fail", ![j].threw = error]
             /\ failures' = [failures EXCEPT ![t] = @ + 1]
    <3>1. job'[j].pc = "fail" /\ job'[j].threw # "nothing"
      BY <1>1, <2>4 DEF JobsOK, JobRecords
    <3>2. failures'[t] > 0
      BY <1>1, <1>2, <2>4
    <3>3. QED
      BY <2>1, <2>2, <3>1, <3>2 DEF CausedWith, t
  <2>5. QED
    BY <1>10, <2>3, <2>4 DEF RunHandler, t
<1>11. CASE Complete(j)
  <2>1. CASE CompleteTaskThrows(t)
    <3>1. ~Exists(r)
      BY <2>1 DEF CompleteTaskThrows, Memory!CompleteTaskThrows,
         Mongo!CompleteTaskThrows, Memory!Exists, Mongo!Exists, Exists
    <3>2. tasks'[t] = r /\ job'[j].pc = "fail"
      BY <1>1, <1>11, <2>1, GotoKeeps DEF Complete, t
    <3>3. QED
      BY <3>1, <3>2 DEF CausedWith, t
  <2>2. CASE ~CompleteTaskThrows(t)
    <3>1. CompleteTask(t) /\ Ack(j) /\ job[j].pc = "complete" /\ ~AcquireLock(j)
      BY <1>11, <2>2 DEF Complete, AcquireLock, At, t
    <3>2. /\ tasks'[t].status \in {"completed", "absent"} /\ job'[j] = NoJob
          /\ StaysLocked(t)
      BY <1>1, <1>5, <3>1, CompleteTaskEffect, EndHandles
    <3>3. Exists(r) /\ r.lockLive => r.lockedBy # Nobody
      BY <3>1 DEF CausedWith, t
    <3>4. QED
      BY <3>2, <3>3, CausedAtRest DEF StaysLocked, KeepsLock, Exists, t
  <2>3. QED
    BY <2>1, <2>2
<1>12. CASE LockFailed(j) \/ Fail(j) \/ FailAgain(j)
  <2>1. /\ job[j].pc \in {"lockFailed", "fail", "failAgain"} /\ FailTask(t)
        /\ failures' = failures
    BY <1>12 DEF LockFailed, Fail, FailAgain, At, t
  <2>2. StaysLocked(t)
    BY <1>1, <2>1, FailTaskStaysLocked
  <2>3. Exists(r) /\ r.lockLive => r.lockedBy # Nobody /\ f > 0
    BY <1>2, <2>1 DEF CausedWith, t
  <2>4. \/ Ack(j) \/ Nack(j) \/ Rethrow(j)
        \/ job[j].pc = "fail" /\ Goto(j, "failAgain")
    BY <1>12 DEF LockFailed, Fail, FailAgain, At, t
  <2>5. CASE Goto(j, "failAgain") /\ job[j].pc = "fail"
    BY <1>1, <2>1, <2>2, <2>3, <2>5, GotoKeeps DEF CausedWith, StaysLocked, KeepsLock, t
  <2>6. CASE Ack(j) \/ Nack(j) \/ Rethrow(j)
    <3>1. job'[j] = NoJob
      BY <1>1, <2>6, EndHandles
    <3>2. QED
      BY <2>1, <2>2, <2>3, <3>1, CausedAtRest DEF StaysLocked, KeepsLock, t
  <2>7. QED
    BY <2>4, <2>5, <2>6
<1>13. QED
  BY <1>3, <1>6, <1>7, <1>8, <1>9, <1>10, <1>11, <1>12
     DEF JobStep, At, CheckUniqueness, SaveKey, FailDuplicate, UnkeyFailed, RateLimit,
         Unkey, Refetch, Release, UnkeyAgain, GiveUpReEnqueue, Reschedule,
         ReAddCheckUniqueness, ReCreate, ReSend, ReReset, Limiting

\* A step of a request leaves the failures of the other tasks.
LEMMA JobCounters ==
    ASSUME TypeOK, NEW j \in Jobs, job[j].task \in Tasks, JobStep(j)
    PROVE  \A u \in Tasks : u # job[j].task => failures'[u] = failures[u]
<1>1. failures \in [Tasks -> Nat]
  BY DEF TypeOK, ConsumerTypeOK
<1>2. UNCHANGED failures \/ RunHandler(j)
  BY DEF JobStep, Lookup, Activate, CheckUniqueness, SaveKey, FailDuplicate, RateLimit,
     Unkey, Refetch, Release, UnkeyAgain, GiveUpReEnqueue, Reschedule,
     ReAddCheckUniqueness, ReCreate, ReSend, ReReset, AcquireLock, RetryLock,
     LockFailed, Complete, Fail, UnkeyFailed, FailAgain
<1>3. CASE RunHandler(j)
  BY <1>1, <1>3 DEF RunHandler
<1>4. QED
  BY <1>2, <1>3

LEMMA CausedInit == Init => CausedInv
<1> SUFFICES ASSUME Init PROVE CausedInv
  OBVIOUS
<1>1. ASSUME NEW t \in Tasks
      PROVE  Caused(t)
  <2>1. ~Exists(NoTask)
    BY DEF NoTask, Exists
  <2>2. \A w, f : CausedWith(NoTask, NoJob, w, f)
    BY <2>1, CausedAtRest
  <2>3. tasks[t] = NoTask /\ \A j \in Jobs : job[j] = NoJob
    BY DEF Init, StorageInit, ConsumerInit
  <2>4. QED
    BY <2>2, <2>3 DEF Caused
<1>2. QED
  BY <1>1, PushInvInit DEF CausedInv

\* A task is served by one request, so a step is about that one or about none.
LEMMA CausedConsumer ==
    ASSUME CausedInv, OneSender, \A t \in Tasks : ~Unique(t), ConsumerNext, NEW u \in Tasks
    PROVE  Caused(u)'
<1>1. /\ PushInv /\ TypeInv /\ TypeOK /\ JobsOK /\ NotLimited /\ Sole(u) /\ u # NoTaskId
      /\ RateLimited = {} /\ Caused(u)
  BY PushContext DEF CausedInv, OneSender
<1>2. ASSUME NEW j \in Jobs, JobStep(j)
      PROVE  Caused(u)'
  <2>1. Serves(j) /\ job[j].task \in Tasks
    BY <1>1, <1>2, JobServes, JobStepInService, TaskOfJob
  <2>2. CASE job[j].task # u
    <3>1. /\ tasks'[u] = tasks[u] /\ job'[j].task # u /\ failures'[u] = failures[u]
          /\ \A i \in Jobs : i # j => job'[i] = job[i]
      BY <1>1, <1>2, <2>1, <2>2, JobCounters DEF Serves, OnlyRecordOf, NoJob
    <3>2. QED
      BY <1>1, <2>2, <3>1 DEF Caused
  <2>3. CASE job[j].task = u
    <3>1. CausedWith(tasks[u], job[j], WorkerOf[j], failures[u])
      BY <1>1, <2>3 DEF Caused
    <3>2. CausedWith(tasks'[u], job'[j], WorkerOf[j], failures'[u])
      BY <1>1, <1>2, <2>3, <3>1, CausedJob
    <3>3. \A i \in Jobs : i # j => job'[i].task # u
      BY <1>1, <2>1, <2>3 DEF Serves, Sole
    <3>4. job'[j].task = u \/ job'[j] = NoJob
      BY <2>1, <2>3 DEF Serves
    <3>5. job'[j] = NoJob => CausedWith(tasks'[u], NoJob, Nobody, failures'[u])
      BY <3>2 DEF CausedWith, NoJob
    <3>6. NoJob.task # u
      BY <1>1 DEF NoJob
    <3>7. QED
      BY <3>2, <3>3, <3>4, <3>5, <3>6 DEF Caused
  <2>4. QED
    BY <2>2, <2>3
<1>3. ASSUME NEW j \in Jobs, NEW t \in Tasks, Deliver(j, t)
      PROVE  Caused(u)'
  <2>1. /\ UNCHANGED <<tasks, failures>> /\ job[j].task = NoTaskId
        /\ job'[j].task = t /\ \A i \in Jobs : i # j => job'[i] = job[i]
    BY <1>1, <1>3, DeliverEffect DEF OnlyJob
  <2>2. cloud[t] > 0 /\ job'[j] = [NoJob EXCEPT !.pc = "lookup", !.task = t]
    BY <1>1, <1>3 DEF Deliver, Dequeue, JobsOK
  <2>3. CASE t # u
    BY <1>1, <2>1, <2>3 DEF Caused
  <2>4. CASE t = u
    <3>1. \A i \in Jobs : job[i].task # u
      BY <1>1, <2>2, <2>4 DEF Sole
    <3>2. CausedWith(tasks[u], NoJob, Nobody, failures[u])
      BY <1>1, <3>1 DEF Caused
    <3>3. CausedWith(tasks[u], job'[j], WorkerOf[j], failures[u])
      BY <2>2, <3>2 DEF CausedWith, NoJob
    <3>4. QED
      BY <2>1, <2>4, <3>1, <3>3 DEF Caused
  <2>5. QED
    BY <2>3, <2>4
<1>4. ASSUME NEW t \in Tasks, DeliverWithoutTaskId(t)
      PROVE  Caused(u)'
  BY <1>1, <1>4 DEF DeliverWithoutTaskId, storageVars, consumerVars, Caused
<1>5. QED
  BY <1>2, <1>3, <1>4 DEF ConsumerNext

LEMMA CausedStep ==
    ASSUME OneSender, \A t \in Tasks : ~Unique(t)
    PROVE  CausedInv /\ [Next]_vars => CausedInv'
<1> SUFFICES ASSUME CausedInv, [Next]_vars, NEW u \in Tasks PROVE Caused(u)'
  BY PushInvStep DEF CausedInv
<1>1. PushInv /\ Sole(u) /\ Caused(u) /\ tasks[u] \in TaskRecords
  BY PushContext DEF CausedInv, TasksOK
<1>2. CASE ProducerNext
  <2>1. (tasks'[u] = tasks[u] \/ Writes(u)) /\ UNCHANGED <<job, failures>>
    BY <1>1, <1>2, ProducerWrites
  <2>2. CASE tasks'[u] = tasks[u]
    BY <1>1, <2>1, <2>2 DEF Caused
  <2>3. CASE Writes(u)
    <3>1. /\ \A j \in Jobs : job[j].task # u
          /\ tasks[u].status # "completed"
      BY <1>1, <2>3 DEF Writes, Sole, InService
    <3>2. CausedWith(tasks[u], NoJob, Nobody, failures[u])
      BY <1>1, <3>1 DEF Caused
    <3>3. Exists(tasks'[u]) /\ tasks'[u].lockLive =>
             tasks'[u].lockedBy # Nobody /\ failures[u] > 0
      BY <2>3, <3>1, <3>2 DEF Writes, Creates, KeepsFields, CausedWith, NoJob
    <3>4. CausedWith(tasks'[u], NoJob, Nobody, failures[u])
      BY <3>3, CausedAtRest
    <3>5. QED
      BY <2>1, <3>1, <3>4 DEF Caused
  <2>4. QED
    BY <2>1, <2>2, <2>3
<1>3. CASE ConsumerNext
  BY <1>3, CausedConsumer
<1>4. CASE EnvironmentNext
  <2>1. /\ UNCHANGED failures
        /\ \A j \in Jobs : StaysPut(job[j], job'[j])
        /\ \/ tasks'[u] = NoTask
           \/ tasks'[u] = tasks[u]
           \/ tasks'[u] = [tasks[u] EXCEPT !.lockLive = FALSE]
    BY <1>1, <1>4, TimePasses
  <2>2. Exists(tasks'[u]) => /\ Exists(tasks[u])
                             /\ tasks'[u].status = tasks[u].status
                             /\ tasks'[u].lockedBy = tasks[u].lockedBy
                             /\ tasks'[u].lockLive => tasks[u].lockLive
    BY <1>1, <2>1 DEF NoTask, TaskRecords, Exists
  <2>3. \A q, n, w, f : CausedWith(tasks[u], q, w, f) /\ StaysPut(q, n)
                     => CausedWith(tasks'[u], n, w, f)
    BY <2>2 DEF CausedWith, StaysPut
  <2>4. StaysPut(NoJob, NoJob)
    BY DEF StaysPut
  <2>5. \A j \in Jobs : job'[j].task = job[j].task
    BY <2>1 DEF StaysPut
  <2>6. QED
    BY <1>1, <2>1, <2>3, <2>4, <2>5 DEF Caused
<1>5. CASE UNCHANGED vars
  BY <1>1, <1>5 DEF Caused, vars, storageVars, consumerVars
<1>6. QED
  BY <1>2, <1>3, <1>4, <1>5 DEF Next

\* The request that makes a record FAILED has a cause, and nobody runs the task.
LEMMA FailedStep ==
    ASSUME OneSender, \A v \in Tasks : ~Unique(v), CausedInv, [Next]_vars,
           NEW t \in Tasks, tasks[t].status # "failed", tasks'[t].status = "failed"
    PROVE  \E j \in Jobs :
              /\ job[j].task = t
              /\ HasThrown(j) \/ MeetsLeftLock(j)
              /\ \A i \in Jobs \ {j} : job[i].task = t => ~Running(i)
<1>1. /\ PushInv /\ TypeInv /\ TypeOK /\ TasksOK /\ JobsOK /\ NotLimited /\ RateLimited = {}
      /\ Sole(t) /\ Caused(t) /\ tasks[t] \in TaskRecords
  BY PushContext DEF CausedInv, OneSender, TasksOK
<1>2. ~ProducerNext /\ ~UNCHANGED vars
  <2>1. tasks'[t].status \notin {"active", "idle", "absent"} /\ tasks'[t] # tasks[t]
    OBVIOUS
  <2>2. QED
    BY <1>1, <2>1, ProducerWrites DEF Writes, vars, storageVars
<1>3. ~EnvironmentNext
  <2>1. NoTask.status # "failed" /\ [tasks[t] EXCEPT !.lockLive = FALSE].status # "failed"
    BY <1>1 DEF NoTask, TaskRecords
  <2>2. QED
    BY <1>1, <2>1, TimePasses
<1>4. PICK j \in Jobs : JobStep(j)
  BY <1>2, <1>3 DEF Next, ConsumerNext, Deliver, DeliverWithoutTaskId, storageVars
<1>5. Serves(j) /\ job[j].task \in Tasks /\ job[j].pc # "none"
  BY <1>1, <1>4, JobServes, JobStepInService, TaskOfJob
<1>6. job[j].task = t
  BY <1>5 DEF Serves, OnlyRecordOf
<1>7. CausedWith(tasks[t], job[j], WorkerOf[j], failures[t])
  BY <1>1, <1>6 DEF Caused
<1>8. job[j].pc \notin {"unique", "save", "duplicate", "unkeyFailed", "limit"} \cup Limiting
  BY <1>1, <1>7 DEF CausedWith, NotLimited
<1>9. LockFailed(j) \/ Fail(j) \/ FailAgain(j)
  <2>1. ~Lookup(j) /\ ~RetryLock(j) /\ ~RunHandler(j)
    BY <1>6 DEF Lookup, RetryLock, RunHandler, storageVars
  <2>2. ~Activate(j)
    BY <1>1, <1>6, UpdateTaskStatusEffect DEF Activate, Status
  <2>3. ~AcquireLock(j)
    BY <1>1, <1>6, ConsumerAssumption, AcquireTaskLockEffect DEF AcquireLock
  <2>4. ~Complete(j)
    BY <1>1, <1>6, CompleteTaskEffect DEF Complete
  <2>5. QED
    BY <1>4, <1>8, <2>1, <2>2, <2>3, <2>4
       DEF JobStep, At, CheckUniqueness, SaveKey, FailDuplicate, UnkeyFailed, RateLimit,
           Unkey, Refetch, Release, UnkeyAgain, GiveUpReEnqueue, Reschedule,
           ReAddCheckUniqueness, ReCreate, ReSend, ReReset, Limiting
<1>10. job[j].pc \in {"lockFailed", "fail", "failAgain"} /\ FailTask(t)
  BY <1>6, <1>9 DEF LockFailed, Fail, FailAgain, At
<1>11. Exists(tasks[t])
  BY <1>1, <1>10, FailTaskOfMissing
<1>12. HasThrown(j) \/ MeetsLeftLock(j)
  BY <1>6, <1>7, <1>10, <1>11 DEF CausedWith, HasThrown, MeetsLeftLock, At
<1>13. \A i \in Jobs \ {j} : job[i].task # t
  BY <1>1, <1>6 DEF Sole
<1>14. QED
  BY <1>6, <1>12, <1>13

(***************************************************************************)
(* With one sender and without uniqueness keys a record becomes FAILED for cause  *)
(* only: the request that writes it has seen its handler throw, or has given up    *)
(* before the lock of another worker's attempt, which had failed; and no other     *)
(* request runs the handler.  (A key that another request holds makes failTask run  *)
(* for the later one although its handler never started.)                      *)
(***************************************************************************)
THEOREM FailuresHaveCause ==
    ASSUME OneSender, \A t \in Tasks : ~Unique(t)
    PROVE  Spec => FailedForCause
<1>1. CausedInv /\ [Next]_vars =>
        [\A t \in Tasks : tasks[t].status # "failed" /\ tasks'[t].status = "failed" =>
            \E j \in Jobs :
                /\ job[j].task = t
                /\ HasThrown(j) \/ MeetsLeftLock(j)
                /\ \A i \in Jobs \ {j} : job[i].task = t => ~Running(i)]_vars
  BY FailedStep
<1>2. QED
  BY <1>1, CausedInit, CausedStep, PTL DEF Spec, FailedForCause

-----------------------------------------------------------------------------
(* maxRetry bounds the attempts. *)

\* The states of a request whose handler has thrown.
Tried == {"fail", "unkeyFailed", "failAgain"}

(***************************************************************************)
(* failures never runs ahead of what is counted: f failures of t, its record r    *)
(* and the request q that serves it (NoJob if there is none).  The record has       *)
(* counted all of them, but for the one whose failTask is due; the request read    *)
(* at least as many before it ran the handler, and so it pushes t again only if    *)
(* they are no more than maxRetry.                                           *)
(***************************************************************************)
CountedWith(t, r, q, f) ==
    /\ f <= MaxRetry[t] + 1
    /\ Exists(r) => f <= r.retryCount + (IF q.pc = "fail" THEN 1 ELSE 0)
    /\ q.pc \notin Tried \cup {"none"} => f <= MaxRetry[t]
    /\ q.pc \in Tried => f <= MaxRetry[t] \/ f <= q.read + 1
    /\ q.pc \notin Tried \cup {"none", "lookup", "activate"} /\ q.read # Missing
          => f <= q.read
    /\ q.pc = "run" => q.read # Missing

Counted(t) ==
    /\ added[t] \in Early => failures[t] = 0
    /\ Pending(t) => failures[t] <= MaxRetry[t]
    /\ \A j \in Jobs : job[j].task = t => CountedWith(t, tasks[t], job[j], failures[t])
    /\ (\A j \in Jobs : job[j].task # t) => CountedWith(t, tasks[t], NoJob, failures[t])

CountInv == PushInv /\ \A t \in Tasks : Counted(t)

\* What failTask of MongoStorageAdapter leaves has counted the attempt.
LEMMA FailTaskCounts ==
    ASSUME TasksOK, NEW t \in Tasks, Adapter = "mongo", FailTask(t), Exists(tasks'[t])
    PROVE  Exists(tasks[t]) /\ tasks'[t].retryCount = tasks[t].retryCount + 1
<1> DEFINE removal == EffectiveRemoval(RemoveOnFail[t], tasks[t])
           n == tasks[t].retryCount + 1
           counted == [tasks[t] EXCEPT !.status = "failed", !.retryCount = n]
<1>1. tasks[t] \in TaskRecords /\ removal \in RemoveOptions
  BY RemovalType DEF TasksOK
<1>2. tasks'[t] = IF Exists(tasks[t]) THEN Mongo!HandleTaskCleanup(counted, removal)
                                      ELSE tasks[t]
  BY DEF TasksOK, FailTask, Mongo!FailTask, Mongo!Exists, Exists
<1>3. Exists(tasks[t])
  BY <1>2
<1>4. counted.retryCount = n
  BY <1>1 DEF TaskRecords
<1> HIDE DEF removal, n
<1>5. CASE removal = "now"
  BY <1>2, <1>3, <1>5 DEF Mongo!HandleTaskCleanup, Mongo!NoTask, Exists
<1>6. CASE removal = "later"
  <2>1. tasks'[t] = [counted EXCEPT !.expiring = TRUE]
    BY <1>2, <1>3, <1>6 DEF Mongo!HandleTaskCleanup
  <2>2. tasks'[t].retryCount = n
    BY <1>1, <2>1 DEF TaskRecords
  <2>3. QED
    BY <1>3, <2>2 DEF n
<1>7. CASE removal \in {"unset", "keep"}
  <2>1. tasks'[t] = counted
    BY <1>2, <1>3, <1>7 DEF Mongo!HandleTaskCleanup
  <2>2. QED
    BY <1>3, <1>4, <2>1 DEF n
<1>8. QED
  BY <1>1, <1>5, <1>6, <1>7 DEF RemoveOptions

\* Every other step of a request leaves the counter of a record that stays.
KeepsCount(t) ==
    Exists(tasks'[t]) => Exists(tasks[t]) /\ tasks'[t].retryCount = tasks[t].retryCount

LEMMA LockKeepsCount ==
    ASSUME TasksOK, NEW t \in Tasks, NEW w \in Workers,
           CanAcquireTaskLock(t, w), AcquireTaskLock(t, w)
    PROVE  KeepsCount(t)
<1>1. Exists(tasks[t])
  BY AcquireTaskLockEffect
<1>2. tasks'[t] = [tasks[t] EXCEPT !.status = "active", !.lockedBy = w, !.lockLive = TRUE]
  BY DEF TasksOK, AcquireTaskLock, Memory!AcquireTaskLock, Mongo!AcquireTaskLock
<1>3. QED
  BY <1>1, <1>2 DEF TasksOK, TaskRecords, KeepsCount

LEMMA CompleteKeepsCount ==
    ASSUME TasksOK, NEW t \in Tasks, Adapter = "mongo", CompleteTask(t),
           ~CompleteTaskThrows(t)
    PROVE  KeepsCount(t)
<1> DEFINE removal == EffectiveRemoval(RemoveOnComplete[t], tasks[t])
           done == [tasks[t] EXCEPT !.status = "completed"]
<1>1. tasks[t] \in TaskRecords /\ removal \in RemoveOptions
  BY RemovalType DEF TasksOK
<1>2. Exists(tasks[t])
  BY DEF CompleteTaskThrows, Mongo!CompleteTaskThrows, Mongo!Exists, Exists
<1>3. tasks'[t] = Mongo!HandleTaskCleanup(done, removal)
  BY DEF TasksOK, CompleteTask, Mongo!CompleteTask
<1>4. done.retryCount = tasks[t].retryCount
  BY <1>1 DEF TaskRecords
<1> HIDE DEF removal
<1>5. CASE removal = "now"
  BY <1>3, <1>5 DEF Mongo!HandleTaskCleanup, Mongo!NoTask, Exists, KeepsCount
<1>6. CASE removal = "later"
  <2>1. tasks'[t] = [done EXCEPT !.expiring = TRUE]
    BY <1>3, <1>6 DEF Mongo!HandleTaskCleanup
  <2>2. QED
    BY <1>1, <1>2, <1>4, <2>1 DEF TaskRecords, KeepsCount
<1>7. CASE removal \in {"unset", "keep"}
  BY <1>2, <1>3, <1>4, <1>7 DEF Mongo!HandleTaskCleanup, KeepsCount
<1>8. QED
  BY <1>1, <1>5, <1>6, <1>7 DEF RemoveOptions

(***************************************************************************)
(* A step of the request that serves t: the count still holds for what it makes    *)
(* of itself and of the record, and t is pushed again within maxRetry only.      *)
(***************************************************************************)
LEMMA CountedJob ==
    ASSUME PushInv, OneSender, Adapter = "mongo", NEW j \in Jobs, JobStep(j),
           CountedWith(job[j].task, tasks[job[j].task], job[j], failures[job[j].task])
    PROVE  /\ CountedWith(job[j].task, tasks'[job[j].task], job'[j],
                          failures'[job[j].task])
           /\ cloud'[job[j].task] # cloud[job[j].task]
                 => failures'[job[j].task] <= MaxRetry[job[j].task]
<1> DEFINE t == job[j].task
           r == tasks[t]
           f == failures[t]
           max == MaxRetry[t]
<1>1. /\ TypeOK /\ TasksOK /\ JobsOK /\ CloudTypeOK /\ NotLimited /\ RateLimited = {}
      /\ t \in Tasks /\ job[j].pc # "none"
  BY PushContext, JobStepInService, TaskOfJob DEF OneSender
<1>2. /\ r \in TaskRecords /\ r.retryCount \in Nat
      /\ job[j] \in JobRecords /\ job[j].read \in Nat \cup {-1}
      /\ f \in Nat /\ max \in Nat /\ Missing = -1
  BY <1>1, StorageAssumption
     DEF TypeOK, ConsumerTypeOK, TasksOK, JobsOK, TaskRecords, JobRecords,
         Missing
<1>3. job[j].pc \notin {"limit"} \cup Limiting /\ AfterUniqueness(t) = "lock"
  BY <1>1 DEF NotLimited, AfterUniqueness
<1>4. NoJob.pc = "none"
  BY DEF NoJob
<1> HIDE DEF t
\* The record is untouched and the request goes on to handle it, or ends.
<1>5. ASSUME KeepsCount(t), failures' = failures,
             job[j].pc \notin Tried,
             \/ job'[j] = NoJob
             \/ /\ job'[j].read = job[j].read
                /\ \/ job[j].pc = "lookup" /\ job'[j].pc = "activate"
                   \/ /\ job[j].pc \notin {"lookup", "activate"}
                      /\ job'[j].pc \notin {"none", "lookup", "activate", "run"}
      PROVE  /\ CountedWith(t, tasks'[t], job'[j], failures'[t])
             /\ failures'[t] <= max
  <2>1. f <= max /\ (Exists(r) => f <= r.retryCount)
    BY <1>1, <1>2, <1>5 DEF CountedWith, Tried, t
  <2>2. Exists(tasks'[t]) => tasks'[t].retryCount \in Nat /\ f <= tasks'[t].retryCount
    BY <1>2, <1>5, <2>1 DEF KeepsCount
  <2>3. CASE job'[j] = NoJob
    BY <1>2, <1>4, <1>5, <2>1, <2>2, <2>3 DEF CountedWith, Tried
  <2>4. CASE job[j].pc = "lookup" /\ job'[j].pc = "activate"
    BY <1>2, <1>5, <2>1, <2>2, <2>4 DEF CountedWith, Tried
  <2>5. CASE /\ job'[j].read = job[j].read
             /\ job[j].pc \notin {"lookup", "activate"}
             /\ job'[j].pc \notin {"none", "lookup", "activate", "run"}
    <3>1. job[j].read # Missing => f <= job[j].read
      BY <1>1, <1>5, <2>5 DEF CountedWith, t
    <3>2. Exists(tasks'[t]) => f <= tasks'[t].retryCount
                                      + (IF job'[j].pc = "fail" THEN 1 ELSE 0)
      BY <1>1, <1>2, <1>5, <2>1 DEF KeepsCount
    <3>3. QED
      BY <1>2, <1>5, <2>1, <2>5, <3>1, <3>2 DEF CountedWith
  <2>6. QED
    BY <1>5, <2>3, <2>4, <2>5
<1>6. CASE Lookup(j) \/ CheckUniqueness(j) \/ SaveKey(j)
  <2>1. tasks' = tasks /\ failures' = failures
    BY <1>6 DEF Lookup, CheckUniqueness, SaveKey, storageVars, cloudVars
  <2>2. /\ job[j].pc \in {"lookup", "unique", "save"}
        /\ \/ Ack(j)
           \/ job[j].pc = "lookup" /\ Goto(j, "activate")
           \/ /\ job[j].pc \in {"unique", "save"}
              /\ \E pc \in {"save", "duplicate", "lock"} : Goto(j, pc)
    BY <1>3, <1>6 DEF Lookup, CheckUniqueness, SaveKey, At, t
  <2>3. CASE Ack(j)
    BY <1>1, <1>5, <2>1, <2>2, <2>3, EndHandles DEF KeepsCount, Tried, t
  <2>4. CASE job[j].pc = "lookup" /\ Goto(j, "activate")
    <3>1. job'[j].pc = "activate" /\ job'[j].read = job[j].read
      BY <1>1, <2>4 DEF Goto, JobsOK, JobRecords
    <3>2. QED
      BY <1>5, <2>1, <2>4, <3>1 DEF KeepsCount, Tried, t
  <2>5. ASSUME job[j].pc \in {"unique", "save"},
               NEW pc \in {"save", "duplicate", "lock"}, Goto(j, pc)
        PROVE  /\ job'[j].pc = pc /\ job'[j].read = job[j].read
    BY <1>1, <2>5 DEF Goto, JobsOK, JobRecords
  <2>6. QED
    BY <1>5, <2>1, <2>2, <2>3, <2>4, <2>5 DEF KeepsCount, Tried, t
<1>7. CASE Activate(j)
  <2>1. /\ job[j].pc = "activate" /\ UpdateTaskStatus(t, "active") /\ "active" \in Status
        /\ failures' = failures /\ cloud' = cloud
    BY <1>7 DEF Activate, At, Status, cloudVars, t
  <2>2. KeepsFields(t)
    BY <1>1, <2>1, UpdateKeepsFields
  <2> DEFINE read == IF Exists(r) THEN r.retryCount ELSE Missing
             pc == IF Unique(t) THEN "unique" ELSE AfterUniqueness(t)
  <2>3. pc \in {"unique", "lock"} /\ (read # Missing => f <= read) /\ f <= max
    BY <1>1, <1>2, <1>3, <2>1 DEF CountedWith, Tried, t
  <2>4. job' = [job EXCEPT ![j].pc = pc, ![j].read = read]
    BY <1>7 DEF Activate, t
  <2>5. Exists(r) => f <= r.retryCount
    BY <1>1, <1>2, <2>1 DEF CountedWith, t
  <2> HIDE DEF read, pc
  <2>6. job'[j].pc = pc /\ job'[j].read = read
    BY <1>1, <2>4 DEF JobsOK, JobRecords
  <2>7. CountedWith(t, tasks'[t], job'[j], failures'[t])
    BY <1>2, <2>1, <2>2, <2>3, <2>5, <2>6 DEF CountedWith, Tried, KeepsFields
  <2>8. QED
    BY <1>2, <2>1, <2>7 DEF t
<1>8. CASE RetryLock(j)
  <2>1. job[j].pc = "lock" /\ tasks' = tasks /\ failures' = failures
    BY <1>8 DEF RetryLock, At, storageVars, cloudVars
  <2> DEFINE pc == IF job[j].tries + 1 < MaxLockRetries THEN "lock" ELSE "lockFailed"
             n == job[j].tries + 1
  <2>2. job' = [job EXCEPT ![j].tries = n, ![j].pc = pc] /\ pc \in {"lock", "lockFailed"}
    BY <1>8 DEF RetryLock
  <2> HIDE DEF pc, n
  <2>3. job'[j].pc \in {"lock", "lockFailed"} /\ job'[j].read = job[j].read
    BY <1>1, <2>2 DEF JobsOK, JobRecords
  <2>4. QED
    BY <1>5, <2>1, <2>3 DEF KeepsCount, Tried, t
<1>9. CASE AcquireLock(j)
  <2>1. /\ job[j].pc = "lock" /\ KeepsCount(t) /\ failures' = failures
    BY <1>1, <1>9, ConsumerAssumption, LockKeepsCount DEF AcquireLock, At, t
  <2>2. CASE job[j].read = Missing
    BY <1>1, <1>5, <1>9, <2>1, <2>2, EndHandles DEF AcquireLock, Tried, t
  <2>3. CASE job[j].read # Missing
    <3>1. job' = [job EXCEPT ![j].pc = "run", ![j].leased = TRUE] /\ cloud' = cloud
      BY <1>9, <2>3 DEF AcquireLock
    <3>2. job'[j].pc = "run" /\ job'[j].read = job[j].read
      BY <1>1, <3>1 DEF JobsOK, JobRecords
    <3>3. f <= max /\ f <= job[j].read /\ (Exists(r) => f <= r.retryCount)
      BY <1>1, <1>2, <2>1, <2>3 DEF CountedWith, Tried, t
    <3>4. CountedWith(t, tasks'[t], job'[j], failures'[t])
      BY <1>2, <2>1, <2>3, <3>2, <3>3 DEF CountedWith, Tried, KeepsCount
    <3>5. QED
      BY <1>2, <2>1, <3>1, <3>4 DEF t
  <2>4. QED
    BY <2>2, <2>3
<1>10. CASE RunHandler(j)
  <2>1. job[j].pc = "run" /\ tasks' = tasks /\ cloud' = cloud
    BY <1>10 DEF RunHandler, At, storageVars
  <2>2. /\ job[j].read # Missing /\ f <= job[j].read /\ f <= max
        /\ Exists(r) => f <= r.retryCount
    BY <1>1, <1>2, <2>1 DEF CountedWith, Tried, t
  <2>3. CASE Goto(j, "complete") /\ UNCHANGED failures
    <3>1. job'[j].pc = "complete" /\ job'[j].read = job[j].read
      BY <1>1, <2>3 DEF Goto, JobsOK, JobRecords
    <3>2. QED
      BY <1>5, <2>1, <2>3, <3>1 DEF KeepsCount, Tried, t
  <2>4. CASE /\ \E error \in {"error", "httpError"} :
                   job' = [job EXCEPT ![j].pc = "fail", ![j].threw = error]
             /\ cloud' = cloud
             /\ failures' = [failures EXCEPT ![t] = @ + 1]
    <3>1. job'[j].pc = "fail" /\ job'[j].read = job[j].read
      BY <1>1, <2>4 DEF JobsOK, JobRecords
    <3>2. failures'[t] = f + 1
      BY <1>1, <2>4 DEF TypeOK, ConsumerTypeOK
    <3>3. CountedWith(t, tasks'[t], job'[j], failures'[t])
      BY <1>2, <2>1, <2>2, <3>1, <3>2 DEF CountedWith, Tried
    <3>4. QED
      BY <1>2, <2>1, <3>2, <3>3 DEF t
  <2>5. QED
    BY <1>10, <2>1, <2>3, <2>4 DEF RunHandler, t
<1>11. CASE Complete(j)
  <2>1. job[j].pc = "complete" /\ failures' = failures
    BY <1>11 DEF Complete, At
  <2>2. CASE CompleteTaskThrows(t)
    <3>1. Goto(j, "fail") /\ tasks' = tasks
      BY <1>11, <2>2 DEF Complete, t
    <3>2. job'[j].pc = "fail" /\ job'[j].read = job[j].read
      BY <1>1, <3>1 DEF Goto, JobsOK, JobRecords
    <3>3. QED
      BY <1>5, <2>1, <3>1, <3>2 DEF KeepsCount, Tried, t
  <2>3. CASE ~CompleteTaskThrows(t)
    <3>1. CompleteTask(t) /\ Ack(j)
      BY <1>11, <2>3 DEF Complete, t
    <3>2. KeepsCount(t) /\ job'[j] = NoJob
      BY <1>1, <2>3, <3>1, CompleteKeepsCount, EndHandles
    <3>3. QED
      BY <1>5, <2>1, <3>2 DEF Tried, t
  <2>4. QED
    BY <2>2, <2>3
\* failTask has counted the attempt before the request goes on or is pushed again.
<1>12. ASSUME FailTask(t), failures' = failures,
              \/ job'[j] = NoJob
              \/ job[j].pc = "fail" /\ job'[j].pc \in Tried \ {"fail"}
                                    /\ job'[j].read = job[j].read
       PROVE  CountedWith(t, tasks'[t], job'[j], failures'[t])
  <2>1. Exists(tasks'[t]) => tasks'[t].retryCount \in Nat /\ f <= tasks'[t].retryCount
    <3>1. Exists(r) => f <= r.retryCount + 1
      BY <1>1, <1>2 DEF CountedWith, t
    <3>2. QED
      BY <1>1, <1>2, <1>12, <3>1, FailTaskCounts
  <2>2. f <= max + 1 /\ (job[j].pc = "fail" => f <= max \/ f <= job[j].read + 1)
    BY <1>1 DEF CountedWith, Tried, t
  <2>3. CASE job'[j] = NoJob
    BY <1>2, <1>4, <1>12, <2>1, <2>2, <2>3 DEF CountedWith, Tried
  <2>4. CASE job[j].pc = "fail" /\ job'[j].pc \in Tried \ {"fail"}
                                /\ job'[j].read = job[j].read
    BY <1>2, <1>12, <2>1, <2>2, <2>4 DEF CountedWith, Tried
  <2>5. QED
    BY <1>12, <2>3, <2>4
<1>13. ~FailTaskThrows(t)
  BY DEF FailTaskThrows, Mongo!FailTaskThrows
<1>14. CASE FailDuplicate(j) \/ LockFailed(j)
  <2>1. FailTask(t) /\ Ack(j) /\ failures' = failures
    BY <1>13, <1>14 DEF FailDuplicate, LockFailed, t
  <2>2. cloud' = cloud /\ job'[j] = NoJob
    BY <1>1, <2>1, EndHandles DEF Ack
  <2>3. QED
    BY <1>12, <2>1, <2>2 DEF t
<1>15. CASE Fail(j)
  <2>1. /\ job[j].pc = "fail" /\ FailTask(t) /\ failures' = failures
        /\ cloud' = cloud /\ \E pc \in Tried \ {"fail"} : Goto(j, pc)
    BY <1>13, <1>15 DEF Fail, At, Tried, t
  <2>2. job'[j].pc \in Tried \ {"fail"} /\ job'[j].read = job[j].read
    BY <1>1, <2>1 DEF Goto, JobsOK, JobRecords
  <2>3. QED
    BY <1>12, <2>1, <2>2 DEF t
<1>16. CASE UnkeyFailed(j)
  <2>1. /\ job[j].pc = "unkeyFailed" /\ tasks' = tasks /\ failures' = failures
        /\ cloud' = cloud /\ Goto(j, "failAgain")
    BY <1>16 DEF UnkeyFailed, At, cloudVars
  <2>2. job'[j].pc = "failAgain" /\ job'[j].read = job[j].read
    BY <1>1, <2>1 DEF Goto, JobsOK, JobRecords
  <2>3. CountedWith(t, tasks'[t], job'[j], failures'[t])
    BY <1>1, <1>2, <2>1, <2>2 DEF CountedWith, Tried, t
  <2>4. QED
    BY <1>2, <2>1, <2>3 DEF t
<1>17. CASE FailAgain(j)
  <2>1. /\ job[j].pc = "failAgain" /\ FailTask(t) /\ failures' = failures
        /\ \/ Rethrow(j) /\ CurrentRetryCount(j) <= max
           \/ Ack(j)
    BY <1>13, <1>17 DEF FailAgain, At, t
  <2>2. job'[j] = NoJob
    BY <1>1, <2>1, EndHandles
  <2>3. f <= max \/ f <= job[j].read + 1
    BY <1>1, <2>1 DEF CountedWith, Tried, t
  <2>4. cloud' = cloud \/ f <= max
    BY <1>2, <2>1, <2>3 DEF Ack, CurrentRetryCount
  <2>5. QED
    BY <1>12, <2>1, <2>2, <2>4 DEF t
<1>18. QED
  BY <1>1, <1>3, <1>6, <1>7, <1>8, <1>9, <1>10, <1>11, <1>14, <1>15, <1>16, <1>17
     DEF JobStep, At, RateLimit, Unkey, Refetch, Release, UnkeyAgain, GiveUpReEnqueue,
         Reschedule, ReAddCheckUniqueness, ReCreate, ReSend, ReReset, Limiting

-----------------------------------------------------------------------------

LEMMA CountInit == Init => CountInv
<1> SUFFICES ASSUME Init PROVE CountInv
  OBVIOUS
<1>1. ASSUME NEW t \in Tasks
      PROVE  Counted(t)
  <2>1. MaxRetry[t] \in Nat
    BY StorageAssumption
  <2>2. CountedWith(t, NoTask, NoJob, 0)
    BY <2>1 DEF CountedWith, NoTask, NoJob, Exists, Tried
  <2>3. /\ tasks[t] = NoTask /\ failures[t] = 0
        /\ \A j \in Jobs : job[j] = NoJob
    BY <1>1 DEF Init, StorageInit, ConsumerInit
  <2>4. QED
    BY <2>1, <2>2, <2>3 DEF Counted
<1>2. QED
  BY <1>1, PushInvInit DEF CountInv

LEMMA CountConsumer ==
    ASSUME CountInv, OneSender, Adapter = "mongo", ConsumerNext, NEW u \in Tasks
    PROVE  Counted(u)'
<1>1. /\ PushInv /\ TypeInv /\ TypeOK /\ JobsOK /\ CloudTypeOK /\ NotLimited
      /\ Sole(u) /\ Counted(u) /\ u # NoTaskId /\ RateLimited = {}
      /\ failures \in [Tasks -> Nat] /\ UNCHANGED <<added, poll>>
      /\ MaxRetry[u] \in Nat
  BY PushContext, StorageAssumption
     DEF CountInv, OneSender, TypeOK, ConsumerTypeOK, ConsumerNext, producerVars
<1>2. ASSUME NEW j \in Jobs, JobStep(j)
      PROVE  Counted(u)'
  <2>1. Serves(j) /\ job[j].task \in Tasks
    BY <1>1, <1>2, JobServes, JobStepInService, TaskOfJob
  <2>2. CASE job[j].task # u
    <3>1. /\ tasks'[u] = tasks[u] /\ job'[j].task # u /\ cloud'[u] = cloud[u]
          /\ \A i \in Jobs : i # j => job'[i] = job[i]
      BY <1>1, <2>1, <2>2 DEF Serves, OnlyRecordOf, NoJob
    <3>2. failures'[u] = failures[u]
      BY <1>1, <1>2, <2>1, <2>2, JobCounters
    <3>3. QED
      BY <1>1, <2>2, <3>1, <3>2 DEF Counted, Pending, Adding, Polling
  <2>3. CASE job[j].task = u
    <3>1. CountedWith(u, tasks[u], job[j], failures[u])
      BY <1>1, <2>3 DEF Counted
    <3>2. /\ CountedWith(u, tasks'[u], job'[j], failures'[u])
          /\ cloud'[u] # cloud[u] => failures'[u] <= MaxRetry[u]
      BY <1>1, <1>2, <2>3, <3>1, CountedJob
    <3>3. /\ ~Adding(u) /\ ~Polling(u) /\ added[u] \notin Early
          /\ cloud[u] = 0 /\ tasks[u].status # "idle"
          /\ \A i \in Jobs : i # j => job[i].task # u
      BY <1>1, <2>3 DEF Sole, InService, Adding
    <3>4. Pending(u)' => cloud'[u] # cloud[u]
      BY <1>1, <2>1, <2>3, <3>3 DEF Pending, Adding, Polling, Serves
    <3>5. \A i \in Jobs : i # j => job'[i].task # u
      BY <1>1, <2>1, <2>3, <3>3 DEF Serves
    <3>6. job'[j].task = u \/ job'[j] = NoJob
      BY <2>1, <2>3 DEF Serves
    <3>7. QED
      BY <1>1, <3>2, <3>3, <3>4, <3>5, <3>6 DEF Counted
  <2>4. QED
    BY <2>2, <2>3
<1>3. ASSUME NEW j \in Jobs, NEW t \in Tasks, Deliver(j, t)
      PROVE  Counted(u)'
  <2>1. /\ UNCHANGED <<tasks, failures>> /\ job[j].task = NoTaskId
        /\ job'[j].task = t /\ job'[j].pc = "lookup"
        /\ \A i \in Jobs : i # j => job'[i] = job[i]
        /\ \A v \in Tasks : v # t => cloud'[v] = cloud[v]
    BY <1>1, <1>3, DeliverEffect DEF OnlyJob
  <2>2. cloud[t] > 0 /\ cloud'[t] = cloud[t] - 1
    BY <1>1, <1>3 DEF Deliver, Dequeue, CloudTypeOK
  <2>3. CASE t # u
    BY <1>1, <2>1, <2>3 DEF Counted, Pending, Adding, Polling
  <2>4. CASE t = u
    <3>1. cloud[u] = 1 /\ cloud'[u] = 0 /\ \A i \in Jobs : job[i].task # u
      BY <1>1, <2>2, <2>4 DEF Sole
    <3>2. failures[u] <= MaxRetry[u] /\ CountedWith(u, tasks[u], NoJob, failures[u])
      BY <1>1, <3>1 DEF Counted, Pending
    <3>3. CountedWith(u, tasks[u], job'[j], failures[u])
      BY <1>1, <2>1, <3>2 DEF CountedWith, NoJob, Tried
    <3>4. Pending(u)' => Pending(u)
      BY <1>1, <2>1, <3>1 DEF Pending, Adding, Polling
    <3>5. QED
      BY <1>1, <2>1, <2>4, <3>1, <3>3, <3>4 DEF Counted
  <2>5. QED
    BY <2>3, <2>4
<1>4. ASSUME NEW t \in Tasks, DeliverWithoutTaskId(t)
      PROVE  Counted(u)'
  <2>1. UNCHANGED <<tasks, job, failures>>
    BY <1>4 DEF DeliverWithoutTaskId, storageVars, consumerVars
  <2>2. cloud'[u] = cloud[u] \/ (cloud[u] > 0 /\ cloud'[u] = cloud[u] - 1)
    BY <1>1, <1>4 DEF DeliverWithoutTaskId, Dequeue, CloudTypeOK
  <2>3. Pending(u)' => Pending(u)
    BY <1>1, <2>1, <2>2 DEF Pending, Adding, Polling, Sole
  <2>4. QED
    BY <1>1, <2>1, <2>3 DEF Counted
<1>5. QED
  BY <1>2, <1>3, <1>4 DEF ConsumerNext

LEMMA CountStep ==
    ASSUME OneSender, Adapter = "mongo"
    PROVE  CountInv /\ [Next]_vars => CountInv'
<1> SUFFICES ASSUME CountInv, [Next]_vars, NEW u \in Tasks PROVE Counted(u)'
  BY PushInvStep DEF CountInv
<1>1. /\ PushInv /\ Sole(u) /\ Counted(u) /\ tasks[u] \in TaskRecords
      /\ failures[u] \in Nat /\ MaxRetry[u] \in Nat
  BY PushContext, StorageAssumption DEF CountInv, TasksOK, TypeOK, ConsumerTypeOK
<1>2. CASE ProducerNext
  <2>1. /\ tasks'[u] = tasks[u] \/ Writes(u)
        /\ Pending(u)' => Pending(u)
        /\ added'[u] \in Early => added[u] \in Early
        /\ UNCHANGED <<job, failures>>
    BY <1>1, <1>2, ProducerWrites
  <2>2. CASE tasks'[u] = tasks[u]
    BY <1>1, <2>1, <2>2 DEF Counted
  <2>3. CASE Writes(u)
    <3>1. \A j \in Jobs : job[j].task # u
      BY <1>1, <2>3 DEF Writes, Sole, InService
    <3>2. CountedWith(u, tasks[u], NoJob, failures[u])
      BY <1>1, <3>1 DEF Counted
    <3>3. CountedWith(u, tasks'[u], NoJob, failures[u])
      <4>1. CASE Creates(u)
        BY <1>1, <4>1 DEF Creates, Counted, CountedWith, NoJob, Tried
      <4>2. CASE KeepsFields(u)
        BY <3>2, <4>2 DEF KeepsFields, CountedWith, NoJob, Tried
      <4>3. QED
        BY <2>3, <4>1, <4>2 DEF Writes
    <3>4. QED
      BY <1>1, <2>1, <3>1, <3>3 DEF Counted
  <2>4. QED
    BY <2>1, <2>2, <2>3
<1>3. CASE ConsumerNext
  BY <1>3, CountConsumer
<1>4. CASE EnvironmentNext
  <2>1. /\ UNCHANGED <<cloud, added, poll, failures>>
        /\ \A j \in Jobs : StaysPut(job[j], job'[j])
        /\ \/ tasks'[u] = NoTask
           \/ tasks'[u] = tasks[u]
           \/ tasks'[u] = [tasks[u] EXCEPT !.lockLive = FALSE]
    BY <1>1, <1>4, TimePasses
  <2>2. /\ tasks'[u].status \in {tasks[u].status, "absent"}
        /\ Exists(tasks'[u]) => /\ Exists(tasks[u])
                                /\ tasks'[u].retryCount = tasks[u].retryCount
    BY <1>1, <2>1 DEF NoTask, TaskRecords, Exists
  <2>3. \A q, n : CountedWith(u, tasks[u], q, failures[u]) /\ StaysPut(q, n)
                     => CountedWith(u, tasks'[u], n, failures[u])
    BY <2>2 DEF CountedWith, StaysPut
  <2>4. Pending(u)' => Pending(u)
    BY <2>1, <2>2 DEF Pending, Adding, Polling
  <2>5. StaysPut(NoJob, NoJob) /\ \A j \in Jobs : job'[j].task = job[j].task
    BY <2>1 DEF StaysPut
  <2>6. QED
    BY <1>1, <2>1, <2>3, <2>4, <2>5 DEF Counted
<1>5. CASE UNCHANGED vars
  BY <1>1, <1>5 DEF Counted, Pending, Adding, Polling, vars, storageVars, cloudVars,
                    producerVars, consumerVars
<1>6. QED
  BY <1>2, <1>3, <1>4, <1>5 DEF Next

LEMMA CountInvIsEnough == CountInv => AttemptsBounded
BY DEF CountInv, Counted, CountedWith, AttemptsBounded

(***************************************************************************)
(* With one sender MongoDB's retryCount keeps a task within maxRetry + 1          *)
(* attempts, whatever fails on the way.                                      *)
(***************************************************************************)
THEOREM AttemptsWithinMaxRetry ==
    ASSUME OneSender, Adapter = "mongo"
    PROVE  Spec => []AttemptsBounded
BY CountInit, CountStep, CountInvIsEnough, PTL DEF Spec
=============================================================================
