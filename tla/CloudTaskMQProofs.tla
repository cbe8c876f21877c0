-------------------------- MODULE CloudTaskMQProofs --------------------------
(***************************************************************************)
(* Theorems about CloudTaskMQ for every value of its constants.              *)
(***************************************************************************)
EXTENDS JobStepProofs, FiniteSetTheorems

USE DEF TasksOK

-----------------------------------------------------------------------------
(* What a step of the producer does to the task it is about, and to the others. *)

ProducerFrame(t) ==
    /\ OnlyRecordOf(t)
    /\ ProducerTypeOK'
    /\ stranded \subseteq stranded'
    /\ \A u \in Tasks : u # t => /\ added'[u] = added[u]
                                 /\ \A p \in Polls : poll'[p][u] = poll[p][u]
    /\ CloudGrows
    /\ faults' \in 0..MaxFaults

\* AccountedFor, for one task.
Accounted(t) ==
    tasks[t].status = "active" /\ ~Unique(t) => InHand(t) \/ t \in stranded

ProducerEffect(t) ==
    /\ ProducerFrame(t)
    /\ t \in CustomIds /\ Accounted(t) => Accounted(t)'

LEMMA ProducerContext ==
    ASSUME TypeOK, NEW t \in Tasks
    PROVE  /\ TasksOK /\ CloudTypeOK /\ ProducerTypeOK
           /\ faults \in 0..MaxFaults
           /\ UNCHANGED cloud => CloudGrows
           /\ UNCHANGED tasks => OnlyRecordOf(t)
BY NoRecordChange DEF TypeOK, StorageTypeOK, CloudTypeOK, CloudGrows

\* addTask for t moves on; t is recorded as stranded or not.
LEMMA AddStepEffect ==
    ASSUME ProducerTypeOK, NEW t \in Tasks, NEW from \in AddStates,
           NEW to \in AddStates, AddStep(t, from, to),
           stranded' \in {stranded, stranded \cup {t}}
    PROVE  /\ ProducerTypeOK'
           /\ added[t] = from /\ added'[t] = to
           /\ UNCHANGED poll
           /\ stranded \subseteq stranded'
           /\ \A u \in Tasks : u # t => /\ added'[u] = added[u]
                                        /\ \A p \in Polls : poll'[p][u] = poll[p][u]
BY DEF ProducerTypeOK, AddStep

LEMMA PollStepEffect ==
    ASSUME ProducerTypeOK, NEW p \in Polls, NEW t \in Tasks, NEW from \in PollStates,
           NEW to \in PollStates, PollStep(p, t, from, to)
    PROVE  /\ ProducerTypeOK'
           /\ poll[p][t] = from /\ poll'[p][t] = to
           /\ UNCHANGED <<added, stranded>>
           /\ \A u \in Tasks : u # t => \A q \in Polls : poll'[q][u] = poll[q][u]
BY DEF ProducerTypeOK, PollStep

\* addTask, up to the record.
LEMMA AddEffect ==
    ASSUME TypeOK, NEW t \in Tasks, UNCHANGED consumerVars,
           \/ AddTask(t) \/ AddTaskAgain(t) \/ AddCheckUniqueness(t) \/ AddCreate(t)
    PROVE  ProducerEffect(t)
<1>1. /\ TasksOK /\ CloudTypeOK /\ ProducerTypeOK /\ faults \in 0..MaxFaults
      /\ UNCHANGED cloud => CloudGrows
      /\ UNCHANGED tasks => OnlyRecordOf(t)
  BY ProducerContext
<1>2. {"none", "unique", "create", "send", "done", "skipped"} \subseteq AddStates
  BY DEF AddStates
<1>3. added[t] \in AddStates
  BY <1>1 DEF ProducerTypeOK
\* A step between states in which addTask does not hold the task itself.
<1>4. ASSUME NEW from \in AddStates \ {"send", "reset"}, NEW to \in AddStates,
             AddStep(t, from, to), UNCHANGED <<stranded, tasks, cloud>>,
             faults' \in 0..MaxFaults
      PROVE  ProducerEffect(t)
  <2>1. ProducerFrame(t)
    BY <1>1, <1>4, AddStepEffect DEF ProducerFrame
  <2>2. added[t] \notin {"send", "reset"} /\ UNCHANGED poll
    BY <1>1, <1>4, AddStepEffect
  <2>3. Accounted(t) => Accounted(t)'
    BY <1>4, <2>2 DEF Accounted, InHand, InService, consumerVars
  <2>4. QED
    BY <2>1, <2>3 DEF ProducerEffect
<1>5. CASE AddTask(t)
  <2>1. AddStart(t) \in AddStates
    BY <1>2 DEF AddStart
  <2>2. QED
    BY <1>1, <1>2, <1>4, <1>5, <2>1 DEF AddTask, storageVars, cloudVars
<1>6. CASE AddTaskAgain(t)
  <2>1. AddStart(t) \in AddStates
    BY <1>2 DEF AddStart
  <2>2. added[t] \notin {"send", "reset"}
    BY <1>6 DEF AddTaskAgain, AddSettled
  <2>3. faults' \in 0..MaxFaults
    BY <1>1, <1>6, FaultEffect DEF AddTaskAgain
  <2>4. QED
    BY <1>3, <1>4, <1>6, <2>1, <2>2, <2>3 DEF AddTaskAgain, storageVars
<1>7. CASE AddCheckUniqueness(t)
  BY <1>1, <1>2, <1>4, <1>7 DEF AddCheckUniqueness, storageVars, cloudVars
<1>8. CASE AddCreate(t)
  <2> DEFINE to == IF t \in Immediate THEN "send" ELSE "done"
             status == IF t \in Immediate THEN "active" ELSE "idle"
  <2>1. to \in AddStates /\ status \in Status
    BY <1>2 DEF Status
  <2>2. OnlyRecordOf(t) /\ tasks'[t].status = status
    BY <1>1, <1>8, <2>1, CreateTaskEffect DEF AddCreate
  <2>3. AddStep(t, "create", to) /\ UNCHANGED <<stranded, cloud, faults>>
    BY <1>8 DEF AddCreate, cloudVars
  <2>4. ProducerFrame(t) /\ added'[t] = to
    BY <1>1, <1>2, <2>1, <2>2, <2>3, AddStepEffect DEF ProducerFrame
  <2>5. Accounted(t)'
    BY <2>2, <2>4 DEF Accounted, InHand
  <2>6. QED
    BY <2>4, <2>5 DEF ProducerEffect
<1>9. QED
  BY <1>5, <1>6, <1>7, <1>8

\* addTask with skipBuffering or a scheduleTime, from the record on.
LEMMA AddSendEffect ==
    ASSUME TypeOK, NEW t \in Tasks, AddSend(t) \/ AddReset(t)
    PROVE  ProducerEffect(t)
<1>1. /\ TasksOK /\ CloudTypeOK /\ ProducerTypeOK /\ faults \in 0..MaxFaults
      /\ UNCHANGED cloud => CloudGrows
      /\ UNCHANGED tasks => OnlyRecordOf(t)
  BY ProducerContext
<1>2. {"send", "reset", "done", "threw"} \subseteq AddStates
  BY DEF AddStates
<1>3. CASE AddSend(t)
  <2>1. PICK outcome \in {"created", "caught", "thrown"} :
           /\ SendTaskToGcp(t, outcome)
           /\ AddStep(t, "send", CASE outcome = "created" -> "done"
                                   [] outcome = "caught"  -> "reset"
                                   [] outcome = "thrown"  -> "threw")
           /\ stranded' = IF outcome = "thrown" THEN stranded \cup {t} ELSE stranded
    BY <1>3 DEF AddSend
  <2>2. /\ OnlyRecordOf(t) /\ CloudGrows /\ faults' \in 0..MaxFaults
        /\ outcome = "created" => cloud'[t] > 0
    BY <1>1, <1>3, <2>1, SendEffect DEF AddSend, storageVars
  <2>3. CASE outcome = "created"
    <3>1. AddStep(t, "send", "done") /\ UNCHANGED stranded
      BY <2>1, <2>3
    <3>2. ProducerFrame(t)
      BY <1>1, <1>2, <2>2, <3>1, AddStepEffect DEF ProducerFrame
    <3>3. QED
      BY <2>2, <2>3, <3>2 DEF ProducerEffect, Accounted, InHand, InService
  <2>4. CASE outcome = "caught"
    <3>1. AddStep(t, "send", "reset") /\ UNCHANGED stranded
      BY <2>1, <2>4
    <3>2. ProducerFrame(t) /\ added'[t] = "reset"
      BY <1>1, <1>2, <2>2, <3>1, AddStepEffect DEF ProducerFrame
    <3>3. QED
      BY <3>2 DEF ProducerEffect, Accounted, InHand
  <2>5. CASE outcome = "thrown"
    <3>1. AddStep(t, "send", "threw") /\ stranded' = stranded \cup {t}
      BY <2>1, <2>5
    <3>2. ProducerFrame(t)
      BY <1>1, <1>2, <2>2, <3>1, AddStepEffect DEF ProducerFrame
    <3>3. QED
      BY <3>1, <3>2 DEF ProducerEffect, Accounted
  <2>6. QED
    BY <2>3, <2>4, <2>5
<1>4. CASE AddReset(t)
  <2>1. /\ OnlyRecordOf(t)
        /\ t \in CustomIds => tasks'[t].status # "active"
    BY <1>1, <1>4, ResetAfterCatchEffect DEF AddReset
  <2>2. AddStep(t, "reset", "done") /\ UNCHANGED <<stranded, cloud, faults>>
    BY <1>4 DEF AddReset, cloudVars
  <2>3. ProducerFrame(t)
    BY <1>1, <1>2, <2>1, <2>2, AddStepEffect DEF ProducerFrame
  <2>4. QED
    BY <2>1, <2>3 DEF ProducerEffect, Accounted
<1>5. QED
  BY <1>3, <1>4

\* sendBufferTasks, task by task.
LEMMA PollEffect ==
    ASSUME TypeOK, NEW p \in Polls, NEW t \in Tasks,
           PollMark(p, t) \/ PollSend(p, t) \/ PollReset(p, t) \/ PollRevert(p, t)
    PROVE  ProducerEffect(t)
<1>1. /\ TasksOK /\ CloudTypeOK /\ ProducerTypeOK /\ faults \in 0..MaxFaults
      /\ UNCHANGED cloud => CloudGrows
      /\ UNCHANGED tasks => OnlyRecordOf(t)
  BY ProducerContext
<1>2. PollStates = {"none", "mark", "send", "reset", "revert"}
  BY DEF PollStates
<1>3. ASSUME NEW from \in PollStates, NEW to \in PollStates, PollStep(p, t, from, to),
             OnlyRecordOf(t), CloudGrows, faults' \in 0..MaxFaults
      PROVE  ProducerFrame(t) /\ poll'[p][t] = to
  BY <1>1, <1>3, PollStepEffect DEF ProducerFrame
<1>4. CASE PollMark(p, t)
  <2>1. OnlyRecordOf(t)
    BY <1>1, <1>4, UpdateTaskStatusEffect DEF PollMark, Status
  <2>2. ProducerFrame(t) /\ poll'[p][t] = "send"
    BY <1>1, <1>2, <1>3, <1>4, <2>1 DEF PollMark, cloudVars
  <2>3. QED
    BY <2>2 DEF ProducerEffect, Accounted, InHand
<1>5. CASE PollSend(p, t)
  <2>1. PICK outcome \in {"created", "caught", "thrown"} :
           /\ SendTaskToGcp(t, outcome)
           /\ PollStep(p, t, "send", CASE outcome = "created" -> "none"
                                       [] outcome = "caught"  -> "reset"
                                       [] outcome = "thrown"  -> "revert")
    BY <1>5 DEF PollSend
  <2>2. /\ OnlyRecordOf(t) /\ CloudGrows /\ faults' \in 0..MaxFaults
        /\ outcome = "created" => cloud'[t] > 0
    BY <1>1, <1>5, <2>1, SendEffect DEF PollSend, storageVars
  <2>3. CASE outcome = "created"
    <3>1. PollStep(p, t, "send", "none")
      BY <2>1, <2>3
    <3>2. ProducerFrame(t)
      BY <1>2, <1>3, <2>2, <3>1
    <3>3. QED
      BY <2>2, <2>3, <3>2 DEF ProducerEffect, Accounted, InHand, InService
  <2>4. CASE outcome = "caught"
    <3>1. PollStep(p, t, "send", "reset")
      BY <2>1, <2>4
    <3>2. ProducerFrame(t) /\ poll'[p][t] = "reset"
      BY <1>2, <1>3, <2>2, <3>1
    <3>3. QED
      BY <3>2 DEF ProducerEffect, Accounted, InHand
  <2>5. CASE outcome = "thrown"
    <3>1. PollStep(p, t, "send", "revert")
      BY <2>1, <2>5
    <3>2. ProducerFrame(t) /\ poll'[p][t] = "revert"
      BY <1>2, <1>3, <2>2, <3>1
    <3>3. QED
      BY <3>2 DEF ProducerEffect, Accounted, InHand
  <2>6. QED
    BY <2>3, <2>4, <2>5
<1>6. CASE PollReset(p, t)
  <2>1. /\ OnlyRecordOf(t)
        /\ t \in CustomIds => tasks'[t].status # "active"
    BY <1>1, <1>6, ResetAfterCatchEffect DEF PollReset
  <2>2. ProducerFrame(t)
    BY <1>1, <1>2, <1>3, <1>6, <2>1 DEF PollReset, cloudVars
  <2>3. QED
    BY <2>1, <2>2 DEF ProducerEffect, Accounted
<1>7. CASE PollRevert(p, t)
  <2>1. OnlyRecordOf(t) /\ tasks'[t].status # "active"
    BY <1>1, <1>7, UpdateTaskStatusEffect DEF PollRevert, Status
  <2>2. ProducerFrame(t)
    BY <1>1, <1>2, <1>3, <1>7, <2>1 DEF PollRevert, cloudVars
  <2>3. QED
    BY <2>1, <2>2 DEF ProducerEffect, Accounted
<1>8. QED
  BY <1>4, <1>5, <1>6, <1>7

-----------------------------------------------------------------------------
(* Types.  KeyedAt is what TypeOK needs next to it: the keys stay keys only      *)
(* because a job that saves one serves a task that has one.                   *)

TypeInv == TypeOK /\ KeyedAt

LEMMA TypeInvInit == Init => TypeInv
<1> SUFFICES ASSUME Init PROVE TypeInv
  OBVIOUS
<1>1. StorageTypeOK
  BY DEF Init, StorageInit, StorageTypeOK, NoTask, TaskRecords
<1>2. CloudTypeOK
  BY CloudAssumption DEF Init, CloudInit, CloudTypeOK
<1>3. ProducerTypeOK
  BY DEF Init, ProducerInit, ProducerTypeOK, AddStates, PollStates
<1>4. ConsumerTypeOK /\ KeyedAt
  BY NoJobType DEF Init, ConsumerInit, ConsumerTypeOK, KeyedAt
<1>5. QED
  BY <1>1, <1>2, <1>3, <1>4 DEF TypeInv, TypeOK

LEMMA ProducerTypes ==
    ASSUME TypeInv, ProducerNext
    PROVE  TypeInv'
<1>1. TypeOK /\ KeyedAt /\ UNCHANGED consumerVars
  BY DEF TypeInv, ProducerNext
<1>2. ConsumerTypeOK' /\ KeyedAt'
  BY <1>1 DEF TypeOK, ConsumerTypeOK, KeyedAt, consumerVars
<1>3. ASSUME NEW t \in Tasks, ProducerEffect(t), UNCHANGED keys
      PROVE  TypeInv'
  BY <1>1, <1>2, <1>3 DEF TypeInv, TypeOK, ProducerEffect, ProducerFrame, OnlyRecordOf,
                    StorageTypeOK, CloudTypeOK, CloudGrows
<1>4. ASSUME NEW t \in Tasks, AddTask(t) \/ AddTaskAgain(t) \/ AddSteps(t)
      PROVE  TypeInv'
  <2>1. ProducerEffect(t)
    BY <1>1, <1>4, AddEffect, AddSendEffect DEF AddSteps
  <2>2. UNCHANGED keys
    BY <1>4 DEF AddTask, AddTaskAgain, AddSteps, AddCheckUniqueness, AddCreate,
                AddSend, AddReset, storageVars
  <2>3. QED
    BY <1>3, <2>1, <2>2
<1>5. ASSUME NEW p \in Polls, NEW t \in Tasks,
             PollMark(p, t) \/ PollSend(p, t) \/ PollReset(p, t) \/ PollRevert(p, t)
      PROVE  TypeInv'
  <2>1. ProducerEffect(t)
    BY <1>1, <1>5, PollEffect
  <2>2. UNCHANGED keys
    BY <1>5 DEF PollMark, PollSend, PollReset, PollRevert, storageVars
  <2>3. QED
    BY <1>3, <2>1, <2>2
<1>6. ASSUME NEW p \in Polls, PollFetch(p)
      PROVE  TypeInv'
  <2>1. ProducerTypeOK'
    BY <1>1, <1>6 DEF PollFetch, TypeOK, ProducerTypeOK, PollStates
  <2>2. QED
    BY <1>1, <1>2, <1>6, <2>1 DEF PollFetch, TypeInv, TypeOK, storageVars, cloudVars,
                                  StorageTypeOK, CloudTypeOK
<1>7. QED
  BY <1>4, <1>5, <1>6 DEF ProducerNext, PollSteps

LEMMA DequeueEffect ==
    ASSUME CloudTypeOK, NEW t \in Tasks, Dequeue(t)
    PROVE  /\ cloud' \in [Tasks -> Nat]
           /\ \A u \in Tasks : u # t => cloud'[u] = cloud[u]
BY DEF CloudTypeOK, Dequeue

\* A request reaches an instance.
LEMMA DeliverEffect ==
    ASSUME TypeInv, NEW j \in Jobs, NEW t \in Tasks, Deliver(j, t)
    PROVE  /\ OnlyJob(j) /\ job[j].task = NoTaskId /\ job'[j].task = t
           /\ job'[j].pc = "lookup"
           /\ cloud' \in [Tasks -> Nat]
           /\ \A u \in Tasks : u # t => cloud'[u] = cloud[u]
           /\ UNCHANGED <<tasks, keys, faults, failures>>
<1> DEFINE request == [NoJob EXCEPT !.pc = "lookup", !.task = t]
<1>1. request \in JobRecords /\ request.pc = "lookup" /\ request.task = t
  BY DEF NoJob, JobRecords, JobStates, Missing
<1>2. job' = [job EXCEPT ![j] = request]
  BY DEF Deliver
<1> HIDE DEF request
<1>3. JobsOK /\ CloudTypeOK /\ t # NoTaskId
  BY ConsumerAssumption DEF TypeInv, TypeOK, ConsumerTypeOK, JobsOK
<1>4. OnlyJob(j) /\ job'[j] = request
  BY <1>1, <1>2, <1>3 DEF JobsOK, OnlyJob
<1>5. job[j].task = NoTaskId
  BY <1>3 DEF Deliver, At, JobsOK
<1>6. QED
  BY <1>1, <1>3, <1>4, <1>5, DequeueEffect DEF Deliver, storageVars

LEMMA ConsumerTypes ==
    ASSUME TypeInv, ConsumerNext
    PROVE  TypeInv'
<1>1. TypeOK /\ KeyedAt /\ UNCHANGED producerVars
  BY DEF TypeInv, ConsumerNext
<1>2. ProducerTypeOK'
  BY <1>1 DEF TypeOK, ProducerTypeOK, producerVars
<1>3. CASE \E j \in Jobs : JobStep(j)
  <2>1. PICK j \in Jobs : JobEffect(j)
    BY <1>1, <1>3, JobStepEffect
  <2>2. StorageTypeOK' /\ CloudTypeOK' /\ ConsumerTypeOK'
    BY <2>1 DEF JobEffect, JobFrame, OnlyRecordOf, OnlyJob, JobsOK, CloudGrows,
                StorageTypeOK, CloudTypeOK, ConsumerTypeOK
  <2>3. KeyedAt'
    <3>1. JobsOK'
      BY <2>1 DEF JobEffect, JobFrame, OnlyJob
    <3>2. ASSUME NEW i \in Jobs, job'[i].pc \in {"unique", "save"}
          PROVE  Unique(job'[i].task)
      <4>1. CASE i # j
        BY <1>1, <2>1, <3>2, <4>1 DEF JobEffect, JobFrame, OnlyJob, KeyedAt
      <4>2. CASE i = j
        <5>1. job'[j].task = job[j].task
          BY <2>1, <3>1, <3>2, <4>2 DEF JobEffect, JobFrame, JobsOK
        <5>2. QED
          BY <2>1, <3>2, <4>2, <5>1 DEF JobEffect, JobFrame
      <4>3. QED
        BY <4>1, <4>2
    <3>3. QED
      BY <3>2 DEF KeyedAt, Unique
  <2>4. QED
    BY <1>2, <2>2, <2>3 DEF TypeInv, TypeOK
<1>4. ASSUME NEW j \in Jobs, NEW t \in Tasks, Deliver(j, t)
      PROVE  TypeInv'
  <2>1. /\ OnlyJob(j) /\ job'[j].pc = "lookup" /\ cloud' \in [Tasks -> Nat]
        /\ UNCHANGED <<tasks, keys, faults, failures>>
    BY <1>4, DeliverEffect
  <2>2. StorageTypeOK' /\ CloudTypeOK' /\ ConsumerTypeOK'
    BY <1>1, <2>1 DEF TypeOK, OnlyJob, JobsOK, StorageTypeOK, CloudTypeOK,
                      ConsumerTypeOK
  <2>3. KeyedAt'
    BY <1>1, <2>1 DEF KeyedAt, OnlyJob, Unique
  <2>4. QED
    BY <1>2, <2>2, <2>3 DEF TypeInv, TypeOK
<1>5. ASSUME NEW t \in Tasks, DeliverWithoutTaskId(t)
      PROVE  TypeInv'
  <2>1. cloud' \in [Tasks -> Nat]
    BY <1>1, <1>5, DequeueEffect DEF DeliverWithoutTaskId, TypeOK, CloudTypeOK
  <2>2. QED
    BY <1>1, <1>2, <1>5, <2>1
       DEF DeliverWithoutTaskId, TypeInv, TypeOK, StorageTypeOK, CloudTypeOK,
           ConsumerTypeOK, KeyedAt, storageVars, consumerVars
<1>6. QED
  BY <1>3, <1>4, <1>5 DEF ConsumerNext

\* A lock that runs out: no record changes its status, no job moves.
LEMMA LockExpiresEffect ==
    ASSUME TypeInv, NEW t \in Tasks, LockExpires(t)
    PROVE  /\ tasks' \in [Tasks -> TaskRecords]
           /\ \A u \in Tasks : tasks'[u].status = tasks[u].status
           /\ job' \in [Jobs -> JobRecords]
           /\ \A j \in Jobs : job'[j].pc = job[j].pc /\ job'[j].task = job[j].task
           /\ UNCHANGED <<keys, cloudVars, producerVars, failures>>
<1>1. TasksOK /\ job \in [Jobs -> JobRecords]
  BY DEF TypeInv, TypeOK, StorageTypeOK, ConsumerTypeOK
<1>2. /\ tasks' \in [Tasks -> TaskRecords]
      /\ \A u \in Tasks : tasks'[u].status = tasks[u].status
  BY <1>1 DEF LockExpires, TaskRecords
<1>3. ASSUME NEW j \in Jobs
      PROVE  /\ job'[j] \in JobRecords
             /\ job'[j].pc = job[j].pc /\ job'[j].task = job[j].task
  <2>1. job'[j] \in {[job[j] EXCEPT !.leased = FALSE], job[j]}
    BY DEF LockExpires
  <2>2. QED
    BY <1>1, <2>1 DEF JobRecords
<1>4. job' \in [Jobs -> JobRecords]
  <2>1. job' = [j \in Jobs |-> job'[j]]
    BY DEF LockExpires
  <2>2. QED
    BY <1>3, <2>1
<1>5. QED
  BY <1>2, <1>3, <1>4 DEF LockExpires

\* What becomes of the requests and the calls of an instance that stops.
LEMMA CrashEffect ==
    ASSUME TypeInv, NEW w \in Workers, Crash(w)
    PROVE  /\ TypeInv'
           /\ \A t \in Tasks : tasks'[t].status = tasks[t].status
           /\ CloudGrows
           /\ \A j \in Jobs : job[j].task \in Tasks
                 => job'[j].task = job[j].task \/ cloud'[job[j].task] > 0
<1> DEFINE lostJobs == {j \in Jobs : WorkerOf[j] = w /\ ~At(j, "none")}
           Lost(t) == {j \in lostJobs : job[j].task = t}
<1>1. TypeOK /\ KeyedAt /\ TasksOK /\ CloudTypeOK /\ JobsOK
  BY DEF TypeInv, TypeOK, StorageTypeOK, ConsumerTypeOK, JobsOK
<1>2. StorageTypeOK' /\ \A t \in Tasks : tasks'[t].status = tasks[t].status
  <2>1. \A t \in Tasks : /\ tasks'[t] \in TaskRecords
                         /\ tasks'[t].status = tasks[t].status
    BY <1>1 DEF Crash, TaskRecords
  <2>2. tasks' = [t \in Tasks |-> tasks'[t]]
    BY DEF Crash
  <2>3. QED
    BY <1>1, <2>1, <2>2 DEF Crash, TypeOK, StorageTypeOK
<1>3. \A t \in Tasks : IsFiniteSet(Lost(t)) /\ Cardinality(Lost(t)) \in Nat
  <2>1. \A t \in Tasks : Lost(t) \subseteq Jobs
    OBVIOUS
  <2>2. QED
    BY <2>1, ConsumerAssumption, FS_Subset, FS_CardinalityType
<1>4. \A t \in Tasks : cloud'[t] = cloud[t] + Cardinality(Lost(t))
  BY DEF Crash
<1>5. CloudGrows
  <2>1. cloud' = [t \in Tasks |-> cloud'[t]]
    BY DEF Crash
  <2> HIDE DEF Lost
  <2>2. QED
    BY <1>1, <1>3, <1>4, <2>1 DEF CloudTypeOK, CloudGrows
<1>6. faults' \in 0..MaxFaults
  BY <1>1, FaultEffect DEF Crash
<1>7. ProducerTypeOK'
  BY <1>1 DEF Crash, TypeOK, ProducerTypeOK, AddStates, PollStates
<1>8. /\ job' \in [Jobs -> JobRecords]
      /\ \A j \in Jobs : job'[j] = IF j \in lostJobs THEN NoJob ELSE job[j]
  BY <1>1, NoJobType DEF Crash, JobsOK
<1>9. ConsumerTypeOK' /\ KeyedAt'
  BY <1>1, <1>8, NoJobType DEF Crash, TypeOK, ConsumerTypeOK, KeyedAt
<1>10. ASSUME NEW j \in Jobs, job[j].task \in Tasks
       PROVE  job'[j].task = job[j].task \/ cloud'[job[j].task] > 0
  <2> DEFINE t == job[j].task
  <2>1. CASE j \in lostJobs
    <3>1. Lost(t) # {}
      BY <2>1
    <3>2. Cardinality(Lost(t)) # 0
      BY <1>3, <1>10, <3>1, FS_EmptySet
    <3> DEFINE n == Cardinality(Lost(t))
    <3>3. /\ cloud'[t] = cloud[t] + n
          /\ n \in Nat /\ n # 0 /\ cloud[t] \in Nat
      BY <1>1, <1>3, <1>4, <1>10, <3>2 DEF CloudTypeOK
    <3> HIDE DEF n
    <3>4. QED
      BY <3>3
  <2>2. CASE j \notin lostJobs
    BY <1>8, <2>2
  <2>3. QED
    BY <2>1, <2>2
<1>11. QED
  BY <1>2, <1>5, <1>6, <1>7, <1>9, <1>10 DEF TypeInv, TypeOK, CloudTypeOK, CloudGrows

LEMMA EnvironmentTypes ==
    ASSUME TypeInv, EnvironmentNext
    PROVE  TypeInv'
<1>1. TypeOK /\ KeyedAt
  BY DEF TypeInv
<1>2. ASSUME NEW t \in Tasks, LockExpires(t)
      PROVE  TypeInv'
  BY <1>1, <1>2, LockExpiresEffect
     DEF TypeInv, TypeOK, StorageTypeOK, CloudTypeOK, ProducerTypeOK, ConsumerTypeOK,
         KeyedAt, Unique, cloudVars, producerVars
<1>3. ASSUME NEW t \in Tasks, RecordExpires(t)
      PROVE  TypeInv'
  <2>1. NoTask \in TaskRecords
    BY DEF NoTask, TaskRecords
  <2>2. StorageTypeOK'
    BY <1>1, <1>3, <2>1 DEF RecordExpires, TypeOK, StorageTypeOK
  <2>3. QED
    BY <1>1, <1>3, <2>2
       DEF RecordExpires, TypeInv, TypeOK, CloudTypeOK, ProducerTypeOK,
           ConsumerTypeOK, KeyedAt, cloudVars, producerVars, consumerVars
<1>4. ASSUME NEW t \in Tasks, PushAgain(t)
      PROVE  TypeInv'
  <2>1. CloudTypeOK'
    BY <1>1, <1>4, EnqueueEffect, FaultEffect
       DEF PushAgain, TypeOK, CloudTypeOK, CloudGrows
  <2>2. QED
    BY <1>1, <1>4, <2>1
       DEF PushAgain, TypeInv, TypeOK, StorageTypeOK, ProducerTypeOK,
           ConsumerTypeOK, KeyedAt, storageVars, producerVars, consumerVars
<1>5. ASSUME NEW w \in Workers, Crash(w)
      PROVE  TypeInv'
  BY <1>5, CrashEffect
<1>6. QED
  BY <1>2, <1>3, <1>4, <1>5 DEF EnvironmentNext

LEMMA TypeInvStep == TypeInv /\ [Next]_vars => TypeInv'
<1> SUFFICES ASSUME TypeInv, [Next]_vars PROVE TypeInv'
  OBVIOUS
<1>1. CASE Next
  BY <1>1, ProducerTypes, ConsumerTypes, EnvironmentTypes DEF Next
<1>2. CASE UNCHANGED vars
  BY <1>2 DEF vars, storageVars, cloudVars, producerVars, consumerVars,
              TypeInv, TypeOK, KeyedAt, StorageTypeOK, CloudTypeOK, ProducerTypeOK,
              ConsumerTypeOK
<1>3. QED
  BY <1>1, <1>2

\* Every variable keeps its type, for any number of tasks, instances, requests in
\* service, polls and faults, and for both adapters.
THEOREM TypeCorrect == Spec => []TypeOK
<1>1. TypeInv => TypeOK
  BY DEF TypeInv
<1>2. QED
  BY <1>1, TypeInvInit, TypeInvStep, PTL DEF Spec

-----------------------------------------------------------------------------
(* AccountedFor.  It is inductive next to TypeInv: every step keeps the tasks     *)
(* in hand that it is not about, and hands on, or stops being ACTIVE, the one     *)
(* that it is about.                                                         *)

AccountedInv == TypeInv /\ \A t \in CustomIds : Accounted(t)

LEMMA AccountedInvIsEnough == AccountedInv => AccountedFor
BY DEF AccountedInv, Accounted, AccountedFor

\* A task stays accounted for while its record keeps its status and nobody lets
\* go of it.
LEMMA StaysAccounted ==
    ASSUME TypeInv, NEW t \in Tasks, Accounted(t),
           tasks'[t].status = "active" => tasks[t].status = "active",
           cloud[t] > 0 => cloud'[t] > 0,
           \A j \in Jobs : job[j].task = t => job'[j].task = t \/ cloud'[t] > 0,
           added'[t] = added[t],
           \A p \in Polls : poll'[p][t] = poll[p][t],
           stranded \subseteq stranded'
    PROVE  Accounted(t)'
<1> SUFFICES ASSUME tasks'[t].status = "active", ~Unique(t), t \notin stranded'
             PROVE  InHand(t)'
  BY DEF Accounted, Unique
<1>1. InHand(t)
  BY DEF Accounted
<1>2. CASE InService(t)
  BY <1>2 DEF InService, InHand
<1>3. CASE added[t] \in {"send", "reset"}
  BY <1>3 DEF InHand
<1>4. CASE \E p \in Polls : poll[p][t] \in {"send", "reset", "revert"}
  BY <1>4 DEF InHand
<1>5. QED
  BY <1>1, <1>2, <1>3, <1>4 DEF InHand

LEMMA CloudNeverShrinks ==
    ASSUME CloudTypeOK, CloudGrows, NEW t \in Tasks, cloud[t] > 0
    PROVE  cloud'[t] > 0
BY DEF CloudTypeOK, CloudGrows

LEMMA ProducerAccounted ==
    ASSUME AccountedInv, ProducerNext, NEW t \in CustomIds
    PROVE  Accounted(t)'
<1>1. /\ TypeInv /\ TypeOK /\ CloudTypeOK /\ ProducerTypeOK /\ Accounted(t)
      /\ t \in Tasks /\ UNCHANGED consumerVars
  BY StorageAssumption DEF AccountedInv, TypeInv, TypeOK, ProducerNext
<1>2. ASSUME NEW u \in Tasks, ProducerEffect(u)
      PROVE  Accounted(t)'
  <2>1. CASE u = t
    BY <1>1, <1>2, <2>1 DEF ProducerEffect
  <2>2. CASE u # t
    BY <1>1, <1>2, <2>2, StaysAccounted, CloudNeverShrinks
       DEF ProducerEffect, ProducerFrame, OnlyRecordOf, consumerVars
  <2>3. QED
    BY <2>1, <2>2
<1>3. ASSUME NEW p \in Polls, PollFetch(p)
      PROVE  Accounted(t)'
  <2>1. \A q \in Polls : poll'[q][t] \in {"send", "reset", "revert"}
                            <=> poll[q][t] \in {"send", "reset", "revert"}
    BY <1>1, <1>3 DEF PollFetch, ProducerTypeOK
  <2>2. UNCHANGED <<tasks, cloud, job, added, stranded>>
    BY <1>1, <1>3 DEF PollFetch, storageVars, cloudVars, consumerVars
  <2>3. QED
    BY <1>1, <2>1, <2>2 DEF Accounted, InHand, InService
<1>4. QED
  BY <1>1, <1>2, <1>3, AddEffect, AddSendEffect, PollEffect
     DEF ProducerNext, AddSteps, PollSteps

\* Every task is pushed to a controller behind CloudTaskProcessorInterceptor.
Intercepted == \A t \in Tasks : ControllerOf[t] = "interceptor"

LEMMA ConsumerAccounted ==
    ASSUME Intercepted, AccountedInv, ConsumerNext, NEW t \in CustomIds
    PROVE  Accounted(t)'
<1>1. /\ TypeInv /\ TypeOK /\ KeyedAt /\ CloudTypeOK /\ JobsOK /\ Accounted(t)
      /\ t \in Tasks /\ UNCHANGED producerVars
  BY StorageAssumption
     DEF AccountedInv, TypeInv, TypeOK, ConsumerNext, ConsumerTypeOK, JobsOK
<1>2. CASE \E j \in Jobs : JobStep(j)
  <2>1. PICK j \in Jobs : JobFrame(j) /\ HandedOn(j)
    <3>1. PICK j \in Jobs : JobStep(j)
      BY <1>2
    <3>2. job[j].task \in Tasks
      BY <1>1, <3>1, JobStepInService, TaskOfJob
    <3>3. QED
      BY <1>1, <3>1, <3>2, JobStepEffect DEF JobEffect, Intercepted
  <2>2. CASE job[j].task = t
    BY <1>1, <2>1, <2>2 DEF HandedOn, Accounted, InHand, InService, Unique
  <2>3. CASE job[j].task # t
    <3>1. \A i \in Jobs : job[i].task = t => job'[i].task = t
      BY <2>1, <2>3 DEF JobFrame, OnlyJob
    <3>2. cloud[t] > 0 => cloud'[t] > 0
      BY <1>1, <2>1, CloudNeverShrinks DEF JobFrame
    <3>3. tasks'[t] = tasks[t]
      BY <1>1, <2>1, <2>3 DEF JobFrame, OnlyRecordOf
    <3>4. QED
      BY <1>1, <3>1, <3>2, <3>3, StaysAccounted DEF producerVars
  <2>4. QED
    BY <2>2, <2>3
<1>3. ASSUME NEW j \in Jobs, NEW u \in Tasks, Deliver(j, u)
      PROVE  Accounted(t)'
  <2>1. /\ OnlyJob(j) /\ job[j].task = NoTaskId /\ job'[j].task = u
        /\ \A v \in Tasks : v # u => cloud'[v] = cloud[v]
        /\ UNCHANGED <<tasks, keys, faults, failures>>
    BY <1>1, <1>3, DeliverEffect
  <2>2. CASE u = t
    BY <2>1, <2>2 DEF Accounted, InHand, InService
  <2>3. CASE u # t
    <3>1. t # NoTaskId
      BY <1>1, ConsumerAssumption
    <3>2. \A i \in Jobs : job[i].task = t => job'[i].task = t
      BY <2>1, <3>1 DEF OnlyJob
    <3>3. cloud'[t] = cloud[t] /\ UNCHANGED tasks
      BY <1>1, <2>1, <2>3
    <3>4. QED
      BY <1>1, <3>2, <3>3, StaysAccounted DEF producerVars
  <2>4. QED
    BY <2>2, <2>3
<1>4. ASSUME NEW u \in Tasks, DeliverWithoutTaskId(u)
      PROVE  Accounted(t)'
  <2>1. cloud'[t] = cloud[t] /\ UNCHANGED <<tasks, job>>
    BY <1>1, <1>4, DequeueEffect
       DEF DeliverWithoutTaskId, storageVars, consumerVars
  <2>2. QED
    BY <1>1, <2>1, StaysAccounted DEF producerVars
<1>5. QED
  BY <1>2, <1>3, <1>4 DEF ConsumerNext

LEMMA EnvironmentAccounted ==
    ASSUME AccountedInv, EnvironmentNext, NEW t \in CustomIds
    PROVE  Accounted(t)'
<1>1. /\ TypeInv /\ CloudTypeOK /\ ProducerTypeOK /\ Accounted(t) /\ TasksOK
      /\ t \in Tasks
  BY StorageAssumption DEF AccountedInv, TypeInv, TypeOK, StorageTypeOK
<1>2. ASSUME NEW u \in Tasks, LockExpires(u)
      PROVE  Accounted(t)'
  BY <1>1, <1>2, LockExpiresEffect, StaysAccounted DEF cloudVars, producerVars
<1>3. ASSUME NEW u \in Tasks, RecordExpires(u)
      PROVE  Accounted(t)'
  <2>1. tasks'[t].status = "active" => tasks[t].status = "active"
    BY <1>1, <1>3 DEF RecordExpires, NoTask
  <2>2. QED
    BY <1>1, <1>3, <2>1, StaysAccounted
       DEF RecordExpires, cloudVars, producerVars, consumerVars
<1>4. ASSUME NEW u \in Tasks, PushAgain(u)
      PROVE  Accounted(t)'
  <2>1. cloud[t] > 0 => cloud'[t] > 0
    BY <1>1, <1>4, EnqueueEffect, CloudNeverShrinks DEF PushAgain
  <2>2. QED
    BY <1>1, <1>4, <2>1, StaysAccounted
       DEF PushAgain, storageVars, producerVars, consumerVars
<1>5. ASSUME NEW w \in Workers, Crash(w)
      PROVE  Accounted(t)'
  <2>1. /\ tasks'[t].status = tasks[t].status
        /\ CloudGrows
        /\ \A j \in Jobs : job[j].task \in Tasks
              => job'[j].task = job[j].task \/ cloud'[job[j].task] > 0
    BY <1>1, <1>5, CrashEffect
  <2>2. InService(t) => InService(t)'
    BY <1>1, <2>1, CloudNeverShrinks DEF InService
  <2>3. stranded \subseteq stranded'
    BY <1>5 DEF Crash
  <2>4. added[t] \in {"send", "reset"} => added'[t] = added[t] \/ t \in stranded'
    BY <1>1, <1>5 DEF Crash, AddSettled
  <2>5. ASSUME NEW p \in Polls, poll[p][t] \in {"send", "reset", "revert"}
        PROVE  poll'[p][t] = poll[p][t] \/ t \in stranded'
    BY <1>1, <1>5, <2>5 DEF Crash
  <2>6. QED
    BY <1>1, <2>1, <2>2, <2>3, <2>4, <2>5 DEF Accounted, InHand, Unique
<1>6. QED
  BY <1>2, <1>3, <1>4, <1>5 DEF EnvironmentNext

(***************************************************************************)
(* Behind the interceptor no task with a taskId of its own and without a        *)
(* uniqueness key is forgotten while it is ACTIVE, whichever faults happen and   *)
(* however many, with either adapter, rate limiting and re-submission included. *)
(* (With TaskController it does not hold: a rate-limit retry whose credentials   *)
(* cannot be read is answered 200.)                                          *)
(***************************************************************************)
THEOREM NoTaskForgotten ==
    ASSUME Intercepted
    PROVE  Spec => []AccountedFor
<1>1. Init => AccountedInv
  <2>1. Init => \A t \in CustomIds : Accounted(t)
    BY StorageAssumption DEF Init, StorageInit, NoTask, Accounted
  <2>2. QED
    BY <2>1, TypeInvInit DEF AccountedInv
<1>2. AccountedInv /\ [Next]_vars => AccountedInv'
  <2> SUFFICES ASSUME AccountedInv, [Next]_vars PROVE AccountedInv'
    OBVIOUS
  <2>1. TypeInv'
    BY TypeInvStep DEF AccountedInv
  <2>2. ASSUME NEW t \in CustomIds PROVE Accounted(t)'
    <3>1. CASE Next
      BY <3>1, ProducerAccounted, ConsumerAccounted, EnvironmentAccounted DEF Next
    <3>2. CASE UNCHANGED vars
      BY <3>2 DEF AccountedInv, Accounted, InHand, InService, Unique, vars,
                  storageVars, cloudVars, producerVars, consumerVars
    <3>3. QED
      BY <3>1, <3>2
  <2>3. QED
    BY <2>1, <2>2 DEF AccountedInv
<1>3. QED
  BY <1>1, <1>2, AccountedInvIsEnough, PTL DEF Spec
=============================================================================
