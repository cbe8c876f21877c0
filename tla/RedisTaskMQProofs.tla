------------------------- MODULE RedisTaskMQProofs -------------------------
(***************************************************************************)
(* Theorems about RedisTaskMQ for every value of its constants: the types,       *)
(* AccountedFor, FoundByStatus and ImplementsTaskStore.                         *)
(***************************************************************************)
EXTENDS RedisTaskMQ, FiniteSetTheorems, TLAPS

(***************************************************************************)
(* A call as it goes on: what it is about to do fits the operation, and what      *)
(* it is going to write has the fields and values that operation writes.           *)
(***************************************************************************)
CallFields == {"at", "op", "task", "worker", "change", "seen", "cleanup", "result"}

Outcomes == {"completeTask", "failTask"}

CleanUps == {"readToDelete", "delete", "expire", "hget", "hset"}

OutcomeStatus(op) == IF op = "completeTask" THEN "completed" ELSE "failed"

\* The changes of the callers of updateTaskStatus.
Written == {"idle", "active", "failed"}

Changes == [status : Written] \cup [status : Written, retryCount : Nat]
                              \cup [status : Written, reEnqueues : Nat]

\* What updateTaskStatus lays over the record, whoever calls it.
ChangeFits(k) ==
    \/ /\ k.op = "updateTaskStatus"
       /\ k.change \in Changes
    \/ /\ k.op = "acquireTaskLock"
       /\ k.worker \in Workers
       /\ k.change \in [status : {"active"}, workerId : {k.worker}, lockedUntil : Nat]
    \/ /\ k.op = "releaseTaskLock"
       /\ k.change \in [status : Status, workerId : {Nobody}, lockedUntil : {0}]
    \/ /\ k.op \in Outcomes
       /\ k.change \in [status : {OutcomeStatus(k.op)}]

CallFits(k) ==
    /\ DOMAIN k = CallFields
    /\ k.at \in CallSteps
    /\ k.task \in Tasks \cup {NoTaskId}
    /\ k.at # "none" => k.task \in Tasks
    /\ k.seen \in Hashes
    /\ k.cleanup \in RemoveOptions
    /\ k.op \notin Outcomes => k.cleanup = "unset"
    /\ k.at = "get" => k.op = "getTaskById"
    /\ k.at = "create" => /\ k.op = "createTask"
                          /\ k.change \in [status : {"active"}, reEnqueues : Nat]
    /\ k.at = "lock" => k.op = "acquireTaskLock" /\ k.worker \in Workers
    /\ k.at = "release" => k.op = "releaseTaskLock"
    /\ k.at = "outcome" => k.op \in Outcomes
    /\ k.at \in {"outcome", "read", "write"} => ChangeFits(k)
    /\ k.at \in {"write", "delete"} => k.seen.status \in Status
    /\ k.at \in CleanUps => k.op \in Outcomes

CallsOK ==
    /\ call = [c \in Callers |-> call[c]]
    /\ \A c \in Callers : CallFits(call[c])

\* Only a record can be locked.
StoreOK ==
    /\ hash \in [Tasks -> Hashes]
    /\ \A t \in Tasks :
          hash[t].status \notin Status => hash[t].workerId = Nobody /\ hash[t].lockedUntil = 0
    /\ ttl \subseteq Tasks
    /\ listed \in [Tasks -> SUBSET Status]
    /\ locks \in [Tasks -> Nat]
    /\ overlapped \subseteq Tasks

JobRecords == [pc : JobStates, task : Tasks \cup {NoTaskId}, read : Nat \cup {Missing},
               tries : 0 .. 3, lease : Nat]

QueuesOK ==
    /\ cloud \in [Tasks -> Nat]
    /\ faults \in 0 .. MaxFaults
    /\ adding \in [Tasks -> {"none", "create", "send", "reset", "done", "threw"}]
    /\ job \in [Jobs -> JobRecords]

\* Where a job waits for no adapter call.
Resting == {"none", "limit", "resend", "run"}

\* The call a job waits for elsewhere.
OpFits(pc, op) ==
    /\ pc \in {"lookup", "refetch"} => op = "getTaskById"
    /\ pc \in {"activate", "giveUp", "reschedule", "rereset"} => op = "updateTaskStatus"
    /\ pc = "release" => op = "releaseTaskLock"
    /\ pc = "recreate" => op = "createTask"
    /\ pc = "lock" => op = "acquireTaskLock"
    /\ pc = "complete" => op = "completeTask"
    /\ pc \in {"lockFailed", "fail", "failAgain"} => op = "failTask"

\* A job and its call, addTask and its call.
JobAt(j) ==
    LET pc == job[j].pc
        k == call[j]
    IN  /\ pc = "none" => job[j].task = NoTaskId
        /\ pc # "none" => job[j].task \in Tasks
        /\ pc # "lockFailed" => job[j].tries < 3
        /\ pc \in Resting <=> k.at = "none"
        /\ k.at # "none" => k.task = job[j].task /\ OpFits(pc, k.op)
        /\ InCall(j) /\ k.op \in {"acquireTaskLock", "releaseTaskLock"} =>
              k.worker = WorkerOf[j]
        /\ pc = "rereset" /\ k.at \in {"read", "write"} => k.change.status # "active"

AddAt(t) ==
    LET k == call[t]
    IN  /\ adding[t] \in {"create", "reset"} <=> k.at # "none"
        /\ k.at # "none" => k.task = t
        /\ adding[t] = "create" => k.op = "createTask"
        /\ adding[t] = "reset" => k.op = "updateTaskStatus"
        /\ adding[t] = "reset" /\ k.at \in {"read", "write"} => k.change.status # "active"

TypeInv ==
    /\ StoreOK /\ CallsOK /\ QueuesOK
    /\ \A j \in Jobs : JobAt(j)
    /\ \A t \in Tasks : AddAt(t)

LEMMA TypeInvIsEnough == TypeInv => TypeOK
<1>1. CallFields = DOMAIN NoCall
  BY DEF CallFields, NoCall
<1>2. CallsOK /\ StoreOK => RedisTypeOK
  BY <1>1 DEF CallsOK, CallFits, StoreOK, RedisTypeOK
<1>3. QED
  BY <1>2 DEF TypeInv, TypeOK, QueuesOK, JobRecords

-----------------------------------------------------------------------------
(* Records and calls, one field over another *)

\* The calls that start, whatever they are about to do.
StartsWith(request, t, at, op) ==
    LET k == Over(request, NoCall)
    IN  /\ request.task = t /\ k.task = t
        /\ k.at = at /\ k.op = op
        /\ CallFits(k)

LEMMA NoHashFits == NoHash \in Hashes /\ NoHash.status = "absent"
BY DEF NoHash, Hashes

LEMMA NoCallFits == CallFits(NoCall) /\ NoCall.at = "none"
BY NoHashFits DEF NoCall, CallFits, CallFields, CallSteps, RemoveOptions, CleanUps, Outcomes

LEMMA GetStarts ==
    ASSUME NEW t \in Tasks
    PROVE  StartsWith(GetTaskById(t), t, "get", "getTaskById")
BY NoHashFits DEF StartsWith, GetTaskById, Over, NoCall, CallFits, CallFields, CallSteps,
                  RemoveOptions, CleanUps, Outcomes

LEMMA CreateStarts ==
    ASSUME NEW t \in Tasks, NEW n \in Nat
    PROVE  StartsWith(CreateTask(t, "active", n), t, "create", "createTask")
BY NoHashFits DEF StartsWith, CreateTask, Over, NoCall, CallFits, CallFields, CallSteps,
                  RemoveOptions, CleanUps, Outcomes

LEMMA UpdateStarts ==
    ASSUME NEW t \in Tasks, NEW change \in Changes
    PROVE  /\ StartsWith(UpdateTaskStatus(t, change), t, "read", "updateTaskStatus")
           /\ Over(UpdateTaskStatus(t, change), NoCall).change = change
BY NoHashFits DEF StartsWith, UpdateTaskStatus, Over, NoCall, CallFits, ChangeFits, CallFields,
                  CallSteps, RemoveOptions, CleanUps, Outcomes, Changes

LEMMA LockStarts ==
    ASSUME NEW t \in Tasks, NEW w \in Workers
    PROVE  /\ StartsWith(AcquireTaskLock(t, w), t, "lock", "acquireTaskLock")
           /\ Over(AcquireTaskLock(t, w), NoCall).worker = w
BY NoHashFits DEF StartsWith, AcquireTaskLock, Over, NoCall, CallFits, CallFields, CallSteps,
                  RemoveOptions, CleanUps, Outcomes

LEMMA ReleaseStarts ==
    ASSUME NEW t \in Tasks, NEW w \in Workers
    PROVE  /\ StartsWith(ReleaseTaskLock(t, w), t, "release", "releaseTaskLock")
           /\ Over(ReleaseTaskLock(t, w), NoCall).worker = w
BY NoHashFits DEF StartsWith, ReleaseTaskLock, Over, NoCall, CallFits, CallFields, CallSteps,
                  RemoveOptions, CleanUps, Outcomes

LEMMA OutcomeStarts ==
    ASSUME NEW t \in Tasks
    PROVE  /\ StartsWith(CompleteTask(t), t, "outcome", "completeTask")
           /\ StartsWith(FailTask(t), t, "outcome", "failTask")
<1>1. StartsWith(CompleteTask(t), t, "outcome", "completeTask")
  BY NoHashFits DEF StartsWith, CompleteTask, Over, NoCall, CallFits, ChangeFits, OutcomeStatus,
                    CallFields, CallSteps, RemoveOptions, CleanUps, Outcomes
<1>2. StartsWith(FailTask(t), t, "outcome", "failTask")
  BY NoHashFits DEF StartsWith, FailTask, Over, NoCall, CallFits, ChangeFits, OutcomeStatus,
                    CallFields, CallSteps, RemoveOptions, CleanUps, Outcomes
<1>3. QED
  BY <1>1, <1>2

LEMMA InvokeEffect ==
    ASSUME CallsOK, NEW c \in Callers, NEW request, NEW t, NEW at, NEW op,
           StartsWith(request, t, at, op), Invoke(c, request)
    PROVE  /\ call' = [call EXCEPT ![c] = call'[c]] /\ call'[c] = Over(request, NoCall)
           /\ CallFits(call'[c])
           /\ call'[c].at = at /\ call'[c].op = op /\ call'[c].task = t
           /\ overlapped' = IF Busy(t) THEN overlapped \cup {t} ELSE overlapped
<1> DEFINE k == Over(request, NoCall)
<1>1. k.at = at /\ k.op = op /\ k.task = t /\ request.task = t /\ CallFits(k)
  BY DEF StartsWith
<1>2. call' = [call EXCEPT ![c] = k]
  BY DEF Invoke
<1> HIDE DEF k
<1>3. call'[c] = k
  BY <1>2 DEF CallsOK
<1>4. overlapped' = IF Busy(t) THEN overlapped \cup {t} ELSE overlapped
  BY <1>1 DEF Invoke
<1>5. QED
  BY <1>1, <1>2, <1>3, <1>4 DEF k

LEMMA NoCallEffect ==
    ASSUME CallsOK, NEW c \in Callers, NoCallBy(c)
    PROVE  /\ call' = [call EXCEPT ![c] = call'[c]] /\ call'[c] = NoCall
           /\ overlapped' = overlapped
BY DEF CallsOK, NoCallBy
-----------------------------------------------------------------------------
(* The commands of a call *)

\* An update laid over a record: which fields it leaves alone depends on the operation.
LEMMA OverlayFits ==
    ASSUME NEW k, ChangeFits(k), NEW h \in Hashes
    PROVE  LET u == Over(k.change, h)
           IN  /\ u \in Hashes /\ u.status = k.change.status /\ u.status \in Status
               /\ k.op = "acquireTaskLock" =>
                     /\ u.status = "active" /\ u.workerId = k.worker /\ k.worker \in Workers
                     /\ u.retryCount = h.retryCount /\ u.reEnqueues = h.reEnqueues
               /\ k.op = "releaseTaskLock" =>
                     /\ u.workerId = Nobody
                     /\ u.retryCount = h.retryCount /\ u.reEnqueues = h.reEnqueues
               /\ k.op \notin {"acquireTaskLock", "releaseTaskLock"} =>
                     u.workerId = h.workerId /\ u.lockedUntil = h.lockedUntil
               /\ k.op = "updateTaskStatus" => u.status \in Written
               /\ k.op = "completeTask" => u.status = "completed"
               /\ k.op = "failTask" => u.status = "failed"
<1>1. CASE k.op = "updateTaskStatus"
  BY <1>1 DEF ChangeFits, Changes, Written, Over, Hashes, Outcomes, Status
<1>2. CASE k.op = "acquireTaskLock"
  BY <1>2 DEF ChangeFits, Over, Hashes, Outcomes, Status
<1>3. CASE k.op = "releaseTaskLock"
  BY <1>3 DEF ChangeFits, Over, Hashes, Outcomes
<1>4. CASE k.op \in Outcomes
  BY <1>4 DEF ChangeFits, Over, Hashes, Outcomes, OutcomeStatus, Status
<1>5. QED
  BY <1>1, <1>2, <1>3, <1>4 DEF ChangeFits

\* What HMSET makes of a record: a lock that is unset keeps the old one.
LEMMA WrittenFits ==
    ASSUME NEW u \in Hashes, NEW h \in Hashes
    PROVE  LET g == Over(SerializeTask(u), h)
           IN  /\ g \in Hashes /\ g.status = u.status
               /\ g.retryCount = u.retryCount /\ g.reEnqueues = u.reEnqueues
               /\ u.workerId = Nobody =>
                     g.workerId = h.workerId /\ g.lockedUntil = h.lockedUntil
               /\ u.workerId # Nobody =>
                     g.workerId = u.workerId /\ g.lockedUntil = u.lockedUntil
BY DEF Hashes, Over, SerializeTask, LockFields

LEMMA ReturnEffect ==
    ASSUME CallsOK, NEW c \in Callers, InCall(c), NEW result, NEW record \in Hashes,
           Return(c, result, record)
    PROVE  /\ call' = [call EXCEPT ![c] = call'[c]] /\ CallFits(call'[c])
           /\ call'[c].at = "returned" /\ call'[c].result = result
           /\ call'[c].op = call[c].op /\ call'[c].task = call[c].task
           /\ call'[c].seen = record
<1> DEFINE k == [NoCall EXCEPT !.at = "returned", !.op = call[c].op, !.task = call[c].task,
                               !.seen = record, !.result = result]
<1>1. call[c].task \in Tasks
  BY DEF CallsOK, CallFits, InCall
<1>2. /\ CallFits(k) /\ k.at = "returned" /\ k.result = result /\ k.op = call[c].op
      /\ k.task = call[c].task /\ k.seen = record
  BY <1>1 DEF CallFits, NoCall, CallFields, CallSteps, RemoveOptions, CleanUps
<1>3. call' = [call EXCEPT ![c] = k]
  BY DEF Return
<1> HIDE DEF k
<1>4. QED
  BY <1>2, <1>3 DEF CallsOK

(***************************************************************************)
(* What one command of the call of c may do: to the call, to the record, and to     *)
(* what the task's being ACTIVE rests on.                                       *)
(***************************************************************************)
CallGoesOn(c) ==
    /\ InCall(c)
    /\ call' = [call EXCEPT ![c] = call'[c]]
    /\ CallFits(call'[c])
    /\ call'[c].at # "none"
    /\ call'[c].task = call[c].task /\ call'[c].op = call[c].op
    /\ call'[c].at # "returned" => call'[c].worker = call[c].worker
    /\ call'[c].at \in {"read", "write"} /\ call[c].op = "updateTaskStatus" =>
          call[c].at \in {"read", "write"} /\ call'[c].change = call[c].change
    /\ overlapped' = overlapped

ActiveByCall(c) ==
    LET k == call[c]
        m == call'[c]
        after == hash'[k.task].status
    IN  /\ after = "active" =>
              \/ hash[k.task].status = "active" /\ k.at # "write"
              \/ k.at = "create"
              \/ k.at = "write" /\ k.change.status = "active"
        /\ m.at = "returned" /\ m.result = "null" => after # "active"
        /\ m.at = "returned" /\ k.op = "updateTaskStatus" =>
              after # "active" \/ k.at = "write"
        /\ k.op \in Outcomes =>
              \/ after # "active" \/ k.at \in CleanUps
              \/ m.at \notin CleanUps /\ (m.at = "returned" => m.result # "done")

Served(c) ==
    /\ CallGoesOn(c) /\ ActiveByCall(c)
    /\ StoreOK' /\ hash' = [hash EXCEPT ![call[c].task] = hash'[call[c].task]]

LEMMA HashesKept ==
    ASSUME StoreOK, UNCHANGED <<hash, ttl, listed, overlapped>>, locks' \in [Tasks -> Nat],
           NEW t \in Tasks
    PROVE  StoreOK' /\ hash' = [hash EXCEPT ![t] = hash'[t]]
BY DEF StoreOK

\* The commands that only read, and end the call.
LEMMA ReadServed ==
    ASSUME TypeInv, NEW c \in Callers, ReadBroken(c) \/ ReadMissing(c) \/ Get(c)
    PROVE  Served(c)
<1> DEFINE k == call[c]
<1> DEFINE t == k.task
<1>1. CallsOK /\ StoreOK /\ CallFits(k)
  BY DEF TypeInv, CallsOK
<1>2. k.at \in Reads /\ InCall(c) /\ t \in Tasks
  BY <1>1 DEF ReadBroken, ReadMissing, Get, Finds, Reads, InCall, CallFits
<1>3. StoreOK' /\ hash' = [hash EXCEPT ![t] = hash'[t]] /\ UNCHANGED <<hash, overlapped>>
  BY <1>1, <1>2, HashesKept DEF ReadBroken, ReadMissing, Get, StoreOK
<1>4. CASE ReadBroken(c)
  <2>1. /\ hash[t].status = "broken" /\ Return(c, "threw", NoHash)
    BY <1>4 DEF ReadBroken, MetadataOnly, NoHash
  <2>2. CallGoesOn(c) /\ call'[c].result = "threw"
    BY <1>1, <1>2, <1>3, <2>1, ReturnEffect, NoHashFits DEF CallGoesOn
  <2>3. QED
    BY <1>2, <1>3, <2>1, <2>2 DEF Served, ActiveByCall, Reads
<1>5. CASE ReadMissing(c)
  <2> DEFINE result ==
         CASE k.at \in {"lock", "release"}                      -> "refused"
           [] k.op \in {"getTaskById", "updateTaskStatus"}      -> "null"
           [] k.op \in {"acquireTaskLock", "releaseTaskLock"}   -> "done"
           [] k.at = "readToDelete"                             -> "done"
           [] OTHER                                             -> "threw"
  <2>1. hash[t].status = "absent" /\ Return(c, result, NoHash)
    BY <1>5 DEF ReadMissing, NoHash
  <2> HIDE DEF result
  <2>2. CallGoesOn(c)
    BY <1>1, <1>2, <1>3, <2>1, ReturnEffect, NoHashFits DEF CallGoesOn
  <2>3. QED
    BY <1>2, <1>3, <2>1, <2>2 DEF Served, ActiveByCall, Reads
<1>6. CASE Get(c)
  <2>1. k.op = "getTaskById" /\ Return(c, "done", hash[t]) /\ hash[t] \in Hashes
    BY <1>1, <1>2, <1>6 DEF Get, Finds, CallFits, StoreOK
  <2>2. CallGoesOn(c) /\ call'[c].result = "done"
    BY <1>1, <1>2, <1>3, <2>1, ReturnEffect DEF CallGoesOn
  <2>3. QED
    BY <1>2, <1>3, <1>6, <2>1, <2>2 DEF Served, ActiveByCall, Get, Finds, Outcomes
<1>7. QED
  BY <1>4, <1>5, <1>6

\* The commands that read and go on.
LEMMA DecisionServed ==
    ASSUME TypeInv, NEW c \in Callers,
           DecideLock(c) \/ DecideRelease(c) \/ BeginOutcome(c) \/ ReadToUpdate(c)
              \/ ReadToDelete(c)
    PROVE  Served(c)
<1> DEFINE k == call[c]
<1> DEFINE t == k.task
<1>1. CallsOK /\ StoreOK /\ CallFits(k)
  BY DEF TypeInv, CallsOK
<1>2. InCall(c) /\ t \in Tasks /\ hash[t] \in Hashes /\ hash[t].status \in Status
  BY <1>1 DEF DecideLock, DecideRelease, BeginOutcome, ReadToUpdate, ReadToDelete, Finds,
              InCall, CallFits, StoreOK
<1>3. StoreOK' /\ hash' = [hash EXCEPT ![t] = hash'[t]] /\ UNCHANGED <<hash, overlapped>>
  <2>1. locks' \in [Tasks -> Nat]
    BY <1>1 DEF DecideLock, DecideRelease, BeginOutcome, ReadToUpdate, ReadToDelete, StoreOK
  <2>2. UNCHANGED <<hash, ttl, listed, overlapped>>
    BY DEF DecideLock, DecideRelease, BeginOutcome, ReadToUpdate, ReadToDelete
  <2>3. QED
    BY <1>1, <1>2, <2>1, <2>2, HashesKept
<1>4. CASE DecideLock(c)
  <2>1. k.op = "acquireTaskLock" /\ k.worker \in Workers /\ k.at = "lock" /\ k.cleanup = "unset"
    BY <1>1, <1>4 DEF DecideLock, Finds, CallFits, Outcomes
  <2>2. CASE Return(c, "refused", NoHash)
    <3>1. CallGoesOn(c) /\ call'[c].result = "refused" /\ call'[c].at = "returned"
      BY <1>1, <1>2, <1>3, <2>1, <2>2, ReturnEffect, NoHashFits DEF CallGoesOn
    <3>2. QED
      BY <1>3, <2>1, <3>1 DEF Served, ActiveByCall, Outcomes
  <2>3. CASE ~Return(c, "refused", NoHash)
    <3> DEFINE change == [status |-> "active", workerId |-> k.worker, lockedUntil |-> locks[t] + 1]
    <3> DEFINE m == [k EXCEPT !.at = "read", !.change = change]
    <3>1. call' = [call EXCEPT ![c].at = "read", ![c].change = change]
      BY <1>4, <2>3 DEF DecideLock
    <3>2. change \in [status : {"active"}, workerId : {k.worker}, lockedUntil : Nat]
      BY <1>1, <1>2 DEF StoreOK
    <3> HIDE DEF change
    <3>3. m.at = "read" /\ m.change = change /\ m.op = k.op /\ m.task = t /\ m.worker = k.worker
          /\ CallFits(m)
      BY <1>1, <2>1, <3>2
         DEF CallFits, ChangeFits, CallFields, CallSteps, CleanUps, Outcomes
    <3>4. call' = [call EXCEPT ![c] = m]
      BY <1>1, <3>1 DEF CallsOK
    <3> HIDE DEF m
    <3>5. CallGoesOn(c) /\ call'[c].at = "read"
      BY <1>1, <1>2, <1>3, <2>1, <3>3, <3>4 DEF CallsOK, CallGoesOn
    <3>6. QED
      BY <1>3, <2>1, <3>5 DEF Served, ActiveByCall, Outcomes
  <2>4. QED
    BY <2>2, <2>3
<1>5. CASE DecideRelease(c)
  <2>1. k.op = "releaseTaskLock" /\ k.at = "release" /\ k.cleanup = "unset"
    BY <1>1, <1>5 DEF DecideRelease, Finds, CallFits, Outcomes
  <2>2. CASE Return(c, "refused", NoHash)
    <3>1. CallGoesOn(c) /\ call'[c].result = "refused" /\ call'[c].at = "returned"
      BY <1>1, <1>2, <1>3, <2>1, <2>2, ReturnEffect, NoHashFits DEF CallGoesOn
    <3>2. QED
      BY <1>3, <2>1, <3>1 DEF Served, ActiveByCall, Outcomes
  <2>3. CASE ~Return(c, "refused", NoHash)
    <3> DEFINE change == [status |-> hash[t].status, workerId |-> Nobody, lockedUntil |-> 0]
    <3> DEFINE m == [k EXCEPT !.at = "read", !.change = change]
    <3>1. call' = [call EXCEPT ![c].at = "read", ![c].change = change]
      BY <1>5, <2>3 DEF DecideRelease
    <3>2. change \in [status : Status, workerId : {Nobody}, lockedUntil : {0}]
      BY <1>2
    <3> HIDE DEF change
    <3>3. m.at = "read" /\ m.change = change /\ m.op = k.op /\ m.task = t /\ m.worker = k.worker
          /\ CallFits(m)
      BY <1>1, <2>1, <3>2
         DEF CallFits, ChangeFits, CallFields, CallSteps, CleanUps, Outcomes
    <3>4. call' = [call EXCEPT ![c] = m]
      BY <1>1, <3>1 DEF CallsOK
    <3> HIDE DEF m
    <3>5. CallGoesOn(c) /\ call'[c].at = "read"
      BY <1>1, <1>2, <1>3, <2>1, <3>3, <3>4 DEF CallsOK, CallGoesOn
    <3>6. QED
      BY <1>3, <2>1, <3>5 DEF Served, ActiveByCall, Outcomes
  <2>4. QED
    BY <2>2, <2>3
<1>6. CASE BeginOutcome(c)
  <2> DEFINE option == IF k.op = "completeTask" THEN RemoveOnComplete[t] ELSE RemoveOnFail[t]
  <2> DEFINE removal == EffectiveRemoval(option, hash[t])
  <2> DEFINE m == [k EXCEPT !.at = "read", !.cleanup = removal]
  <2>1. k.op \in Outcomes /\ k.at = "outcome" /\ ChangeFits(k)
    BY <1>1, <1>6 DEF BeginOutcome, Finds, CallFits
  <2>2. removal \in RemoveOptions
    BY <1>2, RedisAssumption DEF EffectiveRemoval, RemoveOptions
  <2>3. call' = [call EXCEPT ![c].at = "read", ![c].cleanup = removal]
    BY <1>6 DEF BeginOutcome
  <2> HIDE DEF removal
  <2>4. /\ DOMAIN m = CallFields /\ m.at = "read" /\ m.change = k.change /\ m.op = k.op
        /\ m.task = t /\ m.worker = k.worker /\ m.cleanup = removal /\ m.seen = k.seen
    BY <1>1 DEF CallFits, CallFields
  <2>5. call' = [call EXCEPT ![c] = m]
    BY <1>1, <2>3 DEF CallsOK
  <2> HIDE DEF m
  <2>6. ChangeFits(m) /\ CallFits(m)
    BY <1>1, <2>1, <2>2, <2>4 DEF CallFits, ChangeFits, CallSteps, CleanUps, Outcomes
  <2>7. CallGoesOn(c) /\ call'[c].at = "read"
    BY <1>1, <1>2, <1>3, <2>1, <2>4, <2>5, <2>6 DEF CallsOK, CallGoesOn, Outcomes
  <2>8. QED
    BY <1>3, <2>1, <2>7 DEF Served, ActiveByCall, Outcomes, CleanUps
<1>7. CASE ReadToUpdate(c)
  <2> DEFINE m == [k EXCEPT !.at = "write", !.seen = hash[t]]
  <2>1. k.at = "read" /\ ChangeFits(k)
    BY <1>1, <1>7 DEF ReadToUpdate, Finds, CallFits
  <2>2. /\ DOMAIN m = CallFields /\ m.at = "write" /\ m.change = k.change /\ m.op = k.op
        /\ m.task = t /\ m.worker = k.worker /\ m.cleanup = k.cleanup /\ m.seen = hash[t]
    BY <1>1 DEF CallFits, CallFields
  <2>3. call' = [call EXCEPT ![c] = m]
    BY <1>1, <1>7 DEF CallsOK, ReadToUpdate
  <2> HIDE DEF m
  <2>4. CallFits(m)
    BY <1>1, <1>2, <2>1, <2>2 DEF CallFits, ChangeFits, CallSteps, CleanUps
  <2>5. CallGoesOn(c) /\ call'[c].at = "write"
    BY <1>1, <1>2, <1>3, <2>1, <2>2, <2>3, <2>4 DEF CallsOK, CallGoesOn
  <2>6. QED
    BY <1>3, <2>1, <2>5 DEF Served, ActiveByCall, Outcomes, CleanUps
<1>8. CASE ReadToDelete(c)
  <2> DEFINE m == [k EXCEPT !.at = "delete", !.seen.status = hash[t].status]
  <2>1. k.at = "readToDelete" /\ k.op \in Outcomes /\ k.seen \in Hashes
    BY <1>1, <1>8 DEF ReadToDelete, Finds, CallFits, CleanUps
  <2>2. /\ DOMAIN m = CallFields /\ m.at = "delete" /\ m.op = k.op /\ m.task = t
        /\ m.worker = k.worker /\ m.cleanup = k.cleanup
        /\ m.seen = [k.seen EXCEPT !.status = hash[t].status]
    BY <1>1 DEF CallFits, CallFields
  <2>3. m.seen \in Hashes /\ m.seen.status \in Status
    BY <1>2, <2>1, <2>2 DEF Hashes
  <2>4. call' = [call EXCEPT ![c] = m]
    BY <1>1, <1>8 DEF CallsOK, ReadToDelete
  <2> HIDE DEF m
  <2>5. CallFits(m)
    BY <1>1, <1>2, <2>1, <2>2, <2>3 DEF CallFits, CallSteps, CleanUps
  <2>6. CallGoesOn(c) /\ call'[c].at = "delete"
    BY <1>1, <1>2, <1>3, <2>1, <2>2, <2>4, <2>5 DEF CallsOK, CallGoesOn
  <2>7. QED
    BY <1>3, <2>1, <2>6 DEF Served, ActiveByCall, Outcomes, CleanUps
<1>9. QED
  BY <1>4, <1>5, <1>6, <1>7, <1>8
\* updateTaskStatus writes: the record that was read with the change over it.
LEMMA UpdateServed ==
    ASSUME TypeInv, NEW c \in Callers, WriteUpdate(c)
    PROVE  Served(c)
<1> DEFINE k == call[c]
<1> DEFINE t == k.task
<1> DEFINE u == Over(k.change, k.seen)
<1> DEFINE g == Over(SerializeTask(u), hash[t])
<1>1. CallsOK /\ StoreOK /\ CallFits(k)
  BY DEF TypeInv, CallsOK
<1>2. /\ InCall(c) /\ t \in Tasks /\ hash[t] \in Hashes
      /\ k.at = "write" /\ ChangeFits(k) /\ k.seen \in Hashes /\ k.seen.status \in Status
  BY <1>1 DEF WriteUpdate, InCall, CallFits, StoreOK
<1>3. /\ u \in Hashes /\ u.status = k.change.status /\ u.status \in Status
      /\ k.op = "completeTask" => u.status = "completed"
      /\ k.op = "failTask" => u.status = "failed"
  BY <1>2, OverlayFits
<1>4. g \in Hashes /\ g.status = u.status
  BY <1>2, <1>3, WrittenFits
<1>5. /\ hash' = [hash EXCEPT ![t] = g] /\ UNCHANGED <<ttl, locks, overlapped>>
      /\ listed' = Reindexed(t, k.seen.status, u.status) /\ AfterUpdate(c, u)
  BY DEF WriteUpdate, HMSet
<1> HIDE DEF u, g
<1>6. StoreOK' /\ hash'[t] = g
  BY <1>1, <1>2, <1>3, <1>4, <1>5 DEF StoreOK, Reindexed
<1>7. CASE k.cleanup \in {"now", "later"}
  <2> DEFINE at == IF k.cleanup = "now" THEN "readToDelete" ELSE "expire"
  <2> DEFINE m == [k EXCEPT !.at = at, !.change = <<>>, !.seen = NoHash]
  <2>1. k.op \in Outcomes
    BY <1>1, <1>7 DEF CallFits
  <2>2. call' = [call EXCEPT ![c].at = at, ![c].change = <<>>, ![c].seen = NoHash]
    BY <1>5, <1>7 DEF AfterUpdate, CleanUp
  <2>3. /\ DOMAIN m = CallFields /\ m.at = at /\ m.op = k.op /\ m.task = t
        /\ m.worker = k.worker /\ m.cleanup = k.cleanup /\ m.seen = NoHash
    BY <1>1 DEF CallFits, CallFields
  <2>4. at \in {"readToDelete", "expire"}
    OBVIOUS
  <2>5. call' = [call EXCEPT ![c] = m]
    BY <1>1, <2>2 DEF CallsOK
  <2> HIDE DEF m, at
  <2>6. CallFits(m)
    BY <1>1, <1>2, <2>1, <2>3, <2>4, NoHashFits DEF CallFits, CallSteps, CleanUps
  <2>7. CallGoesOn(c) /\ call'[c].at = at
    BY <1>1, <1>2, <1>5, <2>1, <2>3, <2>4, <2>5, <2>6 DEF CallsOK, CallGoesOn
  <2>8. QED
    BY <1>2, <1>3, <1>4, <1>5, <1>6, <2>1, <2>4, <2>7 DEF Served, ActiveByCall, Outcomes
<1>8. CASE k.cleanup \notin {"now", "later"}
  <2>1. Return(c, "done", u)
    BY <1>5, <1>8 DEF AfterUpdate
  <2>2. CallGoesOn(c) /\ call'[c].at = "returned" /\ call'[c].result = "done"
    BY <1>1, <1>2, <1>3, <1>5, <2>1, ReturnEffect DEF CallGoesOn
  <2>3. QED
    BY <1>2, <1>3, <1>4, <1>5, <1>6, <2>2 DEF Served, ActiveByCall, Outcomes
<1>9. QED
  BY <1>7, <1>8

LEMMA CreateServed ==
    ASSUME TypeInv, NEW c \in Callers, Create(c)
    PROVE  Served(c)
<1> DEFINE k == call[c]
<1> DEFINE t == k.task
<1> DEFINE g == Over(k.change, hash[t])
<1>1. CallsOK /\ StoreOK /\ CallFits(k)
  BY DEF TypeInv, CallsOK
<1>2. /\ InCall(c) /\ t \in Tasks /\ hash[t] \in Hashes
      /\ k.at = "create" /\ k.op = "createTask"
      /\ k.change \in [status : {"active"}, reEnqueues : Nat]
  BY <1>1 DEF Create, InCall, CallFits, StoreOK
<1>3. g \in Hashes /\ g.status = "active"
  BY <1>2 DEF Over, Hashes, Status
<1>4. /\ hash' = [hash EXCEPT ![t] = g] /\ UNCHANGED <<ttl, locks, overlapped>>
      /\ listed' = [listed EXCEPT ![t] = @ \cup {"active"}]
      /\ Return(c, "done", NoHash)
  BY <1>2 DEF Create, HMSet
<1> HIDE DEF g
<1>5. StoreOK' /\ hash'[t] = g
  BY <1>1, <1>2, <1>3, <1>4 DEF StoreOK, Status
<1>6. CallGoesOn(c) /\ call'[c].result = "done"
  BY <1>1, <1>2, <1>4, ReturnEffect, NoHashFits DEF CallGoesOn
<1>7. QED
  BY <1>2, <1>4, <1>5, <1>6 DEF Served, ActiveByCall, Outcomes

\* handleTaskCleanup and the deleteTask it calls.
LEMMA CleanUpServed ==
    ASSUME TypeInv, NEW c \in Callers,
           Delete(c) \/ Expire(c) \/ HGetMetadata(c) \/ HSetMetadata(c)
    PROVE  Served(c)
<1> DEFINE k == call[c]
<1> DEFINE t == k.task
<1>1. CallsOK /\ StoreOK /\ CallFits(k)
  BY DEF TypeInv, CallsOK
<1>2. InCall(c) /\ t \in Tasks /\ hash[t] \in Hashes /\ k.at \in CleanUps /\ k.op \in Outcomes
  BY <1>1 DEF Delete, Expire, HGetMetadata, HSetMetadata, InCall, CallFits, StoreOK, CleanUps
<1>3. k.op # "updateTaskStatus"
  BY <1>2 DEF Outcomes
<1>4. ASSUME NEW at \in CleanUps, NEW seen \in Hashes, seen.status \in Status \/ at # "delete",
             call' = [call EXCEPT ![c] = [k EXCEPT !.at = at, !.seen = seen]],
             UNCHANGED overlapped
      PROVE  CallGoesOn(c) /\ call'[c].at = at
  <2> DEFINE m == [k EXCEPT !.at = at, !.seen = seen]
  <2>1. /\ DOMAIN m = CallFields /\ m.at = at /\ m.op = k.op /\ m.task = t
        /\ m.worker = k.worker /\ m.cleanup = k.cleanup /\ m.seen = seen
    BY <1>1 DEF CallFits, CallFields
  <2> HIDE DEF m
  <2>2. CallFits(m)
    BY <1>1, <1>2, <1>4, <2>1 DEF CallFits, CallSteps, CleanUps
  <2>3. call' = [call EXCEPT ![c] = m]
    BY <1>4 DEF m
  <2>4. QED
    BY <1>1, <1>2, <1>3, <1>4, <2>1, <2>2, <2>3 DEF CallsOK, CallGoesOn, CleanUps
<1>5. ASSUME hash[t].status = "active" \/ hash'[t].status # "active", CallGoesOn(c), StoreOK',
             hash' = [hash EXCEPT ![t] = hash'[t]],
             call'[c].at # "returned" \/ call'[c].result = "done"
      PROVE  Served(c)
  BY <1>2, <1>3, <1>5 DEF Served, ActiveByCall, CleanUps
<1>6. CASE Delete(c)
  <2>1. Return(c, "done", NoHash) /\ hash' = [hash EXCEPT ![t] = NoHash] /\ UNCHANGED overlapped
    BY <1>6 DEF Delete
  <2>2. hash'[t].status = "absent" /\ StoreOK'
    BY <1>1, <1>2, <1>6, <2>1, NoHashFits DEF Delete, StoreOK, NoHash
  <2>3. CallGoesOn(c) /\ call'[c].result = "done"
    BY <1>1, <1>2, <2>1, ReturnEffect, NoHashFits DEF CallGoesOn
  <2>4. QED
    BY <1>1, <1>2, <1>5, <2>1, <2>2, <2>3 DEF StoreOK
<1>7. CASE Expire(c)
  <2>1. call' = [call EXCEPT ![c] = [k EXCEPT !.at = "hget", !.seen = k.seen]]
    <3>1. call' = [call EXCEPT ![c] = [k EXCEPT !.at = "hget"]]
      BY <1>1, <1>7 DEF Expire, Proceed, CallsOK
    <3>2. [k EXCEPT !.at = "hget"] = [k EXCEPT !.at = "hget", !.seen = k.seen]
      BY <1>1 DEF CallFits, CallFields
    <3>3. QED
      BY <3>1, <3>2
  <2>2. StoreOK' /\ hash' = [hash EXCEPT ![t] = hash'[t]] /\ UNCHANGED <<hash, overlapped>>
    BY <1>1, <1>2, <1>7 DEF Expire, StoreOK
  <2>3. CallGoesOn(c) /\ call'[c].at = "hget"
    BY <1>1, <1>4, <2>1, <2>2 DEF CallFits, CleanUps
  <2>4. QED
    BY <1>5, <2>2, <2>3
<1>8. CASE HGetMetadata(c)
  <2> DEFINE seen == [k.seen EXCEPT !.reEnqueues = hash[t].reEnqueues]
  <2>1. call' = [call EXCEPT ![c] = [k EXCEPT !.at = "hset", !.seen = seen]]
    BY <1>1, <1>8 DEF HGetMetadata, CallsOK
  <2>2. seen \in Hashes
    BY <1>1, <1>2 DEF CallFits, Hashes
  <2> HIDE DEF seen
  <2>3. StoreOK' /\ hash' = [hash EXCEPT ![t] = hash'[t]] /\ UNCHANGED <<hash, overlapped>>
    BY <1>1, <1>2, <1>8 DEF HGetMetadata, StoreOK
  <2>4. CallGoesOn(c) /\ call'[c].at = "hset"
    BY <1>4, <2>1, <2>2, <2>3 DEF CleanUps
  <2>5. QED
    BY <1>5, <2>3, <2>4
<1>9. CASE HSetMetadata(c)
  <2>1. k.seen \in Hashes /\ Return(c, "done", NoHash) /\ UNCHANGED overlapped
    BY <1>1, <1>9 DEF HSetMetadata, CallFits
  <2>2. MetadataOnly \in Hashes /\ MetadataOnly.status = "broken"
        /\ MetadataOnly.workerId = Nobody /\ MetadataOnly.lockedUntil = 0
    BY DEF MetadataOnly, NoHash, Hashes
  <2>3. PICK g \in Hashes :
            /\ hash' = [hash EXCEPT ![t] = g]
            /\ \/ g = [hash[t] EXCEPT !.reEnqueues = k.seen.reEnqueues]
                  /\ hash[t].status \in Status
               \/ g = MetadataOnly
    <3>1. [hash[t] EXCEPT !.reEnqueues = k.seen.reEnqueues] \in Hashes
      BY <1>2, <2>1 DEF Hashes
    <3>2. QED
      BY <1>9, <2>2, <3>1 DEF HSetMetadata
  <2>4. (g.status = hash[t].status /\ hash[t].status \in Status) \/ g = MetadataOnly
    BY <1>2, <2>3 DEF Hashes
  <2>5. StoreOK' /\ hash'[t] = g
    BY <1>1, <1>2, <1>9, <2>2, <2>3, <2>4 DEF StoreOK, HSetMetadata
  <2>6. CallGoesOn(c) /\ call'[c].result = "done"
    BY <1>1, <1>2, <2>1, ReturnEffect, NoHashFits DEF CallGoesOn
  <2>7. QED
    BY <1>5, <2>2, <2>3, <2>4, <2>5, <2>6
<1>10. QED
  BY <1>6, <1>7, <1>8, <1>9

LEMMA ServeEffect ==
    ASSUME TypeInv, NEW c \in Callers, Serve(c)
    PROVE  Served(c)
BY ReadServed, DecisionServed, UpdateServed, CreateServed, CleanUpServed DEF Serve
-----------------------------------------------------------------------------
(* The steps of a job *)

(***************************************************************************)
(* Settled(j): what j still does leaves a task ACTIVE that somebody else made     *)
(* ACTIVE. Its own last write was an outcome or IDLE, or it found no record.         *)
(***************************************************************************)
Settled(j) ==
    \/ /\ job[j].pc = "lookup"
       /\ Returned(j, "null")
    \/ /\ job[j].pc = "rereset"
       /\ Returned(j, "done") \/ Returned(j, "null")
    \/ /\ job[j].pc \in {"lockFailed", "complete", "failAgain"}
       /\ call[j].at \in CleanUps \/ Returned(j, "done")

Starts == {"get", "create", "lock", "release", "outcome", "read"}

(***************************************************************************)
(* j takes up its reply and starts its next call, waits for something else, or     *)
(* answers; unless it is settled, it keeps the task or leaves it to Cloud Tasks.     *)
(***************************************************************************)
JobGoesOn(j) ==
    LET k == call'[j]
        x == job'[j]
    IN  /\ ~InCall(j)
        /\ job' = [job EXCEPT ![j] = x] /\ x \in JobRecords
        /\ call' = [call EXCEPT ![j] = k] /\ CallFits(k)
        /\ JobAt(j)'
        /\ k.at \in Starts \cup {"none"}
        /\ k.at = "read" => k.op = "updateTaskStatus"
        /\ overlapped' = IF k.at # "none" /\ Busy(k.task) THEN overlapped \cup {k.task}
                                                          ELSE overlapped
        /\ UNCHANGED <<store, adding>>
        /\ cloud' \in [Tasks -> Nat] /\ faults' \in 0 .. MaxFaults
        /\ \A t \in Tasks : cloud[t] > 0 => cloud'[t] > 0 \/ x.task = t
        /\ \A t \in Tasks : job[j].task = t /\ ~Settled(j) => cloud'[t] > 0 \/ x.task = t

LEMMA EnqueueEffect ==
    ASSUME cloud \in [Tasks -> Nat], NEW t \in Tasks, Enqueue(t)
    PROVE  /\ cloud' \in [Tasks -> Nat] /\ cloud'[t] > 0
           /\ \A u \in Tasks : cloud[u] > 0 => cloud'[u] > 0
<1>1. \A u \in Tasks : cloud'[u] = IF u = t THEN cloud[u] + 1 ELSE cloud[u]
  BY DEF Enqueue
<1>2. cloud' \in [Tasks -> Nat]
  BY DEF Enqueue
<1>3. QED
  BY <1>1, <1>2

LEMMA AwaitEffect ==
    ASSUME TypeInv, NEW j \in Jobs, ~InCall(j),
           NEW x \in JobRecords, job' = [job EXCEPT ![j] = x],
           NEW t \in Tasks, x.task = t, job[j].task \in {t, NoTaskId},
           x.pc # "lockFailed" => x.tries < 3,
           NEW request, NEW at \in Starts, NEW op, StartsWith(request, t, at, op),
           Invoke(j, request),
           x.pc \notin Resting, OpFits(x.pc, op), at = "read" => op = "updateTaskStatus",
           at \in {"lock", "release"} => Over(request, NoCall).worker = WorkerOf[j],
           x.pc = "rereset" /\ at = "read" => Over(request, NoCall).change.status # "active",
           UNCHANGED <<store, adding>>, faults' \in 0 .. MaxFaults,
           cloud' \in [Tasks -> Nat],
           \A u \in Tasks : cloud[u] > 0 => cloud'[u] > 0 \/ u = t
    PROVE  JobGoesOn(j)
<1>1. CallsOK /\ job \in [Jobs -> JobRecords] /\ j \in Callers /\ t # NoTaskId
  BY RedisTaskAssumption, RedisAssumption DEF TypeInv, QueuesOK
<1>2. /\ call' = [call EXCEPT ![j] = call'[j]] /\ call'[j] = Over(request, NoCall)
      /\ CallFits(call'[j])
      /\ call'[j].at = at /\ call'[j].op = op /\ call'[j].task = t
      /\ overlapped' = IF Busy(t) THEN overlapped \cup {t} ELSE overlapped
  BY <1>1, InvokeEffect
<1>3. job'[j] = x
  BY <1>1
<1>4. JobAt(j)'
  BY <1>2, <1>3, RedisAssumption DEF JobAt, InCall, CallFits, Resting, Starts, Outcomes
<1>5. QED
  BY <1>1, <1>2, <1>3, <1>4, RedisAssumption DEF JobGoesOn, Starts

\* j waits for something else than an adapter call.
LEMMA RestEffect ==
    ASSUME TypeInv, NEW j \in Jobs, ~InCall(j), job[j].pc # "none",
           NEW x \in JobRecords, job' = [job EXCEPT ![j] = x],
           x.task = job[j].task, x.pc \in Resting \ {"none"}, x.tries < 3,
           NoCallBy(j), UNCHANGED <<store, cloud, faults, adding>>
    PROVE  JobGoesOn(j)
<1>1. CallsOK /\ QueuesOK /\ JobAt(j) /\ j \in Callers
  BY RedisTaskAssumption DEF TypeInv
<1>2. job'[j] = x
  BY <1>1 DEF QueuesOK
<1>3. /\ call' = [call EXCEPT ![j] = call'[j]] /\ call'[j] = NoCall /\ CallFits(NoCall)
      /\ NoCall.at = "none" /\ overlapped' = overlapped
  BY <1>1, NoCallEffect, NoCallFits
<1>4. JobAt(j)'
  BY <1>1, <1>2, <1>3 DEF JobAt, InCall, Resting
<1>5. QED
  BY <1>1, <1>2, <1>3, <1>4 DEF JobGoesOn, QueuesOK

\* j answers its request.
LEMMA AnswerEffect ==
    ASSUME TypeInv, NEW j \in Jobs, ~InCall(j), job[j].pc # "none",
           job' = [job EXCEPT ![j] = NoJob],
           NoCallBy(j) \/ (call[j].at = "none" /\ UNCHANGED <<call, overlapped>>),
           \/ Enqueue(job[j].task)
           \/ Settled(j) /\ UNCHANGED cloud,
           UNCHANGED <<store, adding>>, faults' \in 0 .. MaxFaults
    PROVE  JobGoesOn(j)
<1>1. CallsOK /\ QueuesOK /\ JobAt(j) /\ j \in Callers /\ job[j].task \in Tasks
  BY RedisTaskAssumption DEF TypeInv, JobAt
<1>2. NoJob \in JobRecords /\ job'[j] = NoJob
  BY <1>1 DEF QueuesOK, JobRecords, JobStates, NoJob, Missing
<1>3. /\ call' = [call EXCEPT ![j] = call'[j]] /\ CallFits(call'[j])
      /\ call'[j].at = "none" /\ overlapped' = overlapped
  BY <1>1, NoCallEffect, NoCallFits DEF CallsOK
<1>4. JobAt(j)'
  BY <1>2, <1>3 DEF JobAt, InCall, Resting, NoJob
<1>5. /\ cloud' \in [Tasks -> Nat]
      /\ \A t \in Tasks : cloud[t] > 0 => cloud'[t] > 0
      /\ Settled(j) \/ cloud'[job[j].task] > 0
  BY <1>1, EnqueueEffect DEF QueuesOK
<1>6. QED
  BY <1>2, <1>3, <1>4, <1>5 DEF JobGoesOn

LEMMA FaultEffect ==
    ASSUME faults \in 0 .. MaxFaults
    PROVE  \A kind \in FaultKinds : Fault(kind) => faults' \in 0 .. MaxFaults
BY RedisTaskAssumption DEF Fault

\* Between two calls j is not in one, and a reply has a task.
LEMMA JobFacts ==
    ASSUME TypeInv, NEW j \in Jobs
    PROVE  /\ job \in [Jobs -> JobRecords] /\ job[j] \in JobRecords
           /\ job[j].pc # "none" => job[j].task \in Tasks
           /\ job[j].pc # "lockFailed" => job[j].tries < 3
           /\ job[j].pc \in Resting => ~InCall(j) /\ call[j].at = "none"
           /\ \A result : Returned(j, result) => ~InCall(j) /\ job[j].pc # "none"
           /\ call[j].seen \in Hashes /\ WorkerOf[j] \in Workers
           /\ cloud \in [Tasks -> Nat] /\ faults \in 0 .. MaxFaults
           /\ MaxRetry \in [Tasks -> Nat]
           /\ \A pc \in JobStates : [job[j] EXCEPT !.pc = pc] \in JobRecords
<1>1. JobAt(j) /\ QueuesOK /\ CallFits(call[j])
  BY RedisTaskAssumption DEF TypeInv, CallsOK
<1>2. job[j] \in JobRecords /\ \A pc \in JobStates : [job[j] EXCEPT !.pc = pc] \in JobRecords
  BY <1>1 DEF QueuesOK, JobRecords
<1>3. QED
  BY <1>1, <1>2, RedisTaskAssumption
     DEF JobAt, QueuesOK, InCall, Returned, CallFits, Resting
LEMMA AwaitStep ==
    ASSUME TypeInv, NEW j \in Jobs, ~InCall(j), job[j].pc \notin {"none", "lockFailed"},
           NEW pc \in JobStates \ Resting, NEW request, Await(j, pc, request),
           NEW at \in Starts, NEW op, StartsWith(request, job[j].task, at, op),
           OpFits(pc, op), at = "read" => op = "updateTaskStatus",
           at \in {"lock", "release"} => Over(request, NoCall).worker = WorkerOf[j],
           pc = "rereset" => Over(request, NoCall).change.status # "active",
           UNCHANGED <<store, adding>>, faults' \in 0 .. MaxFaults,
           cloud' \in [Tasks -> Nat],
           \A u \in Tasks : cloud[u] > 0 => cloud'[u] > 0
    PROVE  JobGoesOn(j)
<1> DEFINE x == [job[j] EXCEPT !.pc = pc]
<1>1. /\ x \in JobRecords /\ x.pc = pc /\ x.task = job[j].task /\ x.tries = job[j].tries
      /\ job[j].task \in Tasks /\ job[j].tries < 3 /\ job \in [Jobs -> JobRecords]
  BY JobFacts DEF JobRecords
<1>2. job' = [job EXCEPT ![j] = x] /\ Invoke(j, request)
  BY <1>1 DEF Await
<1> HIDE DEF x
<1>3. QED
  BY <1>1, <1>2, AwaitEffect

LEMMA DeliverGoesOn ==
    ASSUME TypeInv, NEW j \in Jobs, NEW t \in Tasks, Deliver(j, t)
    PROVE  JobGoesOn(j)
<1> DEFINE x == [NoJob EXCEPT !.pc = "lookup", !.task = t]
<1>1. x \in JobRecords /\ x.pc = "lookup" /\ x.task = t /\ x.tries < 3
  <2>1. NoJob \in JobRecords /\ NoJob.tries < 3
    BY DEF JobRecords, JobStates, NoJob, Missing
  <2>2. QED
    BY <2>1 DEF JobRecords, JobStates
<1>2. ~InCall(j) /\ job[j].task = NoTaskId /\ job' = [job EXCEPT ![j] = x]
  BY JobFacts DEF Deliver, At, TypeInv, JobAt, Resting
<1>3. /\ cloud' \in [Tasks -> Nat] /\ faults' \in 0 .. MaxFaults
      /\ \A u \in Tasks : cloud[u] > 0 => cloud'[u] > 0 \/ u = t
  <2>1. cloud \in [Tasks -> Nat] /\ cloud[t] > 0 /\ cloud' = [cloud EXCEPT ![t] = @ - 1]
    BY JobFacts DEF Deliver
  <2>2. QED
    BY <2>1, JobFacts DEF Deliver
<1> HIDE DEF x
<1>4. QED
  BY <1>1, <1>2, <1>3, GetStarts, AwaitEffect
     DEF Deliver, Resting, OpFits, Starts

\* The replies after which j makes its next call.
LEMMA CallsNext ==
    ASSUME TypeInv, NEW j \in Jobs,
           Refetch(j) \/ Released(j) \/ Reschedule(j) \/ Fail(j)
    PROVE  JobGoesOn(j)
<1> DEFINE t == job[j].task
<1>1. /\ ~InCall(j) /\ job[j].pc \notin {"none", "lockFailed"} /\ t \in Tasks
      /\ WorkerOf[j] \in Workers /\ job[j].read \in Nat \cup {Missing}
  BY JobFacts DEF Refetch, Released, Reschedule, Fail, Replied, At, JobRecords
<1>2. /\ UNCHANGED <<store, cloud, faults, adding>> /\ cloud' \in [Tasks -> Nat]
      /\ faults' \in 0 .. MaxFaults
      /\ \A u \in Tasks : cloud[u] > 0 => cloud'[u] > 0 \/ u = t
  BY JobFacts DEF Refetch, Released, Reschedule, Fail
<1>3. ReEnqueueCount(j) \in Nat /\ ReEnqueueCount(j) - 1 \in Nat
  BY <1>1 DEF ReEnqueueCount, Missing
<1>4. CASE Refetch(j)
  <2> DEFINE read == IF Returned(j, "done") THEN call[j].seen.reEnqueues ELSE Missing
  <2> DEFINE x == [job[j] EXCEPT !.pc = "release", !.read = read]
  <2>1. read \in Nat \cup {Missing} /\ job[j] \in JobRecords /\ job[j].tries < 3
    BY <1>1, JobFacts DEF Hashes
  <2>2. job' = [job EXCEPT ![j] = x] /\ Invoke(j, ReleaseTaskLock(t, WorkerOf[j]))
    BY <1>4, JobFacts DEF Refetch
  <2> HIDE DEF read
  <2>3. x \in JobRecords /\ x.pc = "release" /\ x.task = t /\ x.tries < 3
    BY <2>1 DEF JobRecords, JobStates
  <2> HIDE DEF x
  <2>4. /\ StartsWith(ReleaseTaskLock(t, WorkerOf[j]), t, "release", "releaseTaskLock")
        /\ Over(ReleaseTaskLock(t, WorkerOf[j]), NoCall).worker = WorkerOf[j]
    BY <1>1, ReleaseStarts
  <2>5. QED
    BY <1>1, <1>2, <2>2, <2>3, <2>4, AwaitEffect DEF Resting, OpFits, Starts
<1>5. CASE Released(j)
  <2> DEFINE n == ReEnqueueCount(j)
  <2> HIDE DEF n
  <2>1. CASE Await(j, "giveUp", UpdateTaskStatus(t, [status |-> "failed", reEnqueues |-> n - 1]))
    <3>1. [status |-> "failed", reEnqueues |-> n - 1] \in Changes
      BY <1>3 DEF n, Changes, Written
    <3>2. StartsWith(UpdateTaskStatus(t, [status |-> "failed", reEnqueues |-> n - 1]),
                     t, "read", "updateTaskStatus")
      BY <1>1, <3>1, UpdateStarts
    <3>3. QED
      BY <1>1, <1>2, <2>1, <3>2, AwaitStep DEF Resting, OpFits, Starts, JobStates
  <2>2. CASE Await(j, "reschedule", UpdateTaskStatus(t, [status |-> "idle", retryCount |-> n]))
    <3>1. [status |-> "idle", retryCount |-> n] \in Changes
      BY <1>3 DEF n, Changes, Written
    <3>2. StartsWith(UpdateTaskStatus(t, [status |-> "idle", retryCount |-> n]),
                     t, "read", "updateTaskStatus")
      BY <1>1, <3>1, UpdateStarts
    <3>3. QED
      BY <1>1, <1>2, <2>2, <3>2, AwaitStep DEF Resting, OpFits, Starts, JobStates
  <2>3. QED
    BY <1>5, <2>1, <2>2 DEF Released, n
<1>6. CASE Reschedule(j)
  BY <1>1, <1>2, <1>3, <1>6, CreateStarts, AwaitStep
     DEF Reschedule, Resting, OpFits, Starts, JobStates
<1>7. CASE Fail(j)
  BY <1>1, <1>2, <1>7, OutcomeStarts, AwaitStep DEF Fail, Resting, OpFits, Starts, JobStates
<1>8. QED
  BY <1>4, <1>5, <1>6, <1>7

\* The replies after which j goes on to something else.
LEMMA Rests ==
    ASSUME TypeInv, NEW j \in Jobs, Activate(j) \/ ReCreate(j)
    PROVE  JobGoesOn(j)
<1>1. ~InCall(j) /\ job[j].pc # "none" /\ job[j].tries < 3 /\ job[j] \in JobRecords
  BY JobFacts DEF Activate, ReCreate, Replied, At
<1>2. CASE Activate(j)
  <2> DEFINE read == IF Returned(j, "done") THEN call[j].seen.retryCount ELSE Missing
  <2> DEFINE x == [job[j] EXCEPT !.pc = "limit", !.read = read]
  <2>1. read \in Nat \cup {Missing}
    BY JobFacts DEF Hashes
  <2>2. job' = [job EXCEPT ![j] = x]
    BY <1>2, JobFacts DEF Activate
  <2> HIDE DEF read
  <2>3. x \in JobRecords /\ x.pc = "limit" /\ x.task = job[j].task /\ x.tries < 3
    BY <1>1, <2>1 DEF JobRecords, JobStates
  <2> HIDE DEF x
  <2>4. QED
    BY <1>1, <1>2, <2>2, <2>3, RestEffect DEF Activate, Resting
<1>3. CASE ReCreate(j)
  <2> DEFINE x == [job[j] EXCEPT !.pc = "resend"]
  <2>1. x \in JobRecords /\ x.pc = "resend" /\ x.task = job[j].task /\ x.tries < 3
    BY <1>1 DEF JobRecords, JobStates
  <2>2. job' = [job EXCEPT ![j] = x]
    BY <1>3, JobFacts DEF ReCreate
  <2> HIDE DEF x
  <2>3. QED
    BY <1>1, <1>3, <2>1, <2>2, RestEffect DEF ReCreate, Resting
<1>4. QED
  BY <1>2, <1>3

LEMMA LookupGoesOn ==
    ASSUME TypeInv, NEW j \in Jobs, Lookup(j)
    PROVE  JobGoesOn(j)
<1>1. /\ job[j].pc = "lookup" /\ ~InCall(j) /\ job[j].task \in Tasks
      /\ UNCHANGED <<store, cloud, faults, adding>>
      /\ cloud' \in [Tasks -> Nat] /\ faults' \in 0 .. MaxFaults
  BY JobFacts DEF Lookup, Replied, At, Ack
<1>2. CASE Await(j, "activate", UpdateTaskStatus(job[j].task, [status |-> "active"]))
  <2>1. [status |-> "active"] \in Changes
    BY DEF Changes, Written
  <2>2. StartsWith(UpdateTaskStatus(job[j].task, [status |-> "active"]), job[j].task,
                   "read", "updateTaskStatus")
    BY <1>1, <2>1, UpdateStarts
  <2>3. QED
    BY <1>1, <1>2, <2>2, AwaitStep DEF Resting, OpFits, Starts, JobStates
<1>3. CASE Replied(j, "lookup", "null") /\ Ack(j)
  BY <1>1, <1>3, AnswerEffect DEF Ack, Replied, Settled, At
<1>4. QED
  BY <1>2, <1>3 DEF Lookup

LEMMA LimitGoesOn ==
    ASSUME TypeInv, NEW j \in Jobs, RateLimit(j)
    PROVE  JobGoesOn(j)
<1>1. /\ job[j].pc = "limit" /\ ~InCall(j) /\ job[j].task \in Tasks /\ WorkerOf[j] \in Workers
      /\ UNCHANGED <<store, cloud, adding>> /\ cloud' \in [Tasks -> Nat]
  BY JobFacts DEF RateLimit, At, Resting
<1>2. faults' \in 0 .. MaxFaults
  BY JobFacts, FaultEffect DEF RateLimit, FaultKinds
<1>3. CASE Await(j, "lock", AcquireTaskLock(job[j].task, WorkerOf[j]))
  BY <1>1, <1>2, <1>3, LockStarts, AwaitStep DEF Resting, OpFits, Starts, JobStates
<1>4. CASE Await(j, "refetch", GetTaskById(job[j].task))
  BY <1>1, <1>2, <1>4, GetStarts, AwaitStep DEF Resting, OpFits, Starts, JobStates
<1>5. QED
  BY <1>3, <1>4 DEF RateLimit

LEMMA ReSendGoesOn ==
    ASSUME TypeInv, NEW j \in Jobs, ReSend(j)
    PROVE  JobGoesOn(j)
<1> DEFINE t == job[j].task
<1>1. /\ job[j].pc = "resend" /\ ~InCall(j) /\ call[j].at = "none" /\ t \in Tasks
      /\ UNCHANGED <<store, adding>> /\ cloud \in [Tasks -> Nat]
  BY JobFacts DEF ReSend, At, Resting
<1>2. faults' \in 0 .. MaxFaults
  BY JobFacts, FaultEffect DEF ReSend, Sent, NotSent, NoCredentials, FaultKinds
<1>3. CASE Sent(t) /\ job' = [job EXCEPT ![j] = NoJob] /\ UNCHANGED <<call, overlapped>>
  BY <1>1, <1>2, <1>3, AnswerEffect DEF Sent
<1>4. CASE NotSent(t) /\ Await(j, "rereset", UpdateTaskStatus(t, [status |-> "idle"]))
  <2>1. [status |-> "idle"] \in Changes
    BY DEF Changes, Written
  <2>2. /\ StartsWith(UpdateTaskStatus(t, [status |-> "idle"]), t, "read", "updateTaskStatus")
        /\ Over(UpdateTaskStatus(t, [status |-> "idle"]), NoCall).change.status # "active"
    BY <1>1, <2>1, UpdateStarts
  <2>3. cloud' \in [Tasks -> Nat] /\ \A u \in Tasks : cloud[u] > 0 => cloud'[u] > 0
    BY <1>1, <1>4, EnqueueEffect DEF NotSent
  <2>4. QED
    BY <1>1, <1>2, <1>4, <2>2, <2>3, AwaitStep DEF Resting, OpFits, Starts, JobStates
<1>5. CASE NoCredentials /\ Nack(j)
  BY <1>1, <1>2, <1>5, AnswerEffect DEF Nack
<1>6. QED
  BY <1>3, <1>4, <1>5 DEF ReSend

\* The replies after which j answers.
LEMMA Answers ==
    ASSUME TypeInv, NEW j \in Jobs,
           Rethrow(j) \/ GiveUp(j) \/ ReReset(j) \/ LockFailed(j) \/ FailAgain(j)
    PROVE  JobGoesOn(j)
<1>1. ~InCall(j) /\ job[j].pc # "none" /\ UNCHANGED <<store, faults, adding>>
      /\ faults' \in 0 .. MaxFaults
  BY JobFacts DEF Rethrow, GiveUp, ReReset, LockFailed, FailAgain, Replied
<1>2. CASE Nack(j)
  BY <1>1, <1>2, AnswerEffect DEF Nack
<1>3. CASE Ack(j) /\ ~Nack(j)
  <2>1. Settled(j)
    BY <1>3 DEF Rethrow, GiveUp, ReReset, LockFailed, FailAgain, Replied, At, Settled
  <2>2. QED
    BY <1>1, <1>3, <2>1, AnswerEffect DEF Ack
<1>4. QED
  BY <1>2, <1>3 DEF Rethrow, GiveUp, ReReset, LockFailed, FailAgain

LEMMA LockedGoesOn ==
    ASSUME TypeInv, NEW j \in Jobs, Locked(j)
    PROVE  JobGoesOn(j)
<1>1. /\ job[j].pc = "lock" /\ ~InCall(j) /\ job[j].tries < 3 /\ job[j] \in JobRecords
      /\ UNCHANGED <<store, faults, adding>> /\ faults' \in 0 .. MaxFaults
  BY JobFacts DEF Locked, Replied, At
<1>2. CASE Nack(j)
  BY <1>1, <1>2, AnswerEffect DEF Nack
<1>3. CASE ~Nack(j)
  <2> DEFINE x == [job[j] EXCEPT !.pc = "run", !.lease = call[j].seen.lockedUntil]
  <2>1. job' = [job EXCEPT ![j] = x] /\ NoCallBy(j) /\ UNCHANGED cloud
    BY <1>3, JobFacts DEF Locked
  <2>2. call[j].seen.lockedUntil \in Nat
    BY JobFacts DEF Hashes
  <2>3. x \in JobRecords /\ x.pc = "run" /\ x.task = job[j].task /\ x.tries < 3
    BY <1>1, <2>2 DEF JobRecords, JobStates
  <2> HIDE DEF x
  <2>4. QED
    BY <1>1, <2>1, <2>3, RestEffect DEF Resting
<1>4. QED
  BY <1>2, <1>3

LEMMA NotLockedGoesOn ==
    ASSUME TypeInv, NEW j \in Jobs, NotLocked(j)
    PROVE  JobGoesOn(j)
<1> DEFINE t == job[j].task
<1>1. /\ job[j].pc = "lock" /\ ~InCall(j) /\ job[j].tries < 3 /\ job[j] \in JobRecords
      /\ t \in Tasks /\ WorkerOf[j] \in Workers /\ job[j].tries \in Nat
      /\ UNCHANGED <<store, cloud, faults, adding>>
      /\ faults' \in 0 .. MaxFaults /\ cloud' \in [Tasks -> Nat]
      /\ \A u \in Tasks : cloud[u] > 0 => cloud'[u] > 0 \/ u = t
  BY JobFacts DEF NotLocked, Replied, At, JobRecords
<1>2. CASE job[j].tries + 1 < MaxLockRetries
  <2> DEFINE x == [job[j] EXCEPT !.tries = @ + 1]
  <2>1. job' = [job EXCEPT ![j] = x] /\ Invoke(j, AcquireTaskLock(t, WorkerOf[j]))
    BY <1>2, JobFacts DEF NotLocked
  <2>2. x \in JobRecords /\ x.pc = "lock" /\ x.task = t /\ x.tries < 3
    BY <1>1, <1>2 DEF JobRecords, JobStates, MaxLockRetries
  <2> HIDE DEF x
  <2>3. /\ StartsWith(AcquireTaskLock(t, WorkerOf[j]), t, "lock", "acquireTaskLock")
        /\ Over(AcquireTaskLock(t, WorkerOf[j]), NoCall).worker = WorkerOf[j]
    BY <1>1, LockStarts
  <2>4. QED
    BY <1>1, <2>1, <2>2, <2>3, AwaitEffect DEF Resting, OpFits, Starts
<1>3. CASE ~(job[j].tries + 1 < MaxLockRetries)
  <2> DEFINE x == [job[j] EXCEPT !.tries = @ + 1, !.pc = "lockFailed"]
  <2>1. job' = [job EXCEPT ![j] = x] /\ Invoke(j, FailTask(t))
    BY <1>3, JobFacts DEF NotLocked
  <2>2. x \in JobRecords /\ x.pc = "lockFailed" /\ x.task = t
    <3>1. job[j].tries + 1 \in 0 .. 3 /\ "lockFailed" \in JobStates
      BY <1>1 DEF JobStates
    <3>2. QED
      BY <1>1, <3>1 DEF JobRecords
  <2> HIDE DEF x
  <2>3. StartsWith(FailTask(t), t, "outcome", "failTask")
    BY <1>1, OutcomeStarts
  <2>4. QED
    BY <1>1, <2>1, <2>2, <2>3, AwaitEffect DEF Resting, OpFits, Starts
<1>4. QED
  BY <1>2, <1>3

LEMMA HandlerGoesOn ==
    ASSUME TypeInv, NEW j \in Jobs, RunHandler(j) \/ Complete(j)
    PROVE  JobGoesOn(j)
<1> DEFINE t == job[j].task
<1>1. /\ job[j].pc \in {"run", "complete"} /\ ~InCall(j) /\ t \in Tasks
      /\ UNCHANGED <<store, cloud, adding>> /\ cloud' \in [Tasks -> Nat]
  BY JobFacts DEF RunHandler, Complete, At, Replied, Resting, Ack
<1>2. faults' \in 0 .. MaxFaults
  BY JobFacts, FaultEffect DEF RunHandler, Complete, FaultKinds
<1>3. CASE Await(j, "complete", CompleteTask(t)) \/ Await(j, "fail", FailTask(t))
  BY <1>1, <1>2, <1>3, OutcomeStarts, AwaitStep DEF Resting, OpFits, Starts, JobStates
<1>4. CASE Replied(j, "complete", "done") /\ Ack(j)
  BY <1>1, <1>2, <1>4, AnswerEffect DEF Ack, Replied, At, Settled
<1>5. QED
  BY <1>3, <1>4 DEF RunHandler, Complete

LEMMA JobEffect ==
    ASSUME TypeInv, NEW j \in Jobs,
           HandleReply(j) \/ GoOn(j) \/ \E t \in Tasks : Deliver(j, t)
    PROVE  JobGoesOn(j)
BY DeliverGoesOn, CallsNext, Rests, LookupGoesOn, LimitGoesOn, ReSendGoesOn, Answers,
   LockedGoesOn, NotLockedGoesOn, HandlerGoesOn DEF HandleReply, GoOn
-----------------------------------------------------------------------------
(* The steps of addTask *)

\* addTask goes on in the same way; until it has sent the task, or thrown, it still has
\* a call to make.
Unfinished(t) ==
    \/ adding[t] \in {"create", "send", "threw"}
    \/ adding[t] = "reset" /\ InCall(t)

AddGoesOn(t) ==
    LET k == call'[t]
    IN  /\ ~InCall(t)
        /\ adding' = [adding EXCEPT ![t] = adding'[t]]
        /\ adding'[t] \in {"create", "send", "reset", "done", "threw"}
        /\ call' = [call EXCEPT ![t] = k] /\ CallFits(k)
        /\ AddAt(t)'
        /\ k.at \in Starts \cup {"none"}
        /\ k.at = "read" => k.op = "updateTaskStatus"
        /\ overlapped' = IF k.at # "none" /\ Busy(k.task) THEN overlapped \cup {k.task}
                                                          ELSE overlapped
        /\ UNCHANGED <<store, job>>
        /\ cloud' \in [Tasks -> Nat] /\ faults' \in 0 .. MaxFaults
        /\ \A u \in Tasks : cloud[u] > 0 => cloud'[u] > 0
        /\ Unfinished(t) => Unfinished(t)' \/ cloud'[t] > 0

LEMMA AddEffect ==
    ASSUME TypeInv, NEW t \in Tasks, AddTask(t) \/ AddSend(t) \/ AddSent(t) \/ AddEnd(t)
    PROVE  AddGoesOn(t)
<1>1. /\ CallsOK /\ QueuesOK /\ AddAt(t) /\ t \in Callers
      /\ cloud \in [Tasks -> Nat] /\ faults \in 0 .. MaxFaults
  BY RedisTaskAssumption DEF TypeInv, QueuesOK
<1>2. ~InCall(t) /\ UNCHANGED <<store, job>>
  BY <1>1 DEF AddTask, AddSend, AddSent, AddEnd, AddAt, InCall, Returned
<1>3. faults' \in 0 .. MaxFaults
  BY <1>1, FaultEffect
     DEF AddTask, AddSend, AddSent, AddEnd, Sent, NotSent, NoCredentials, FaultKinds
<1>4. cloud' \in [Tasks -> Nat] /\ \A u \in Tasks : cloud[u] > 0 => cloud'[u] > 0
  BY <1>1, EnqueueEffect DEF AddTask, AddSend, AddSent, AddEnd, Sent, NotSent
<1>5. PICK a \in {"create", "send", "reset", "done", "threw"} :
            adding' = [adding EXCEPT ![t] = a]
  BY DEF AddTask, AddSend, AddSent, AddEnd
<1>6. adding'[t] = a
  BY <1>1, <1>5 DEF QueuesOK
<1>7. CASE AddTask(t)
  <2>1. adding[t] = "none" /\ a = "create" /\ Invoke(t, CreateTask(t, "active", 0))
    BY <1>1, <1>6, <1>7 DEF AddTask, QueuesOK
  <2>2. StartsWith(CreateTask(t, "active", 0), t, "create", "createTask")
    BY CreateStarts
  <2>3. /\ call' = [call EXCEPT ![t] = call'[t]] /\ CallFits(call'[t])
        /\ call'[t].at = "create" /\ call'[t].op = "createTask" /\ call'[t].task = t
        /\ overlapped' = IF Busy(t) THEN overlapped \cup {t} ELSE overlapped
    BY <1>1, <2>1, <2>2, InvokeEffect
  <2>4. QED
    BY <1>2, <1>3, <1>4, <1>5, <1>6, <2>1, <2>3 DEF AddGoesOn, AddAt, Starts, Unfinished
<1>8. CASE AddSent(t) /\ Invoke(t, UpdateTaskStatus(t, [status |-> "idle"])) /\ a = "reset"
  <2>1. [status |-> "idle"] \in Changes
    BY DEF Changes, Written
  <2>2. /\ StartsWith(UpdateTaskStatus(t, [status |-> "idle"]), t, "read", "updateTaskStatus")
        /\ Over(UpdateTaskStatus(t, [status |-> "idle"]), NoCall).change.status = "idle"
    BY <2>1, UpdateStarts
  <2>3. /\ call' = [call EXCEPT ![t] = call'[t]] /\ CallFits(call'[t])
        /\ call'[t] = Over(UpdateTaskStatus(t, [status |-> "idle"]), NoCall)
        /\ call'[t].at = "read" /\ call'[t].op = "updateTaskStatus" /\ call'[t].task = t
        /\ overlapped' = IF Busy(t) THEN overlapped \cup {t} ELSE overlapped
    BY <1>1, <1>8, <2>2, InvokeEffect
  <2>4. AddAt(t)' /\ Unfinished(t)'
    BY <1>6, <1>8, <2>2, <2>3 DEF AddAt, Unfinished, InCall
  <2>5. QED
    BY <1>2, <1>3, <1>4, <1>5, <1>6, <2>3, <2>4 DEF AddGoesOn, Starts
<1>9. CASE /\ a \in {"send", "done", "threw"}
           /\ NoCallBy(t) \/ (call[t].at = "none" /\ UNCHANGED <<call, overlapped>>)
  <2>1. /\ call' = [call EXCEPT ![t] = call'[t]] /\ CallFits(call'[t])
        /\ call'[t].at = "none" /\ overlapped' = overlapped
    BY <1>1, <1>9, NoCallEffect, NoCallFits DEF CallsOK
  <2>2. Unfinished(t) => a \in {"send", "threw"} \/ cloud'[t] > 0
    BY <1>1, <1>2, <1>6, <1>9, EnqueueEffect
       DEF AddTask, AddSend, AddSent, AddEnd, Unfinished, Sent, QueuesOK
  <2>3. QED
    BY <1>2, <1>3, <1>4, <1>5, <1>6, <1>9, <2>1, <2>2 DEF AddGoesOn, AddAt, Unfinished
<1>10. QED
  <2>1. AddSent(t) => call[t].at = "none"
    BY <1>1 DEF AddSent, AddAt
  <2>2. CASE AddSend(t) \/ AddEnd(t)
    BY <1>1, <1>6, <1>9, <2>2 DEF AddSend, AddEnd, QueuesOK
  <2>3. CASE AddSent(t)
    BY <1>1, <1>6, <1>8, <1>9, <2>1, <2>3 DEF AddSent, QueuesOK
  <2>4. QED
    BY <1>7, <2>2, <2>3
-----------------------------------------------------------------------------
(* The types hold *)

\* Whoever makes the step, the others and their calls stay as they are.
LEMMA OthersStay ==
    ASSUME CallsOK, NEW c \in Callers, call' = [call EXCEPT ![c] = call'[c]],
           CallFits(call'[c])
    PROVE  /\ CallsOK'
           /\ \A d \in Callers : d # c => call'[d] = call[d]
<1>1. \A d \in Callers : d # c => call'[d] = call[d]
  BY DEF CallsOK
<1>2. call' = [d \in Callers |-> call'[d]]
  BY DEF CallsOK
<1>3. QED
  BY <1>1, <1>2 DEF CallsOK

LEMMA BusyTask ==
    ASSUME CallsOK, NEW c \in Callers, InCall(c)
    PROVE  call[c].task \in Tasks
BY DEF CallsOK, CallFits, InCall

LEMMA TypeInvInit == Init => TypeInv
<1> SUFFICES ASSUME Init PROVE TypeInv
  OBVIOUS
<1>1. StoreOK
  BY NoHashFits DEF Init, RedisInit, StoreOK, NoHash
<1>2. CallsOK
  BY NoCallFits DEF Init, RedisInit, CallsOK
<1>3. QueuesOK
  <2>1. NoJob \in JobRecords
    BY DEF JobRecords, JobStates, NoJob, Missing
  <2>2. QED
    BY <2>1, RedisTaskAssumption DEF Init, QueuesOK
<1>4. \A c \in Callers : call[c].at = "none"
  BY NoCallFits DEF Init, RedisInit
<1>5. \A j \in Jobs : JobAt(j)
  BY <1>4, RedisTaskAssumption DEF Init, JobAt, NoJob, Resting, InCall
<1>6. \A t \in Tasks : AddAt(t)
  BY <1>4, RedisTaskAssumption DEF Init, AddAt
<1>7. QED
  BY <1>1, <1>2, <1>3, <1>5, <1>6 DEF TypeInv

LEMMA TypeInvJob ==
    ASSUME TypeInv, NEW j \in Jobs, JobGoesOn(j)
    PROVE  TypeInv'
<1>1. StoreOK /\ CallsOK /\ QueuesOK /\ j \in Callers
  BY RedisTaskAssumption DEF TypeInv
<1>2. CallsOK' /\ \A d \in Callers : d # j => call'[d] = call[d]
  BY <1>1, OthersStay DEF JobGoesOn
<1>3. StoreOK'
  <2>1. overlapped' \subseteq Tasks
    BY <1>1 DEF JobGoesOn, StoreOK, CallFits
  <2>2. UNCHANGED <<hash, ttl, listed, locks>>
    BY DEF JobGoesOn, store
  <2>3. QED
    BY <1>1, <2>1, <2>2 DEF StoreOK
<1>4. QueuesOK'
  BY <1>1 DEF JobGoesOn, QueuesOK
<1>5. \A i \in Jobs : JobAt(i)'
  <2> SUFFICES ASSUME NEW i \in Jobs, i # j PROVE JobAt(i)'
    BY DEF JobGoesOn
  <2>1. job'[i] = job[i] /\ call'[i] = call[i] /\ JobAt(i)
    BY <1>1, <1>2, RedisTaskAssumption DEF JobGoesOn, TypeInv, QueuesOK
  <2>2. QED
    BY <2>1 DEF JobAt, InCall
<1>6. \A t \in Tasks : AddAt(t)'
  <2> SUFFICES ASSUME NEW t \in Tasks PROVE AddAt(t)'
    OBVIOUS
  <2>1. adding'[t] = adding[t] /\ call'[t] = call[t] /\ AddAt(t)
    BY <1>2, RedisTaskAssumption DEF JobGoesOn, TypeInv
  <2>2. QED
    BY <2>1 DEF AddAt
<1>7. QED
  BY <1>2, <1>3, <1>4, <1>5, <1>6 DEF TypeInv

LEMMA TypeInvAdd ==
    ASSUME TypeInv, NEW t \in Tasks, AddGoesOn(t)
    PROVE  TypeInv'
<1>1. StoreOK /\ CallsOK /\ QueuesOK /\ t \in Callers
  BY RedisTaskAssumption DEF TypeInv
<1>2. CallsOK' /\ \A d \in Callers : d # t => call'[d] = call[d]
  BY <1>1, OthersStay DEF AddGoesOn
<1>3. StoreOK'
  <2>1. overlapped' \subseteq Tasks
    BY <1>1 DEF AddGoesOn, StoreOK, CallFits
  <2>2. UNCHANGED <<hash, ttl, listed, locks>>
    BY DEF AddGoesOn, store
  <2>3. QED
    BY <1>1, <2>1, <2>2 DEF StoreOK
<1>4. QueuesOK'
  BY <1>1 DEF AddGoesOn, QueuesOK
<1>5. \A j \in Jobs : JobAt(j)'
  <2> SUFFICES ASSUME NEW j \in Jobs PROVE JobAt(j)'
    OBVIOUS
  <2>1. job'[j] = job[j] /\ call'[j] = call[j] /\ JobAt(j)
    BY <1>2, RedisTaskAssumption DEF AddGoesOn, TypeInv
  <2>2. QED
    BY <2>1 DEF JobAt, InCall
<1>6. \A u \in Tasks : AddAt(u)'
  <2> SUFFICES ASSUME NEW u \in Tasks, u # t PROVE AddAt(u)'
    BY DEF AddGoesOn
  <2>1. adding'[u] = adding[u] /\ call'[u] = call[u] /\ AddAt(u)
    BY <1>1, <1>2, RedisTaskAssumption DEF AddGoesOn, TypeInv, QueuesOK
  <2>2. QED
    BY <2>1 DEF AddAt
<1>7. QED
  BY <1>2, <1>3, <1>4, <1>5, <1>6 DEF TypeInv

LEMMA TypeInvServe ==
    ASSUME TypeInv, NEW c \in Callers, Served(c), UNCHANGED queues
    PROVE  TypeInv'
<1>1. StoreOK /\ CallsOK /\ QueuesOK /\ CallGoesOn(c)
  BY DEF TypeInv, Served
<1>2. CallsOK' /\ \A d \in Callers : d # c => call'[d] = call[d]
  BY <1>1, OthersStay DEF CallGoesOn
<1>3. UNCHANGED <<cloud, faults, adding, job>> /\ QueuesOK'
  BY <1>1 DEF queues, QueuesOK
<1>4. \A j \in Jobs : JobAt(j)'
  <2> SUFFICES ASSUME NEW j \in Jobs PROVE JobAt(j)'
    OBVIOUS
  <2>1. JobAt(j) /\ j \in Callers
    BY RedisTaskAssumption DEF TypeInv
  <2>2. CASE j = c
    BY <1>1, <1>3, <2>1, <2>2 DEF JobAt, InCall, CallGoesOn, OpFits
  <2>3. CASE j # c
    BY <1>2, <1>3, <2>1, <2>3 DEF JobAt, InCall
  <2>4. QED
    BY <2>2, <2>3
<1>5. \A t \in Tasks : AddAt(t)'
  <2> SUFFICES ASSUME NEW t \in Tasks PROVE AddAt(t)'
    OBVIOUS
  <2>1. AddAt(t) /\ t \in Callers
    BY RedisTaskAssumption DEF TypeInv
  <2>2. CASE t = c
    BY <1>1, <1>3, <2>1, <2>2 DEF AddAt, InCall, CallGoesOn
  <2>3. CASE t # c
    BY <1>2, <1>3, <2>1, <2>3 DEF AddAt
  <2>4. QED
    BY <2>2, <2>3
<1>6. QED
  BY <1>2, <1>3, <1>4, <1>5 DEF TypeInv, Served

(***************************************************************************)
(* Time and crashes change the fields of a record, of what was read from it and of   *)
(* what is going to be written to it in the same way.                            *)
(***************************************************************************)
Renamed(h, w) == [f \in DOMAIN h |-> IF f = "workerId" /\ h[f] = w THEN Departed ELSE h[f]]

LEMMA SoonerFits ==
    ASSUME NEW h \in Hashes
    PROVE  LET g == SoonerIn(h)
           IN  /\ g \in Hashes /\ g.lockedUntil = Sooner(h.lockedUntil)
               /\ g.status = h.status /\ g.retryCount = h.retryCount
               /\ g.reEnqueues = h.reEnqueues /\ g.workerId = h.workerId
BY DEF SoonerIn, Sooner, Hashes

LEMMA RenamedFits ==
    ASSUME NEW h \in Hashes, NEW w \in Workers
    PROVE  LET g == Renamed(h, w)
           IN  /\ g \in Hashes /\ g.lockedUntil = h.lockedUntil
               /\ g.status = h.status /\ g.retryCount = h.retryCount
               /\ g.reEnqueues = h.reEnqueues
               /\ g.workerId = IF h.workerId = w THEN Departed ELSE h.workerId
BY DEF Renamed, Hashes

LEMMA ChangeSooner ==
    ASSUME NEW k, DOMAIN k = CallFields, ChangeFits(k), NEW seen
    PROVE  LET m == [k EXCEPT !.seen = seen, !.change = SoonerIn(@)]
           IN  ChangeFits(m) /\ m.change.status = k.change.status
<1> DEFINE m == [k EXCEPT !.seen = seen, !.change = SoonerIn(@)]
<1>1. m.op = k.op /\ m.worker = k.worker /\ m.change = SoonerIn(k.change)
  BY DEF CallFields
<1> HIDE DEF m
<1>2. CASE k.op = "updateTaskStatus"
  BY <1>1, <1>2 DEF ChangeFits, Changes, SoonerIn, Sooner, Outcomes
<1>3. CASE k.op = "acquireTaskLock"
  BY <1>1, <1>3 DEF ChangeFits, SoonerIn, Sooner, Outcomes
<1>4. CASE k.op = "releaseTaskLock"
  BY <1>1, <1>4 DEF ChangeFits, SoonerIn, Sooner, Outcomes
<1>5. CASE k.op \in Outcomes
  BY <1>1, <1>5 DEF ChangeFits, SoonerIn, Sooner, Outcomes
<1>6. QED
  BY <1>2, <1>3, <1>4, <1>5 DEF ChangeFits, m

\* The worker of the call is not the one that crashes.
LEMMA ChangeRenamed ==
    ASSUME NEW k, DOMAIN k = CallFields, ChangeFits(k), NEW seen, NEW w \in Workers,
           k.op = "acquireTaskLock" => k.worker # w
    PROVE  LET m == [k EXCEPT !.seen = seen, !.change = Renamed(@, w)]
           IN  ChangeFits(m) /\ m.change.status = k.change.status
<1> DEFINE m == [k EXCEPT !.seen = seen, !.change = Renamed(@, w)]
<1>1. m.op = k.op /\ m.worker = k.worker /\ m.change = Renamed(k.change, w)
  BY DEF CallFields
<1> HIDE DEF m
<1>2. CASE k.op = "updateTaskStatus"
  BY <1>1, <1>2 DEF ChangeFits, Changes, Renamed, Outcomes
<1>3. CASE k.op = "acquireTaskLock"
  BY <1>1, <1>3 DEF ChangeFits, Renamed, Outcomes
<1>4. CASE k.op = "releaseTaskLock"
  BY <1>1, <1>4, RedisAssumption DEF ChangeFits, Renamed, Outcomes
<1>5. CASE k.op \in Outcomes
  BY <1>1, <1>5 DEF ChangeFits, Renamed, Outcomes
<1>6. QED
  BY <1>2, <1>3, <1>4, <1>5 DEF ChangeFits, m
\* What a call becomes when a lock runs out, and when an instance crashes.
LEMMA CallSooner ==
    ASSUME NEW k, CallFits(k)
    PROVE  LET m == [k EXCEPT !.seen = SoonerIn(@), !.change = SoonerIn(@)]
           IN  /\ CallFits(m)
               /\ \A f \in CallFields \ {"seen", "change"} : m[f] = k[f]
               /\ m.seen = SoonerIn(k.seen) /\ m.change = SoonerIn(k.change)
               /\ k.at \in {"read", "write"} => m.change.status = k.change.status
<1> DEFINE m == [k EXCEPT !.seen = SoonerIn(@), !.change = SoonerIn(@)]
<1>1. /\ DOMAIN m = CallFields /\ \A f \in CallFields \ {"seen", "change"} : m[f] = k[f]
      /\ m.seen = SoonerIn(k.seen) /\ m.change = SoonerIn(k.change)
  BY DEF CallFits, CallFields
<1>2. m.seen \in Hashes /\ m.seen.status = k.seen.status
  BY <1>1, SoonerFits DEF CallFits
<1>3. /\ m.at = k.at /\ m.op = k.op /\ m.task = k.task /\ m.worker = k.worker
      /\ m.cleanup = k.cleanup
  BY <1>1 DEF CallFields
<1>4. k.at \in {"outcome", "read", "write"} =>
          ChangeFits(m) /\ m.change.status = k.change.status
  <2>1. m = [k EXCEPT !.seen = SoonerIn(k.seen), !.change = SoonerIn(@)]
    OBVIOUS
  <2> DEFINE seen == SoonerIn(k.seen)
  <2> HIDE DEF seen
  <2>2. m = [k EXCEPT !.seen = seen, !.change = SoonerIn(@)]
    BY <2>1 DEF seen
  <2> HIDE DEF m
  <2>3. QED
    BY <2>2, ChangeSooner DEF CallFits
<1>5. k.at = "create" => m.change \in [status : {"active"}, reEnqueues : Nat]
  BY <1>1 DEF CallFits, SoonerIn
<1> HIDE DEF m
<1>6. CallFits(m)
  BY <1>1, <1>2, <1>3, <1>4, <1>5 DEF CallFits
<1>7. QED
  BY <1>1, <1>4, <1>6 DEF m

LEMMA CallRenamed ==
    ASSUME NEW k, CallFits(k), NEW w \in Workers,
           k.at \in {"outcome", "read", "write"} /\ k.op = "acquireTaskLock" => k.worker # w
    PROVE  LET m == [k EXCEPT !.seen = Renamed(@, w), !.change = Renamed(@, w)]
           IN  /\ CallFits(m)
               /\ \A f \in CallFields \ {"seen", "change"} : m[f] = k[f]
               /\ m.seen = Renamed(k.seen, w) /\ m.change = Renamed(k.change, w)
               /\ k.at \in {"read", "write"} => m.change.status = k.change.status
<1> DEFINE m == [k EXCEPT !.seen = Renamed(@, w), !.change = Renamed(@, w)]
<1>1. /\ DOMAIN m = CallFields /\ \A f \in CallFields \ {"seen", "change"} : m[f] = k[f]
      /\ m.seen = Renamed(k.seen, w) /\ m.change = Renamed(k.change, w)
  BY DEF CallFits, CallFields
<1>2. m.seen \in Hashes /\ m.seen.status = k.seen.status
  BY <1>1, RenamedFits DEF CallFits
<1>3. /\ m.at = k.at /\ m.op = k.op /\ m.task = k.task /\ m.worker = k.worker
      /\ m.cleanup = k.cleanup
  BY <1>1 DEF CallFields
<1>4. ASSUME k.at \in {"outcome", "read", "write"}
      PROVE  ChangeFits(m) /\ m.change.status = k.change.status
  <2>1. ChangeFits(k) /\ DOMAIN k = CallFields /\ (k.op = "acquireTaskLock" => k.worker # w)
    BY <1>4 DEF CallFits
  <2> DEFINE seen == Renamed(k.seen, w)
  <2> HIDE DEF seen
  <2>2. m = [k EXCEPT !.seen = seen, !.change = Renamed(@, w)]
    BY DEF seen
  <2> HIDE DEF m
  <2>3. QED
    BY <2>1, <2>2, ChangeRenamed
<1>5. k.at = "create" => m.change \in [status : {"active"}, reEnqueues : Nat]
  BY <1>1 DEF CallFits, Renamed
<1> HIDE DEF m
<1>6. CallFits(m)
  BY <1>1, <1>2, <1>3, <1>4, <1>5 DEF CallFits
<1>7. QED
  BY <1>1, <1>4, <1>6 DEF m

(***************************************************************************)
(* A step that changes no call but what it has read and what it writes.           *)
(***************************************************************************)
SameCall(k, m) ==
    /\ CallFits(m)
    /\ m.at = k.at /\ m.op = k.op /\ m.task = k.task /\ m.worker = k.worker
    /\ m.result = k.result
    /\ k.at \in {"read", "write"} => m.change.status = k.change.status

\* The lock of t that is nearest its end runs out.
LEMMA LapseEffect ==
    ASSUME TypeInv, NEW t \in Tasks, LockRunsOut(t)
    PROVE  /\ StoreOK' /\ CallsOK' /\ QueuesOK'
           /\ hash' = [hash EXCEPT ![t] = SoonerIn(hash[t])] /\ UNCHANGED <<ttl, listed>>
           /\ \A c \in Callers : SameCall(call[c], call'[c])
           /\ \A c \in Callers : call[c].task = t => call'[c].seen = SoonerIn(call[c].seen)
           /\ \A c \in Callers : call[c].task # t => call'[c] = call[c]
           /\ \A j \in Jobs : /\ job'[j].pc = job[j].pc /\ job'[j].task = job[j].task
                              /\ job'[j].tries = job[j].tries
           /\ UNCHANGED <<cloud, adding, overlapped>>
<1>1. StoreOK /\ CallsOK /\ QueuesOK
  BY DEF TypeInv
<1>2. /\ hash' = [hash EXCEPT ![t] = SoonerIn(hash[t])]
      /\ locks[t] > 0 /\ locks' = [locks EXCEPT ![t] = locks[t] - 1]
      /\ UNCHANGED <<ttl, listed, overlapped, cloud, faults, adding>>
  BY DEF LockRunsOut, LockLapses
<1>3. \A c \in Callers :
          /\ call[c].task = t =>
                call'[c] = [call[c] EXCEPT !.seen = SoonerIn(@), !.change = SoonerIn(@)]
          /\ call[c].task # t => call'[c] = call[c]
  BY DEF LockRunsOut, LockLapses
<1>4. \A c \in Callers : SameCall(call[c], call'[c])
  <2> SUFFICES ASSUME NEW c \in Callers PROVE SameCall(call[c], call'[c])
    OBVIOUS
  <2>1. CallFits(call[c])
    BY <1>1 DEF CallsOK
  <2>2. CASE call[c].task = t
    <3> DEFINE k == call[c]
    <3> DEFINE m == [k EXCEPT !.seen = SoonerIn(@), !.change = SoonerIn(@)]
    <3>1. call'[c] = m
      BY <1>3, <2>2
    <3>2. /\ CallFits(m) /\ \A f \in CallFields \ {"seen", "change"} : m[f] = k[f]
          /\ k.at \in {"read", "write"} => m.change.status = k.change.status
      <4> HIDE DEF k
      <4>1. CallFits(k)
        BY <2>1 DEF k
      <4>2. QED
        BY <4>1, CallSooner
    <3> HIDE DEF m
    <3>3. SameCall(k, m)
      BY <3>2 DEF SameCall, CallFields
    <3>4. QED
      BY <3>1, <3>3
  <2>3. CASE call[c].task # t
    BY <1>3, <2>1, <2>3 DEF SameCall
  <2>4. QED
    BY <2>2, <2>3
<1>5. \A c \in Callers : call[c].task = t => call'[c].seen = SoonerIn(call[c].seen)
  BY <1>1, <1>3, CallSooner DEF CallsOK
<1>6. CallsOK'
  <2>1. call' = [c \in Callers |-> call'[c]]
    BY DEF LockRunsOut, LockLapses
  <2>2. QED
    BY <1>4, <2>1 DEF CallsOK, SameCall
<1>7. StoreOK'
  <2>1. SoonerIn(hash[t]) \in Hashes /\ SoonerIn(hash[t]).workerId = hash[t].workerId
        /\ SoonerIn(hash[t]).status = hash[t].status
        /\ SoonerIn(hash[t]).lockedUntil = Sooner(hash[t].lockedUntil)
    BY <1>1, SoonerFits DEF StoreOK
  <2>2. locks' \in [Tasks -> Nat]
    BY <1>1, <1>2 DEF StoreOK
  <2> DEFINE g == SoonerIn(hash[t])
  <2> HIDE DEF g
  <2>3. hash' = [hash EXCEPT ![t] = g] /\ g \in Hashes
        /\ (g.status \notin Status => g.workerId = Nobody /\ g.lockedUntil = 0)
    BY <1>1, <1>2, <2>1 DEF g, StoreOK, Sooner
  <2>4. QED
    BY <1>1, <1>2, <2>2, <2>3 DEF StoreOK
<1>8. \A j \in Jobs : /\ job'[j].pc = job[j].pc /\ job'[j].task = job[j].task
                      /\ job'[j].tries = job[j].tries /\ job'[j] \in JobRecords
  <2> SUFFICES ASSUME NEW j \in Jobs
               PROVE  /\ job'[j].pc = job[j].pc /\ job'[j].task = job[j].task
                      /\ job'[j].tries = job[j].tries /\ job'[j] \in JobRecords
    OBVIOUS
  <2>1. job[j] \in JobRecords
    BY <1>1 DEF QueuesOK
  <2>2. job'[j] = job[j] \/ job'[j] = [job[j] EXCEPT !.lease = Sooner(@)]
    BY DEF LockRunsOut
  <2>3. Sooner(job[j].lease) \in Nat
    BY <2>1 DEF JobRecords, Sooner
  <2>4. QED
    BY <2>1, <2>2, <2>3 DEF JobRecords
<1>9. QueuesOK'
  <2>1. job' = [j \in Jobs |-> job'[j]]
    BY DEF LockRunsOut
  <2>2. QED
    BY <1>1, <1>2, <1>8, <2>1 DEF QueuesOK
<1>10. QED
  BY <1>2, <1>3, <1>4, <1>5, <1>6, <1>7, <1>8, <1>9

\* The requests an instance serves when it crashes.
Lost(w) == {j \in Jobs : WorkerOf[j] = w /\ ~At(j, "none")}

LEMMA CrashEffect ==
    ASSUME TypeInv, NEW w \in Workers, Crash(w)
    PROVE  /\ StoreOK' /\ CallsOK' /\ QueuesOK'
           /\ \A t \in Tasks : hash'[t] = Renamed(hash[t], w)
           /\ UNCHANGED <<ttl, listed>>
           /\ \A c \in Lost(w) : call'[c] = NoCall
           /\ \A c \in Callers \ Lost(w) :
                 /\ SameCall(call[c], call'[c])
                 /\ call'[c].seen = Renamed(call[c].seen, w)
           /\ \A j \in Lost(w) : job'[j] = NoJob /\ cloud'[job[j].task] > 0
           /\ \A j \in Jobs \ Lost(w) : job'[j] = job[j]
           /\ \A t \in Tasks : cloud[t] > 0 => cloud'[t] > 0
           /\ UNCHANGED <<adding, overlapped>>
<1>1. StoreOK /\ CallsOK /\ QueuesOK /\ Lost(w) \subseteq Jobs /\ Jobs \subseteq Callers
  BY RedisTaskAssumption DEF TypeInv, Lost
<1>2. /\ job' = [j \in Jobs |-> IF j \in Lost(w) THEN NoJob ELSE job[j]]
      /\ cloud' = [t \in Tasks |-> cloud[t] + Cardinality({j \in Lost(w) : job[j].task = t})]
      /\ hash' = [t \in Tasks |-> Renamed(hash[t], w)]
      /\ call' = [c \in Callers |->
            IF c \in Lost(w) THEN NoCall
            ELSE [call[c] EXCEPT !.seen = Renamed(@, w), !.change = Renamed(@, w)]]
      /\ UNCHANGED <<ttl, listed, locks, overlapped, adding>> /\ Fault("crash")
  BY DEF Crash, Lost, Renamed
<1>3. \A c \in Callers \ Lost(w) :
          SameCall(call[c], call'[c]) /\ call'[c].seen = Renamed(call[c].seen, w)
  <2> SUFFICES ASSUME NEW c \in Callers \ Lost(w)
               PROVE  SameCall(call[c], call'[c]) /\ call'[c].seen = Renamed(call[c].seen, w)
    OBVIOUS
  <2>1. CallFits(call[c])
    BY <1>1 DEF CallsOK
  <2>2. call[c].at \in {"outcome", "read", "write"} /\ call[c].op = "acquireTaskLock" =>
            call[c].worker # w
    <3>1. CASE c \in Jobs
      BY <3>1 DEF TypeInv, JobAt, InCall, Lost, At, Resting
    <3>2. CASE c \in Tasks
      BY <3>2 DEF TypeInv, AddAt
    <3>3. QED
      BY <3>1, <3>2, RedisTaskAssumption
  <2>3. call'[c] = [call[c] EXCEPT !.seen = Renamed(@, w), !.change = Renamed(@, w)]
    BY <1>2
  <2> DEFINE k == call[c]
  <2> DEFINE m == [k EXCEPT !.seen = Renamed(@, w), !.change = Renamed(@, w)]
  <2>4. /\ CallFits(m) /\ \A f \in CallFields \ {"seen", "change"} : m[f] = k[f]
        /\ m.seen = Renamed(k.seen, w)
        /\ k.at \in {"read", "write"} => m.change.status = k.change.status
    <3> HIDE DEF k
    <3>1. /\ CallFits(k)
          /\ k.at \in {"outcome", "read", "write"} /\ k.op = "acquireTaskLock" =>
                k.worker # w
      BY <2>1, <2>2 DEF k
    <3>2. QED
      BY <3>1, CallRenamed
  <2> HIDE DEF m
  <2>5. SameCall(k, m)
    BY <2>4 DEF SameCall, CallFields
  <2>6. QED
    BY <2>3, <2>4, <2>5 DEF m
<1>4. \A c \in Lost(w) : call'[c] = NoCall
  BY <1>1, <1>2
<1>5. CallsOK'
  BY <1>2, <1>3, <1>4, NoCallFits DEF CallsOK, SameCall
<1>6. StoreOK'
  <2>1. ASSUME NEW t \in Tasks
        PROVE  /\ hash'[t] \in Hashes /\ hash'[t].status = hash[t].status
               /\ hash'[t].lockedUntil = hash[t].lockedUntil
               /\ hash[t].workerId = Nobody => hash'[t].workerId = Nobody
    <3> DEFINE h == hash[t]
    <3>1. hash'[t] = Renamed(h, w) /\ h \in Hashes
      BY <1>1, <1>2 DEF StoreOK
    <3> HIDE DEF h
    <3>2. QED
      BY <3>1, RenamedFits, RedisAssumption DEF h
  <2>2. hash' = [t \in Tasks |-> hash'[t]]
    BY <1>2
  <2>3. QED
    BY <1>1, <1>2, <2>1, <2>2 DEF StoreOK
<1>7. \A t \in Tasks : LET n == Cardinality({j \in Lost(w) : job[j].task = t})
                       IN  n \in Nat /\ (n = 0 => {j \in Lost(w) : job[j].task = t} = {})
  <2> SUFFICES ASSUME NEW t \in Tasks
               PROVE  LET S == {j \in Lost(w) : job[j].task = t}
                      IN  Cardinality(S) \in Nat /\ (Cardinality(S) = 0 => S = {})
    OBVIOUS
  <2>1. IsFiniteSet({j \in Lost(w) : job[j].task = t})
    BY <1>1, RedisTaskAssumption, FS_Subset
  <2>2. QED
    BY <2>1, FS_CardinalityType, FS_EmptySet
<1>8. /\ cloud' \in [Tasks -> Nat] /\ \A t \in Tasks : cloud[t] > 0 => cloud'[t] > 0
      /\ \A t \in Tasks, j \in Lost(w) : job[j].task = t => cloud'[t] > 0
  <2>1. ASSUME NEW t \in Tasks
        PROVE  /\ cloud'[t] \in Nat /\ (cloud[t] > 0 => cloud'[t] > 0)
               /\ \A j \in Lost(w) : job[j].task = t => cloud'[t] > 0
    <3> DEFINE S == {j \in Lost(w) : job[j].task = t}
    <3> DEFINE n == Cardinality(S)
    <3>1. n \in Nat /\ (n = 0 => S = {}) /\ cloud'[t] = cloud[t] + n /\ cloud[t] \in Nat
      BY <1>1, <1>2, <1>7 DEF QueuesOK
    <3>2. \A j \in Lost(w) : job[j].task = t => n # 0
      BY <3>1
    <3> HIDE DEF n
    <3>3. QED
      BY <3>1, <3>2
  <2>2. cloud' = [t \in Tasks |-> cloud'[t]]
    BY <1>2
  <2>3. QED
    BY <2>1, <2>2
<1>9. /\ \A j \in Lost(w) : job'[j] = NoJob /\ cloud'[job[j].task] > 0
      /\ \A j \in Jobs \ Lost(w) : job'[j] = job[j]
  BY <1>1, <1>2, <1>8 DEF Lost, At, TypeInv, JobAt
<1>10. QueuesOK'
  <2>1. NoJob \in JobRecords
    BY DEF JobRecords, JobStates, NoJob, Missing
  <2>2. job' \in [Jobs -> JobRecords]
    BY <1>1, <1>2, <2>1 DEF QueuesOK
  <2>3. faults' \in 0 .. MaxFaults
    BY <1>1, <1>2, FaultEffect DEF QueuesOK, FaultKinds
  <2>4. QED
    BY <1>1, <1>2, <1>8, <2>2, <2>3 DEF QueuesOK
<1>11. QED
  BY <1>2, <1>3, <1>4, <1>5, <1>6, <1>8, <1>9, <1>10
LEMMA TypeInvLapse ==
    ASSUME TypeInv, NEW t \in Tasks, LockRunsOut(t)
    PROVE  TypeInv'
<1>1. /\ StoreOK' /\ CallsOK' /\ QueuesOK' /\ UNCHANGED adding
      /\ \A c \in Callers : SameCall(call[c], call'[c])
      /\ \A j \in Jobs : /\ job'[j].pc = job[j].pc /\ job'[j].task = job[j].task
                         /\ job'[j].tries = job[j].tries
  BY LapseEffect
<1>2. ASSUME NEW j \in Jobs PROVE JobAt(j)'
  <2>1. JobAt(j) /\ SameCall(call[j], call'[j])
    BY <1>1, RedisTaskAssumption DEF TypeInv
  <2>2. QED
    BY <1>1, <2>1 DEF JobAt, InCall, SameCall
<1>3. ASSUME NEW u \in Tasks PROVE AddAt(u)'
  <2>1. AddAt(u) /\ SameCall(call[u], call'[u])
    BY <1>1, RedisTaskAssumption DEF TypeInv
  <2>2. QED
    BY <1>1, <2>1 DEF AddAt, SameCall
<1>4. QED
  BY <1>1, <1>2, <1>3 DEF TypeInv

LEMMA TypeInvCrash ==
    ASSUME TypeInv, NEW w \in Workers, Crash(w)
    PROVE  TypeInv'
<1>1. /\ StoreOK' /\ CallsOK' /\ QueuesOK' /\ UNCHANGED adding
      /\ \A c \in Lost(w) : call'[c] = NoCall
      /\ \A c \in Callers \ Lost(w) : SameCall(call[c], call'[c])
      /\ \A j \in Lost(w) : job'[j] = NoJob
      /\ \A j \in Jobs \ Lost(w) : job'[j] = job[j]
  BY CrashEffect
<1>2. ASSUME NEW j \in Jobs PROVE JobAt(j)'
  <2>1. JobAt(j) /\ j \in Callers
    BY RedisTaskAssumption DEF TypeInv
  <2>2. CASE j \in Lost(w)
    BY <1>1, <2>2, NoCallFits DEF JobAt, InCall, Resting, NoJob
  <2>3. CASE j \notin Lost(w)
    BY <1>1, <2>1, <2>3 DEF JobAt, InCall, SameCall
  <2>4. QED
    BY <2>2, <2>3
<1>3. ASSUME NEW u \in Tasks PROVE AddAt(u)'
  <2>1. AddAt(u) /\ SameCall(call[u], call'[u])
    BY <1>1, RedisTaskAssumption DEF TypeInv, Lost
  <2>2. QED
    BY <1>1, <2>1 DEF AddAt, SameCall
<1>4. QED
  BY <1>1, <1>2, <1>3 DEF TypeInv

LEMMA TypeInvExpires ==
    ASSUME TypeInv, NEW t \in Tasks, HashExpires(t), UNCHANGED queues
    PROVE  TypeInv'
<1>1. StoreOK'
  BY NoHashFits DEF TypeInv, StoreOK, HashExpires, NoHash
<1>2. UNCHANGED <<call, cloud, faults, adding, job>>
  BY DEF HashExpires, queues
<1>3. QED
  BY <1>1, <1>2 DEF TypeInv, CallsOK, QueuesOK, JobAt, AddAt, InCall

LEMMA PushAgainEffect ==
    ASSUME TypeInv, NEW t \in Tasks, PushAgain(t)
    PROVE  /\ UNCHANGED <<redisVars, adding, job>> /\ TypeInv'
           /\ \A u \in Tasks : cloud[u] > 0 => cloud'[u] > 0
<1>1. /\ cloud' \in [Tasks -> Nat] /\ \A u \in Tasks : cloud[u] > 0 => cloud'[u] > 0
  BY EnqueueEffect DEF TypeInv, QueuesOK, PushAgain
<1>2. faults' \in 0 .. MaxFaults
  BY FaultEffect DEF TypeInv, QueuesOK, PushAgain, FaultKinds
<1>3. UNCHANGED <<redisVars, adding, job>>
  BY DEF PushAgain
<1>4. UNCHANGED <<hash, ttl, listed, locks, call, overlapped, adding, job>>
  BY <1>3 DEF redisVars
<1>5. StoreOK' /\ CallsOK' /\ QueuesOK'
  BY <1>1, <1>2, <1>4 DEF TypeInv, CallsOK, StoreOK, QueuesOK
<1>6. (\A j \in Jobs : JobAt(j)') /\ (\A u \in Tasks : AddAt(u)')
  BY <1>4 DEF TypeInv, JobAt, AddAt, InCall
<1>7. QED
  BY <1>1, <1>3, <1>5, <1>6 DEF TypeInv

(***************************************************************************)
(* The step of Next, by who makes it: every invariant below is preserved kind by     *)
(* kind.                                                                    *)
(***************************************************************************)
LEMMA StepKinds ==
    ASSUME TypeInv, [Next]_vars
    PROVE  \/ \E j \in Jobs : JobGoesOn(j)
           \/ \E t \in Tasks : AddGoesOn(t)
           \/ \E c \in Callers : Serve(c) /\ Served(c) /\ UNCHANGED queues
           \/ \E t \in Tasks : HashExpires(t) /\ UNCHANGED queues
           \/ \E t \in Tasks : LockRunsOut(t)
           \/ \E t \in Tasks : PushAgain(t)
           \/ \E w \in Workers : Crash(w)
           \/ UNCHANGED vars
<1>1. ASSUME NEW j \in Jobs, HandleReply(j) \/ GoOn(j) \/ \E t \in Tasks : Deliver(j, t)
      PROVE  JobGoesOn(j)
  BY <1>1, JobEffect
<1>2. ASSUME NEW t \in Tasks, AddTask(t) \/ AddSend(t) \/ AddSent(t) \/ AddEnd(t)
      PROVE  AddGoesOn(t)
  BY <1>2, AddEffect
<1>3. ASSUME NEW c \in Callers, Serve(c)
      PROVE  Served(c)
  BY <1>3, ServeEffect
<1>4. QED
  BY <1>1, <1>2, <1>3 DEF Next

LEMMA TypeInvStep == TypeInv /\ [Next]_vars => TypeInv'
<1> SUFFICES ASSUME TypeInv, [Next]_vars PROVE TypeInv'
  OBVIOUS
<1>1. CASE UNCHANGED vars
  <2>1. UNCHANGED <<hash, ttl, listed, locks, call, overlapped, cloud, faults, adding, job>>
    BY <1>1 DEF vars, redisVars
  <2>2. QED
    BY <2>1 DEF TypeInv, CallsOK, StoreOK, QueuesOK, JobAt, AddAt, InCall
<1>2. QED
  BY <1>1, StepKinds, TypeInvJob, TypeInvAdd, TypeInvServe, TypeInvExpires, TypeInvLapse,
     PushAgainEffect, TypeInvCrash

LEMMA TypeInvHolds == Spec => []TypeInv
<1>1. TypeInv /\ [Next]_vars => TypeInv'
  BY TypeInvStep
<1>2. QED
  BY TypeInvInit, <1>1, PTL DEF Spec

(***************************************************************************)
(* The values of every variable stay in their sets, whatever the number of tasks,     *)
(* callers, locks and faults.                                                *)
(***************************************************************************)
THEOREM RedisTypesCorrect == Spec => []TypeOK
BY TypeInvHolds, TypeInvIsEnough, PTL
-----------------------------------------------------------------------------
(* Every ACTIVE task is accounted for *)

(***************************************************************************)
(* A task is answerable if it waits in Cloud Tasks, addTask has yet to send it or to   *)
(* write its status, or a job has it that is not settled. AccountedFor, which takes  *)
(* any job for an account, is not inductive: that job may be settled.              *)
(***************************************************************************)
Answerable(t) ==
    \/ cloud[t] > 0
    \/ Unfinished(t)
    \/ \E j \in Jobs : job[j].task = t /\ ~Settled(j)

AnsweredFor == \A t \in Tasks : hash[t].status = "active" => Answerable(t)

LEMMA AnsweredForIsEnough == AnsweredFor => AccountedFor
BY DEF AnsweredFor, AccountedFor, Answerable, Unfinished, InHand

\* Whoever starts a call, or none, is not settled.
LEMMA StartsUnsettled ==
    ASSUME NEW j \in Jobs, call'[j].at \in Starts \cup {"none"}
    PROVE  ~Settled(j)'
BY DEF Settled, Returned, Starts, CleanUps

LEMMA AnsweredForJob ==
    ASSUME TypeInv, AnsweredFor, NEW j \in Jobs, JobGoesOn(j)
    PROVE  AnsweredFor'
<1> SUFFICES ASSUME NEW t \in Tasks, hash'[t].status = "active" PROVE Answerable(t)'
  BY DEF AnsweredFor
<1>1. /\ UNCHANGED <<hash, adding>> /\ j \in Callers
      /\ \A i \in Jobs : i # j => job'[i] = job[i]
      /\ \A d \in Callers : d # j => call'[d] = call[d]
      /\ cloud[t] > 0 => cloud'[t] > 0 \/ job'[j].task = t
      /\ job[j].task = t /\ ~Settled(j) => cloud'[t] > 0 \/ job'[j].task = t
      /\ ~Settled(j)'
  <2>1. job \in [Jobs -> JobRecords] /\ CallsOK /\ j \in Callers
    BY RedisTaskAssumption DEF TypeInv, QueuesOK
  <2>2. \A i \in Jobs : i # j => job'[i] = job[i]
    BY <2>1 DEF JobGoesOn
  <2>3. \A d \in Callers : d # j => call'[d] = call[d]
    BY <2>1, OthersStay DEF JobGoesOn
  <2>4. ~Settled(j)'
    BY StartsUnsettled DEF JobGoesOn
  <2>5. QED
    BY <2>1, <2>2, <2>3, <2>4 DEF JobGoesOn, store
<1>2. Answerable(t)
  BY <1>1 DEF AnsweredFor
<1>3. CASE cloud[t] > 0
  BY <1>1, <1>3 DEF Answerable
<1>4. CASE Unfinished(t)
  BY <1>1, <1>4, RedisTaskAssumption DEF Answerable, Unfinished, InCall
<1>5. ASSUME NEW i \in Jobs, job[i].task = t, ~Settled(i) PROVE Answerable(t)'
  <2>1. CASE i = j
    BY <1>1, <1>5, <2>1 DEF Answerable
  <2>2. CASE i # j
    BY <1>1, <1>5, <2>2, RedisTaskAssumption DEF Answerable, Settled, Returned
  <2>3. QED
    BY <2>1, <2>2
<1>6. QED
  BY <1>2, <1>3, <1>4, <1>5 DEF Answerable

LEMMA AnsweredForAdd ==
    ASSUME TypeInv, AnsweredFor, NEW u \in Tasks, AddGoesOn(u)
    PROVE  AnsweredFor'
<1> SUFFICES ASSUME NEW t \in Tasks, hash'[t].status = "active" PROVE Answerable(t)'
  BY DEF AnsweredFor
<1>1. /\ UNCHANGED <<hash, job>> /\ u \in Callers
      /\ \A v \in Tasks : v # u => adding'[v] = adding[v]
      /\ \A d \in Callers : d # u => call'[d] = call[d]
      /\ cloud[t] > 0 => cloud'[t] > 0
      /\ Unfinished(u) => Unfinished(u)' \/ cloud'[u] > 0
  <2>1. adding \in [Tasks -> {"none", "create", "send", "reset", "done", "threw"}] /\ CallsOK
        /\ u \in Callers
    BY RedisTaskAssumption DEF TypeInv, QueuesOK
  <2>2. \A v \in Tasks : v # u => adding'[v] = adding[v]
    BY <2>1 DEF AddGoesOn
  <2>3. \A d \in Callers : d # u => call'[d] = call[d]
    BY <2>1, OthersStay DEF AddGoesOn
  <2>4. QED
    BY <2>1, <2>2, <2>3 DEF AddGoesOn, store
<1>2. Answerable(t)
  BY <1>1 DEF AnsweredFor
<1>3. CASE Unfinished(t) /\ t # u
  BY <1>1, <1>3, RedisTaskAssumption DEF Answerable, Unfinished, InCall
<1>4. ASSUME NEW i \in Jobs, job[i].task = t, ~Settled(i) PROVE Answerable(t)'
  BY <1>1, <1>4, RedisTaskAssumption DEF Answerable, Settled, Returned
<1>5. QED
  BY <1>1, <1>2, <1>3, <1>4 DEF Answerable

LEMMA AnsweredForServe ==
    ASSUME TypeInv, AnsweredFor, NEW c \in Callers, Served(c), UNCHANGED queues
    PROVE  AnsweredFor'
<1> SUFFICES ASSUME NEW t \in Tasks, hash'[t].status = "active" PROVE Answerable(t)'
  BY DEF AnsweredFor
<1> DEFINE k == call[c]
<1>1. /\ UNCHANGED <<cloud, adding, job>> /\ InCall(c) /\ k.task \in Tasks /\ k.at # "none"
      /\ \A d \in Callers : d # c => call'[d] = call[d]
  <2>1. CallsOK /\ CallGoesOn(c)
    BY DEF TypeInv, Served
  <2>2. QED
    BY <2>1, OthersStay, BusyTask DEF CallGoesOn, queues, InCall
<1>2. /\ c \in Jobs => job[c].task = k.task /\ JobAt(c)
      /\ c \in Tasks => c = k.task /\ AddAt(c)
      /\ c \in Jobs \/ c \in Tasks
  BY <1>1, RedisTaskAssumption DEF TypeInv, JobAt, AddAt
\* What another caller rests on is what it rested on.
<1>3. ASSUME Answerable(t), c # t \/ ~Unfinished(t),
             c \in Jobs /\ job[c].task = t => Settled(c)
      PROVE  Answerable(t)'
  <2>1. CASE Unfinished(t)
    BY <1>1, <1>3, <2>1, RedisTaskAssumption DEF Answerable, Unfinished, InCall
  <2>2. ASSUME NEW i \in Jobs, job[i].task = t, ~Settled(i) PROVE Answerable(t)'
    <3>1. i # c /\ i \in Callers
      BY <1>3, <2>2, RedisTaskAssumption
    <3>2. QED
      BY <1>1, <2>2, <3>1 DEF Answerable, Settled, Returned
  <2>3. QED
    BY <1>1, <1>3, <2>1, <2>2 DEF Answerable
<1>4. CASE k.task # t
  <2>1. hash'[t] = hash[t]
    BY <1>1, <1>4 DEF TypeInv, StoreOK, Served
  <2>2. QED
    BY <1>2, <1>3, <1>4, <2>1 DEF AnsweredFor
<1>5. CASE k.task = t /\ c \in Jobs
  <2>1. CASE ~Settled(c)'
    BY <1>1, <1>2, <1>5, <2>1 DEF Answerable
  <2>2. CASE Settled(c)'
    <3>1. /\ call'[c].op = k.op /\ call'[c].at # "none" /\ OpFits(job[c].pc, k.op)
          /\ job'[c] = job[c]
      BY <1>1, <1>2, <1>5 DEF Served, CallGoesOn, JobAt
    <3>2. /\ job[c].pc \in {"lockFailed", "complete", "failAgain"} /\ k.at \in CleanUps
          /\ hash[t].status = "active"
      BY <1>1, <1>2, <1>5, <2>2, <3>1
         DEF Settled, Returned, Served, ActiveByCall, OpFits, JobAt, Outcomes, CleanUps
    <3>3. Settled(c) /\ Answerable(t)
      BY <3>2 DEF Settled, AnsweredFor
    <3>4. QED
      BY <1>3, <1>5, <3>3, RedisTaskAssumption
  <2>3. QED
    BY <2>1, <2>2
<1>6. CASE k.task = t /\ c \in Tasks
  <2>1. c = t /\ adding[t] \in {"create", "reset"}
    BY <1>1, <1>2, <1>6 DEF AddAt
  <2>2. CASE adding[t] = "create" \/ InCall(t)'
    BY <1>1, <2>1, <2>2 DEF Answerable, Unfinished
  <2>3. CASE adding[t] = "reset" /\ ~InCall(t)'
    <3>1. call'[t].at = "returned" /\ k.op = "updateTaskStatus"
      BY <1>2, <2>1, <2>3 DEF AddAt, InCall, Served, CallGoesOn
    <3>2. k.at = "write" /\ k.change.status # "active"
      BY <1>2, <1>6, <2>1, <2>3, <3>1 DEF Served, ActiveByCall, AddAt
    <3>3. QED
      BY <1>6, <3>2 DEF Served, ActiveByCall
  <2>4. QED
    BY <2>1, <2>2, <2>3
<1>7. QED
  BY <1>2, <1>4, <1>5, <1>6

LEMMA AnsweredForStep == TypeInv /\ AnsweredFor /\ [Next]_vars => AnsweredFor'
<1> SUFFICES ASSUME TypeInv, AnsweredFor, [Next]_vars PROVE AnsweredFor'
  OBVIOUS
\* Steps that take no status and no account away from a task.
<1>1. ASSUME \A t \in Tasks : hash'[t].status = "active" => hash[t].status = "active",
             \A t \in Tasks : cloud[t] > 0 => cloud'[t] > 0,
             \A t \in Tasks : Unfinished(t) => Unfinished(t)' \/ cloud'[t] > 0,
             \A t \in Tasks, j \in Jobs :
                job[j].task = t /\ ~Settled(j) =>
                    cloud'[t] > 0 \/ (job'[j].task = t /\ ~Settled(j)')
      PROVE  AnsweredFor'
  BY <1>1 DEF AnsweredFor, Answerable
<1>2. ASSUME NEW t \in Tasks, HashExpires(t), UNCHANGED queues PROVE AnsweredFor'
  <2>1. UNCHANGED <<cloud, adding, job, call>>
    BY <1>2 DEF HashExpires, queues
  <2>2. \A u \in Tasks : hash'[u].status = "active" => hash[u].status = "active"
    BY <1>2, NoHashFits DEF HashExpires, TypeInv, StoreOK
  <2>3. QED
    BY <1>1, <2>1, <2>2 DEF Unfinished, InCall, Settled, Returned
<1>3. ASSUME NEW t \in Tasks, LockRunsOut(t) PROVE AnsweredFor'
  <2>1. /\ hash' = [hash EXCEPT ![t] = SoonerIn(hash[t])]
        /\ \A c \in Callers : SameCall(call[c], call'[c])
        /\ \A j \in Jobs : job'[j].pc = job[j].pc /\ job'[j].task = job[j].task
        /\ UNCHANGED <<cloud, adding>>
    BY <1>3, LapseEffect
  <2>2. \A u \in Tasks : hash'[u].status = hash[u].status
    BY <2>1, SoonerFits DEF TypeInv, StoreOK
  <2>3. \A u \in Tasks : Unfinished(u) => Unfinished(u)'
    BY <2>1, RedisTaskAssumption DEF Unfinished, InCall, SameCall
  <2>4. \A j \in Jobs : ~Settled(j) => ~Settled(j)'
    BY <2>1, RedisTaskAssumption DEF Settled, Returned, SameCall
  <2>5. QED
    BY <1>1, <2>1, <2>2, <2>3, <2>4
<1>4. ASSUME NEW t \in Tasks, PushAgain(t) PROVE AnsweredFor'
  <2>1. UNCHANGED <<redisVars, adding, job>> /\ \A u \in Tasks : cloud[u] > 0 => cloud'[u] > 0
    BY <1>4, PushAgainEffect
  <2>2. QED
    BY <1>1, <2>1 DEF redisVars, Unfinished, InCall, Settled, Returned
<1>5. ASSUME NEW w \in Workers, Crash(w) PROVE AnsweredFor'
  <2>1. /\ \A t \in Tasks : hash'[t] = Renamed(hash[t], w)
        /\ \A c \in Callers \ Lost(w) : SameCall(call[c], call'[c])
        /\ \A j \in Lost(w) : cloud'[job[j].task] > 0
        /\ \A j \in Jobs \ Lost(w) : job'[j] = job[j]
        /\ \A t \in Tasks : cloud[t] > 0 => cloud'[t] > 0
        /\ UNCHANGED adding
    BY <1>5, CrashEffect
  <2>2. \A u \in Tasks : hash'[u].status = hash[u].status
    <3> SUFFICES ASSUME NEW u \in Tasks PROVE hash'[u].status = hash[u].status
      OBVIOUS
    <3> DEFINE h == hash[u]
    <3>1. h \in Hashes /\ hash'[u] = Renamed(h, w)
      BY <2>1 DEF TypeInv, StoreOK
    <3> HIDE DEF h
    <3>2. QED
      BY <3>1, RenamedFits DEF h
  <2>3. \A u \in Tasks : Unfinished(u) => Unfinished(u)'
    BY <2>1, RedisTaskAssumption DEF Unfinished, InCall, SameCall, Lost
  <2>4. \A j \in Jobs \ Lost(w) : ~Settled(j) => ~Settled(j)'
    BY <2>1, RedisTaskAssumption DEF Settled, Returned, SameCall
  <2>5. QED
    BY <1>1, <2>1, <2>2, <2>3, <2>4
<1>6. CASE UNCHANGED vars
  BY <1>1, <1>6 DEF vars, redisVars, Unfinished, InCall, Settled, Returned
<1>7. QED
  BY <1>2, <1>3, <1>4, <1>5, <1>6, StepKinds, AnsweredForJob, AnsweredForAdd, AnsweredForServe

(***************************************************************************)
(* Late writes of what was read earlier leave no task ACTIVE that nobody acts on,     *)
(* whichever calls overlap: WriteUpdate writes ACTIVE only for a caller that has yet   *)
(* to write the task's outcome, and nobody is done before that.                    *)
(***************************************************************************)
THEOREM AccountedForHolds == Spec => []AccountedFor
<1>1. Init => AnsweredFor
  BY NoHashFits DEF Init, RedisInit, AnsweredFor
<1>2. TypeInv /\ AnsweredFor /\ [Next]_vars => AnsweredFor'
  BY AnsweredForStep
<1>3. Spec => []AnsweredFor
  BY <1>1, <1>2, TypeInvHolds, PTL DEF Spec
<1>4. QED
  BY <1>3, AnsweredForIsEnough, PTL
-----------------------------------------------------------------------------
(* Calls about a task that do not overlap *)

Alone ==
    \A c, d \in Callers :
        /\ InCall(c) /\ InCall(d)
        /\ call[c].task = call[d].task /\ call[c].task \notin overlapped
        => c = d

(***************************************************************************)
(* A call that is alone writes the record back as it is, except for its own change,   *)
(* a worker that was granted the lock may still have it when it is written, and       *)
(* releaseTaskLock writes the status that the record has.                         *)
(***************************************************************************)
UpToDate(c) ==
    LET k == call[c]
        h == hash[k.task]
    IN  InCall(c) /\ k.task \notin overlapped =>
            /\ k.at = "write" => k.seen = h
            /\ k.at \in {"read", "write"} /\ k.op = "acquireTaskLock" => MayLock(h, k.worker)
            /\ k.at \in {"read", "write"} /\ k.op = "releaseTaskLock" =>
                  k.change.status = h.status

Apart == Alone /\ \A c \in Callers : UpToDate(c)

\* The caller c starts a call, or forgets the one that has returned.
CallStarts(c) ==
    LET k == call'[c]
    IN  /\ ~InCall(c)
        /\ call' = [call EXCEPT ![c] = k] /\ CallFits(k)
        /\ k.at \in Starts \cup {"none"}
        /\ k.at = "read" => k.op = "updateTaskStatus"
        /\ overlapped' = IF k.at # "none" /\ Busy(k.task) THEN overlapped \cup {k.task}
                                                          ELSE overlapped
        /\ UNCHANGED <<hash, ttl, listed>>

LEMMA ApartStarts ==
    ASSUME TypeInv, Apart, NEW c \in Callers, CallStarts(c)
    PROVE  Apart'
<1> DEFINE k == call'[c]
<1>1. /\ \A d \in Callers : d # c => call'[d] = call[d]
      /\ overlapped \subseteq overlapped' /\ hash' = hash
  <2>1. CallsOK
    BY DEF TypeInv
  <2>2. QED
    BY <2>1, OthersStay DEF CallStarts
<1>2. ASSUME NEW d \in Callers, d # c, InCall(c)', InCall(d)', k.task = call'[d].task
      PROVE  k.task \in overlapped'
  <2>1. Busy(k.task) /\ k.at # "none"
    BY <1>1, <1>2 DEF Busy, InCall
  <2>2. QED
    BY <2>1 DEF CallStarts
<1>3. Alone'
  BY <1>1, <1>2 DEF Apart, Alone, InCall
<1>4. UpToDate(c)'
  BY DEF UpToDate, CallStarts, Starts
<1>5. ASSUME NEW d \in Callers, d # c PROVE UpToDate(d)'
  BY <1>1, <1>5 DEF Apart, UpToDate, InCall
<1>6. QED
  BY <1>3, <1>4, <1>5 DEF Apart

LEMMA StartsKeepApart ==
    ASSUME TypeInv
    PROVE  /\ \A j \in Jobs : JobGoesOn(j) => CallStarts(j)
           /\ \A t \in Tasks : AddGoesOn(t) => CallStarts(t)
BY DEF JobGoesOn, AddGoesOn, CallStarts, store

\* Before it writes, a call reads; before an acquireTaskLock reads, it has decided.
LEMMA ReadsFirst ==
    ASSUME TypeInv, NEW c \in Callers, Serve(c)
    PROVE  LET k == call[c]
               m == call'[c]
           IN  /\ m.at = "write" => m.seen = hash[k.task] /\ hash' = hash
               /\ m.at \in {"read", "write"} =>
                     /\ hash' = hash
                     /\ k.at = "lock" => MayLock(hash[k.task], k.worker)
                     /\ k.at = "lock" \/ k.at = "read" \/ k.op # "acquireTaskLock"
                     /\ k.op = "releaseTaskLock" =>
                           \/ m.change.status = hash[k.task].status
                           \/ k.at = "read" /\ m.change = k.change
<1> DEFINE k == call[c]
<1>1. CallsOK /\ CallFits(k) /\ DOMAIN k = CallFields /\ call = [d \in Callers |-> call[d]]
  BY DEF TypeInv, CallsOK, CallFits
<1>2. ASSUME NEW result, NEW record, Return(c, result, record)
      PROVE  call'[c].at = "returned"
  BY <1>1, <1>2 DEF Return, NoCall
<1>3. CASE ReadBroken(c) \/ ReadMissing(c) \/ Get(c) \/ Create(c) \/ Delete(c) \/ HSetMetadata(c)
  BY <1>2, <1>3 DEF ReadBroken, ReadMissing, Get, Create, Delete, HSetMetadata
<1>4. CASE DecideLock(c)
  <2>1. k.at = "lock" /\ hash' = hash
    BY <1>4 DEF DecideLock, Finds
  <2>2. CASE MayLock(hash[k.task], k.worker)
    <3>1. call'[c].at = "read" /\ k.op = "acquireTaskLock"
      BY <1>1, <1>4, <2>1, <2>2 DEF DecideLock, CallFields, CallFits
    <3>2. QED
      BY <2>1, <2>2, <3>1
  <2>3. CASE ~MayLock(hash[k.task], k.worker)
    BY <1>2, <1>4, <2>3 DEF DecideLock
  <2>4. QED
    BY <2>2, <2>3
<1>5. CASE DecideRelease(c) \/ BeginOutcome(c)
  <2>1. k.op # "acquireTaskLock" /\ k.at \in {"release", "outcome"} /\ hash' = hash
    BY <1>1, <1>5 DEF DecideRelease, BeginOutcome, Finds, CallFits, Outcomes
  <2>2. call'[c].at # "write"
    <3>1. CASE BeginOutcome(c)
      BY <1>1, <3>1 DEF BeginOutcome, CallFields
    <3>2. CASE DecideRelease(c)
      <4>1. CASE hash[k.task].workerId = k.worker
        BY <1>1, <3>2, <4>1 DEF DecideRelease, CallFields
      <4>2. CASE hash[k.task].workerId # k.worker
        BY <1>2, <3>2, <4>2 DEF DecideRelease
      <4>3. QED
        BY <4>1, <4>2
    <3>3. QED
      BY <1>5, <3>1, <3>2
  <2>3. ASSUME k.op = "releaseTaskLock", call'[c].at \in {"read", "write"}
        PROVE  call'[c].change.status = hash[k.task].status
    <3>1. DecideRelease(c)
      BY <1>1, <1>5, <2>3 DEF BeginOutcome, Finds, CallFits, Outcomes
    <3>2. hash[k.task].workerId = k.worker
      BY <1>2, <2>3, <3>1 DEF DecideRelease
    <3> DEFINE m == [k EXCEPT !.at = "read",
                              !.change = [status |-> hash[k.task].status,
                                          workerId |-> Nobody, lockedUntil |-> 0]]
    <3>3. call' = [call EXCEPT ![c] = m]
      BY <1>1, <3>1, <3>2 DEF DecideRelease
    <3>4. m.change.status = hash[k.task].status
      BY <1>1 DEF CallFields
    <3> HIDE DEF m
    <3>5. QED
      BY <1>1, <3>3, <3>4
  <2>4. QED
    BY <2>1, <2>2, <2>3
<1>6. CASE ReadToUpdate(c)
  BY <1>1, <1>6 DEF ReadToUpdate, Finds, CallFields
<1>7. CASE WriteUpdate(c)
  <2>1. AfterUpdate(c, Over(k.change, k.seen))
    BY <1>7 DEF WriteUpdate
  <2>2. CASE k.cleanup = "now"
    BY <1>1, <2>1, <2>2 DEF AfterUpdate, CleanUp, CallFields
  <2>3. CASE k.cleanup = "later"
    BY <1>1, <2>1, <2>3 DEF AfterUpdate, CleanUp, CallFields
  <2>4. CASE k.cleanup \notin {"now", "later"}
    BY <1>2, <2>1, <2>4 DEF AfterUpdate
  <2>5. QED
    BY <2>2, <2>3, <2>4
<1>8. CASE ReadToDelete(c) \/ Expire(c) \/ HGetMetadata(c)
  BY <1>1, <1>8 DEF ReadToDelete, Expire, Proceed, HGetMetadata, CallFields
<1>9. QED
  BY <1>3, <1>4, <1>5, <1>6, <1>7, <1>8 DEF Serve

LEMMA ApartServe ==
    ASSUME TypeInv, Apart, NEW c \in Callers, Serve(c), Served(c)
    PROVE  Apart'
<1> DEFINE k == call[c]
<1>1. /\ \A d \in Callers : d # c => call'[d] = call[d]
      /\ InCall(c) /\ k.task \in Tasks /\ overlapped' = overlapped
      /\ call'[c].task = k.task /\ call'[c].op = k.op
      /\ call'[c].at # "returned" => call'[c].worker = k.worker
      /\ \A t \in Tasks : t # k.task => hash'[t] = hash[t]
  <2>1. CallsOK /\ StoreOK
    BY DEF TypeInv
  <2>2. QED
    BY <2>1, OthersStay, BusyTask DEF Served, CallGoesOn, StoreOK
<1>2. Alone'
  BY <1>1 DEF Apart, Alone, InCall
<1>3. ASSUME NEW d \in Callers, d # c PROVE UpToDate(d)'
  <2>1. InCall(d) /\ call[d].task \notin overlapped => call[d].task # k.task
    BY <1>1, <1>3 DEF Apart, Alone
  <2>2. InCall(d) => call[d].task \in Tasks
    BY BusyTask DEF TypeInv
  <2>3. QED
    BY <1>1, <1>3, <2>1, <2>2 DEF Apart, UpToDate, InCall
<1>4. UpToDate(c)'
  <2>1. UpToDate(c)
    BY DEF Apart
  <2>2. QED
    BY <1>1, <2>1, ReadsFirst DEF UpToDate, InCall
<1>5. QED
  BY <1>2, <1>3, <1>4 DEF Apart

LEMMA ApartLapse ==
    ASSUME TypeInv, Apart, NEW t \in Tasks, LockRunsOut(t)
    PROVE  Apart'
<1>1. /\ hash' = [hash EXCEPT ![t] = SoonerIn(hash[t])] /\ overlapped' = overlapped
      /\ \A c \in Callers : SameCall(call[c], call'[c])
      /\ \A c \in Callers : call[c].task = t => call'[c].seen = SoonerIn(call[c].seen)
      /\ \A c \in Callers : call[c].task # t => call'[c] = call[c]
  BY LapseEffect
<1>2. Alone'
  BY <1>1 DEF Apart, Alone, InCall, SameCall
<1>3. ASSUME NEW c \in Callers PROVE UpToDate(c)'
  <2> DEFINE h == hash[call[c].task]
  <2>1. UpToDate(c) /\ SameCall(call[c], call'[c])
    BY <1>1 DEF Apart
  <2>2. CASE ~InCall(c)
    BY <2>1, <2>2 DEF UpToDate, InCall, SameCall
  <2>3. CASE InCall(c) /\ call[c].task = t
    <3>1. hash'[t] = SoonerIn(hash[t]) /\ hash[t] \in Hashes
      BY <1>1 DEF TypeInv, StoreOK
    <3>2. \A w : MayLock(hash[t], w) => MayLock(SoonerIn(hash[t]), w)
      <4> DEFINE g == hash[t]
      <4> HIDE DEF g
      <4>1. g \in Hashes
        BY <3>1 DEF g
      <4>2. QED
        BY <4>1, SoonerFits DEF g, MayLock, LockIsLive, Sooner, Hashes
    <3>3. QED
      BY <1>1, <2>1, <2>3, <3>1, <3>2, SoonerFits DEF UpToDate, InCall, SameCall
  <2>4. CASE InCall(c) /\ call[c].task # t
    <3>1. call[c].task \in Tasks
      BY <2>4, BusyTask DEF TypeInv
    <3>2. hash'[call[c].task] = hash[call[c].task]
      BY <1>1, <2>4, <3>1 DEF TypeInv, StoreOK
    <3>3. QED
      BY <1>1, <2>1, <2>4, <3>2 DEF UpToDate, InCall
  <2>5. QED
    BY <2>2, <2>3, <2>4
<1>4. QED
  BY <1>2, <1>3 DEF Apart

LEMMA ApartCrash ==
    ASSUME TypeInv, Apart, NEW w \in Workers, Crash(w)
    PROVE  Apart'
<1>1. /\ \A t \in Tasks : hash'[t] = Renamed(hash[t], w)
      /\ \A c \in Lost(w) : call'[c] = NoCall
      /\ \A c \in Callers \ Lost(w) :
            SameCall(call[c], call'[c]) /\ call'[c].seen = Renamed(call[c].seen, w)
      /\ overlapped' = overlapped
  BY CrashEffect
<1>2. \A c \in Lost(w) : ~InCall(c)'
  BY <1>1, NoCallFits DEF InCall
<1>3. Alone'
  BY <1>1, <1>2 DEF Apart, Alone, InCall, SameCall
<1>4. ASSUME NEW c \in Callers \ Lost(w), InCall(c)' PROVE UpToDate(c)'
  <2> DEFINE k == call[c]
  <2> DEFINE h == hash[k.task]
  <2>1. UpToDate(c) /\ SameCall(k, call'[c]) /\ call'[c].seen = Renamed(k.seen, w) /\ InCall(c)
    BY <1>1, <1>4 DEF Apart, SameCall, InCall
  <2>2. k.task \in Tasks /\ h \in Hashes /\ hash'[k.task] = Renamed(h, w)
    BY <1>1, <2>1, BusyTask DEF TypeInv, StoreOK
  <2>3. k.at \in {"read", "write"} /\ k.op = "acquireTaskLock" => k.worker # w
    <3>1. CASE c \in Jobs
      BY <1>4, <2>1, <3>1 DEF TypeInv, JobAt, InCall, Lost, At, Resting
    <3>2. CASE c \in Tasks
      BY <2>1, <3>2 DEF TypeInv, AddAt
    <3>3. QED
      BY <3>1, <3>2, RedisTaskAssumption
  <2>4. \A v : v # w /\ MayLock(h, v) => MayLock(Renamed(h, w), v)
    <3> HIDE DEF h
    <3>1. QED
      BY <2>2, RenamedFits DEF MayLock, LockIsLive
  <2>5. Renamed(h, w).status = h.status
    <3> HIDE DEF h
    <3>1. QED
      BY <2>2, RenamedFits
  <2>6. QED
    BY <1>1, <2>1, <2>2, <2>3, <2>4, <2>5 DEF UpToDate, SameCall
<1>5. ASSUME NEW c \in Callers, ~InCall(c)' PROVE UpToDate(c)'
  BY <1>5 DEF UpToDate
<1>6. QED
  BY <1>2, <1>3, <1>4, <1>5 DEF Apart

LEMMA ApartExpires ==
    ASSUME TypeInv, Apart, NEW t \in Tasks, HashExpires(t), UNCHANGED queues
    PROVE  Apart'
<1>1. /\ hash' = [hash EXCEPT ![t] = NoHash] /\ call' = call
      /\ overlapped' = IF Busy(t) THEN overlapped \cup {t} ELSE overlapped
  BY DEF HashExpires
<1>2. ASSUME NEW c \in Callers PROVE UpToDate(c)'
  <2>1. InCall(c) => call[c].task \in overlapped' \/ call[c].task # t
    BY <1>1 DEF Busy
  <2>2. InCall(c) => call[c].task \in Tasks
    BY BusyTask DEF TypeInv
  <2>3. QED
    BY <1>1, <2>1, <2>2 DEF Apart, UpToDate, InCall, TypeInv, StoreOK
<1>3. QED
  BY <1>1, <1>2 DEF Apart, Alone, InCall

LEMMA ApartStep == TypeInv /\ Apart /\ [Next]_vars => Apart'
<1> SUFFICES ASSUME TypeInv, Apart, [Next]_vars PROVE Apart'
  OBVIOUS
<1>1. ASSUME UNCHANGED redisVars PROVE Apart'
  BY <1>1 DEF redisVars, Apart, Alone, UpToDate, InCall
<1>2. UNCHANGED vars => UNCHANGED redisVars
  BY DEF vars
<1>3. QED
  BY <1>1, <1>2, StepKinds, StartsKeepApart, ApartStarts, ApartServe, ApartExpires,
     ApartLapse, ApartCrash, PushAgainEffect, RedisTaskAssumption

LEMMA ApartHolds == Spec => []Apart
<1>1. Init => Apart
  BY NoCallFits DEF Init, RedisInit, Apart, Alone, UpToDate, InCall
<1>2. TypeInv /\ Apart /\ [Next]_vars => Apart'
  BY ApartStep
<1>3. QED
  BY <1>1, <1>2, TypeInvHolds, PTL DEF Spec
-----------------------------------------------------------------------------
(* The index sets *)

LEMMA SameHash ==
    ASSUME NEW g \in Hashes, NEW h \in Hashes, g.status = h.status,
           g.retryCount = h.retryCount, g.reEnqueues = h.reEnqueues,
           g.lockedUntil = h.lockedUntil, g.workerId = h.workerId
    PROVE  g = h
BY DEF Hashes

\* What updateTaskStatus makes of a record that it has read as it is.
LEMMA AloneWrites ==
    ASSUME TypeInv, Apart, NEW c \in Callers, WriteUpdate(c), call[c].task \notin overlapped
    PROVE  LET k == call[c]
               t == k.task
               h == hash[t]
               g == hash'[t]
           IN  /\ InCall(c) /\ t \in Tasks /\ k.seen = h /\ h \in Hashes /\ h.status \in Status
               /\ g \in Hashes /\ g.status = k.change.status /\ g.status \in Status
               /\ hash' = [hash EXCEPT ![t] = g] /\ ttl' = ttl
               /\ listed' = Reindexed(t, h.status, g.status)
               /\ \/ /\ k.op # "acquireTaskLock"
                     /\ g.workerId = h.workerId /\ g.lockedUntil = h.lockedUntil
                  \/ /\ k.op = "acquireTaskLock" /\ k.worker \in Workers /\ MayLock(h, k.worker)
                     /\ g.workerId = k.worker /\ g.status = "active"
                     /\ g.retryCount = h.retryCount /\ g.reEnqueues = h.reEnqueues
               /\ \/ k.op = "acquireTaskLock"
                  \/ k.op = "releaseTaskLock" /\ g = h
                  \/ k.op = "updateTaskStatus" /\ g.status \in Written
                  \/ k.op = "completeTask" /\ g.status = "completed"
                  \/ k.op = "failTask" /\ g.status = "failed"
<1> DEFINE k == call[c]
<1> DEFINE t == k.task
<1> DEFINE h == hash[t]
<1> DEFINE u == Over(k.change, h)
<1> DEFINE g == Over(SerializeTask(u), h)
<1>1. CallsOK /\ StoreOK /\ CallFits(k) /\ UpToDate(c)
  BY DEF TypeInv, CallsOK, Apart
<1>2. /\ InCall(c) /\ t \in Tasks /\ h \in Hashes
      /\ k.at = "write" /\ ChangeFits(k) /\ k.seen = h /\ h.status \in Status
      /\ k.op = "acquireTaskLock" => MayLock(h, k.worker)
      /\ k.op = "releaseTaskLock" => k.change.status = h.status
  BY <1>1 DEF WriteUpdate, InCall, CallFits, StoreOK, UpToDate
<1>3. /\ u \in Hashes /\ u.status = k.change.status /\ u.status \in Status
      /\ k.op = "acquireTaskLock" =>
            /\ u.status = "active" /\ u.workerId = k.worker /\ k.worker \in Workers
            /\ u.retryCount = h.retryCount /\ u.reEnqueues = h.reEnqueues
      /\ k.op = "releaseTaskLock" =>
            /\ u.workerId = Nobody
            /\ u.retryCount = h.retryCount /\ u.reEnqueues = h.reEnqueues
      /\ k.op \notin {"acquireTaskLock", "releaseTaskLock"} =>
            u.workerId = h.workerId /\ u.lockedUntil = h.lockedUntil
      /\ k.op = "updateTaskStatus" => u.status \in Written
      /\ k.op = "completeTask" => u.status = "completed"
      /\ k.op = "failTask" => u.status = "failed"
  BY <1>2, OverlayFits
<1>4. hash' = [hash EXCEPT ![t] = g] /\ listed' = Reindexed(t, h.status, u.status)
      /\ ttl' = ttl
  BY <1>2 DEF WriteUpdate, HMSet
<1> HIDE DEF u
<1>5. /\ g \in Hashes /\ g.status = u.status
      /\ g.retryCount = u.retryCount /\ g.reEnqueues = u.reEnqueues
      /\ u.workerId = Nobody => g.workerId = h.workerId /\ g.lockedUntil = h.lockedUntil
      /\ u.workerId # Nobody => g.workerId = u.workerId /\ g.lockedUntil = u.lockedUntil
  BY <1>2, <1>3, WrittenFits
<1> HIDE DEF g
<1>6. hash'[t] = g
  BY <1>1, <1>2, <1>4 DEF StoreOK
<1>7. \/ /\ k.op # "acquireTaskLock"
         /\ g.workerId = h.workerId /\ g.lockedUntil = h.lockedUntil
      \/ /\ k.op = "acquireTaskLock" /\ k.worker \in Workers /\ MayLock(h, k.worker)
         /\ g.workerId = k.worker /\ g.status = "active"
         /\ g.retryCount = h.retryCount /\ g.reEnqueues = h.reEnqueues
  <2>1. CASE k.op = "acquireTaskLock"
    BY <1>2, <1>3, <1>5, <2>1, RedisAssumption
  <2>2. CASE k.op = "releaseTaskLock"
    BY <1>3, <1>5, <2>2
  <2>3. CASE k.op \notin {"acquireTaskLock", "releaseTaskLock"}
    BY <1>3, <1>5, <2>3
  <2>4. QED
    BY <2>1, <2>2, <2>3
<1>8. \/ k.op = "acquireTaskLock"
      \/ k.op = "releaseTaskLock" /\ g = h
      \/ k.op = "updateTaskStatus" /\ g.status \in Written
      \/ k.op = "completeTask" /\ g.status = "completed"
      \/ k.op = "failTask" /\ g.status = "failed"
  <2>1. k.op \in {"acquireTaskLock", "releaseTaskLock", "updateTaskStatus"} \cup Outcomes
    BY <1>2 DEF ChangeFits
  <2>2. k.op = "releaseTaskLock" => g = h
    <3> HIDE DEF h, k
    <3>1. QED
      BY <1>2, <1>3, <1>5, SameHash
  <2>3. QED
    BY <1>3, <1>5, <2>1, <2>2 DEF Outcomes
<1>9. QED
  BY <1>2, <1>3, <1>4, <1>5, <1>6, <1>7, <1>8

\* The record of t is listed under its status and, unless it is ACTIVE, not as ACTIVE.
ListedRight(t) ==
    hash[t].status \in Status =>
        /\ hash[t].status \in listed[t]
        /\ "active" \in listed[t] => hash[t].status = "active"

LEMMA FoundServe ==
    ASSUME TypeInv, Apart, FoundByStatus, NEW c \in Callers, Serve(c), Served(c)
    PROVE  FoundByStatus'
<1> DEFINE k == call[c]
<1> DEFINE s == k.task
<1>1. CallsOK /\ StoreOK /\ s \in Tasks /\ overlapped' = overlapped
  BY BusyTask DEF TypeInv, Served, CallGoesOn
<1>2. ASSUME NEW t \in Tasks \ overlapped, hash'[t] = hash[t], listed'[t] = listed[t]
      PROVE  ListedRight(t)'
  BY <1>2 DEF FoundByStatus, ListedRight
<1>3. ASSUME NEW t \in Tasks \ overlapped, hash'[t].status \notin Status
      PROVE  ListedRight(t)'
  BY <1>3 DEF ListedRight
<1>4. ASSUME NEW t \in Tasks \ overlapped PROVE ListedRight(t)'
  <2>1. CASE \/ ReadBroken(c) \/ ReadMissing(c) \/ Get(c) \/ DecideLock(c) \/ DecideRelease(c)
             \/ BeginOutcome(c) \/ ReadToUpdate(c) \/ ReadToDelete(c) \/ Expire(c)
             \/ HGetMetadata(c)
    <3>1. hash' = hash /\ listed' = listed
      BY <2>1 DEF ReadBroken, ReadMissing, Get, DecideLock, DecideRelease, BeginOutcome,
                  ReadToUpdate, ReadToDelete, Expire, HGetMetadata
    <3>2. QED
      BY <1>2, <3>1
  <2>2. CASE WriteUpdate(c)
    <3>1. CASE t # s
      <4>1. hash'[t] = hash[t]
        BY <1>1, <3>1 DEF Served, StoreOK
      <4>2. listed'[t] = listed[t]
        BY <1>1, <2>2, <3>1 DEF WriteUpdate, Reindexed, StoreOK
      <4>3. QED
        BY <1>2, <4>1, <4>2
    <3>2. CASE t = s
      <4>1. /\ hash[t].status \in Status /\ hash'[t].status \in Status
            /\ listed' = Reindexed(t, hash[t].status, hash'[t].status)
        BY <2>2, <3>2, AloneWrites
      <4>2. ListedRight(t)
        BY DEF FoundByStatus, ListedRight
      <4>3. listed'[t] = IF hash[t].status = hash'[t].status THEN listed[t]
                         ELSE (listed[t] \ {hash[t].status}) \cup {hash'[t].status}
        BY <1>1, <4>1 DEF Reindexed, StoreOK
      <4>4. QED
        BY <4>1, <4>2, <4>3 DEF ListedRight
    <3>3. QED
      BY <3>1, <3>2
  <2>3. CASE Create(c)
    <3>1. /\ k.change \in [status : {"active"}, reEnqueues : Nat]
          /\ hash' = [hash EXCEPT ![s] = Over(k.change, hash[s])]
          /\ listed' = [listed EXCEPT ![s] = @ \cup {"active"}]
      BY <1>1, <2>3 DEF Create, HMSet, CallsOK, CallFits
    <3>2. CASE t = s
      <4>1. Over(k.change, hash[s]).status = "active"
        BY <3>1 DEF Over
      <4>2. QED
        BY <1>1, <3>1, <3>2, <4>1 DEF StoreOK, ListedRight
    <3>3. CASE t # s
      BY <1>1, <1>2, <3>1, <3>3 DEF StoreOK
    <3>4. QED
      BY <3>2, <3>3
  <2>4. CASE Delete(c)
    BY <1>1, <1>2, <1>3, <2>4, NoHashFits DEF Delete, StoreOK, Status
  <2>5. CASE HSetMetadata(c)
    <3>1. listed' = listed
      BY <2>5 DEF HSetMetadata
    <3>2. CASE t = s
      <4>1. CASE hash[s].status \in Status
        <5>1. hash'[s] = [hash[s] EXCEPT !.reEnqueues = k.seen.reEnqueues]
          BY <1>1, <2>5, <4>1 DEF HSetMetadata, StoreOK
        <5>2. hash'[s].status = hash[s].status
          BY <1>1, <5>1 DEF StoreOK, Hashes
        <5>3. QED
          BY <3>1, <3>2, <5>2 DEF FoundByStatus, ListedRight
      <4>2. CASE hash[s].status \notin Status
        BY <1>1, <1>3, <2>5, <3>2, <4>2 DEF HSetMetadata, StoreOK, MetadataOnly, NoHash, Status
      <4>3. QED
        BY <4>1, <4>2
    <3>3. CASE t # s
      BY <1>1, <1>2, <2>5, <3>1, <3>3 DEF HSetMetadata, StoreOK
    <3>4. QED
      BY <3>2, <3>3
  <2>6. QED
    BY <2>1, <2>2, <2>3, <2>4, <2>5 DEF Serve
<1>5. QED
  BY <1>1, <1>4 DEF FoundByStatus, ListedRight

LEMMA FoundStep == TypeInv /\ Apart /\ FoundByStatus /\ [Next]_vars => FoundByStatus'
<1> SUFFICES ASSUME TypeInv, Apart, FoundByStatus, [Next]_vars PROVE FoundByStatus'
  OBVIOUS
\* Steps that change no status, no index set, and forget no overlap.
<1>1. ASSUME \A t \in Tasks : hash'[t].status = hash[t].status,
             listed' = listed, overlapped \subseteq overlapped'
      PROVE  FoundByStatus'
  BY <1>1 DEF FoundByStatus
<1>2. ASSUME NEW c \in Callers, CallStarts(c) PROVE FoundByStatus'
  BY <1>1, <1>2 DEF CallStarts
<1>3. ASSUME NEW t \in Tasks, HashExpires(t) PROVE FoundByStatus'
  BY <1>3, NoHashFits DEF HashExpires, FoundByStatus, TypeInv, StoreOK, Status
<1>4. ASSUME NEW t \in Tasks, LockRunsOut(t) PROVE FoundByStatus'
  <2>1. hash' = [hash EXCEPT ![t] = SoonerIn(hash[t])] /\ UNCHANGED <<listed, overlapped>>
    BY <1>4, LapseEffect
  <2>2. \A u \in Tasks : hash'[u].status = hash[u].status
    BY <2>1, SoonerFits DEF TypeInv, StoreOK
  <2>3. QED
    BY <1>1, <2>1, <2>2
<1>5. ASSUME NEW w \in Workers, Crash(w) PROVE FoundByStatus'
  <2>1. (\A t \in Tasks : hash'[t] = Renamed(hash[t], w)) /\ UNCHANGED <<listed, overlapped>>
    BY <1>5, CrashEffect
  <2>2. ASSUME NEW u \in Tasks PROVE hash'[u].status = hash[u].status
    <3> DEFINE h == hash[u]
    <3>1. h \in Hashes /\ hash'[u] = Renamed(h, w)
      BY <2>1 DEF TypeInv, StoreOK
    <3> HIDE DEF h
    <3>2. QED
      BY <3>1, RenamedFits DEF h
  <2>3. QED
    BY <1>1, <2>1, <2>2
<1>6. ASSUME UNCHANGED redisVars PROVE FoundByStatus'
  BY <1>1, <1>6 DEF redisVars
<1>7. UNCHANGED vars => UNCHANGED redisVars
  BY DEF vars
<1>8. QED
  BY <1>2, <1>3, <1>4, <1>5, <1>6, <1>7, StepKinds, StartsKeepApart, FoundServe,
     PushAgainEffect, RedisTaskAssumption

(***************************************************************************)
(* As long as calls about a task do not overlap, updateTaskStatus moves it from the    *)
(* index set it is in to the one it belongs to, because the status it read is the     *)
(* status it replaces.                                                        *)
(***************************************************************************)
THEOREM FoundByStatusHolds == Spec => []FoundByStatus
<1>1. Init => FoundByStatus
  BY NoHashFits DEF Init, RedisInit, FoundByStatus, Status
<1>2. TypeInv /\ Apart /\ FoundByStatus /\ [Next]_vars => FoundByStatus'
  BY FoundStep
<1>3. QED
  BY <1>1, <1>2, TypeInvHolds, ApartHolds, PTL DEF Spec
-----------------------------------------------------------------------------
(* Redis implements TaskStore *)

\* The record of t, which alone may have changed, made a step of the store.
LEMMA OneRecordServed ==
    ASSUME NEW t \in Tasks, \A u \in Tasks \ {t} : RecordOf(u)' = RecordOf(u),
           Store!Steps(CallsAbout(t), RecordOf(t), RecordOf(t)'), overlapped' = overlapped
    PROVE  Store!StoreNext
<1> DEFINE record == [u \in Tasks |-> RecordOf(u)]
<1> DEFINE calls == [u \in Tasks |-> CallsAbout(u)]
<1>1. \A u \in Tasks : record[u] = RecordOf(u) /\ record'[u] = RecordOf(u)'
  OBVIOUS
<1>2. Store!Steps(calls[t], record[t], record'[t])
  BY <1>1
<1>3. \A u \in Tasks \ {t} : record'[u] = record[u]
  BY <1>1
<1>4. Store!Serve(t)
  BY <1>2, <1>3 DEF Store!Serve
<1>5. QED
  BY <1>4 DEF Store!StoreNext

\* Only the records of tasks whose calls overlap have changed.
LEMMA OnlyMisused ==
    ASSUME overlapped \subseteq overlapped',
           \A u \in Tasks \ overlapped' : RecordOf(u)' = RecordOf(u)
    PROVE  Store!StoreNext
<1>1. Store!Misuse
  BY DEF Store!Misuse
<1>2. QED
  BY <1>1 DEF Store!StoreNext

\* The record depends on the hash of the task and on its time to live.
LEMMA SameRecord ==
    ASSUME NEW t \in Tasks, hash'[t] = hash[t], t \in ttl' <=> t \in ttl
    PROVE  RecordOf(t)' = RecordOf(t)
<1>1. (t \in ttl)' = (t \in ttl)
  OBVIOUS
<1>2. QED
  BY <1>1 DEF RecordOf, LockIsLive

\* Without a record before and after there is no change.
LEMMA StillNoRecord ==
    ASSUME NEW t \in Tasks, hash[t].status \notin Status, hash'[t].status \notin Status
    PROVE  RecordOf(t)' = RecordOf(t)
BY DEF RecordOf

\* The call of c is one of those about its task.
LEMMA CallIsAbout ==
    ASSUME NEW c \in Callers, InCall(c)
    PROVE  /\ <<call[c].op, call[c].worker>> \in CallsAbout(call[c].task)
           /\ Store!UnderWay(CallsAbout(call[c].task), call[c].op)
<1>1. <<call[c].op, call[c].worker>> \in CallsAbout(call[c].task)
  BY DEF CallsAbout
<1>2. <<call[c].op, call[c].worker>>[1] = call[c].op
  OBVIOUS
<1>3. QED
  BY <1>1, <1>2 DEF Store!UnderWay

\* An update by the call of c keeps the lock of the record.
LEMMA SameLockUpdates ==
    ASSUME NEW c \in Callers, InCall(c), NEW t \in Tasks, call[c].task = t,
           hash[t].status \in Status, hash'[t].status \in Status,
           hash'[t].workerId = hash[t].workerId, hash'[t].lockedUntil = hash[t].lockedUntil,
           \/ call[c].op = "updateTaskStatus" /\ hash'[t].status \in Written
           \/ call[c].op = "completeTask" /\ hash'[t].status \in {hash[t].status, "completed"}
           \/ call[c].op = "failTask" /\ hash'[t].status \in {hash[t].status, "failed"}
    PROVE  Store!Steps(CallsAbout(t), RecordOf(t), RecordOf(t)')
<1>1. Store!SameLock(RecordOf(t), RecordOf(t)')
  BY DEF Store!SameLock, RecordOf, LockIsLive
<1>2. Store!Exists(RecordOf(t)) /\ Store!Exists(RecordOf(t)')
  BY DEF Store!Exists, RecordOf, Status
<1>3. RecordOf(t).status = hash[t].status /\ RecordOf(t)'.status = hash'[t].status
  BY DEF RecordOf
<1>4. Store!UnderWay(CallsAbout(t), call[c].op)
  BY CallIsAbout
<1>5. Store!Updates(CallsAbout(t), RecordOf(t), RecordOf(t)')
  BY <1>1, <1>2, <1>3, <1>4 DEF Store!Updates, Written
<1>6. QED
  BY <1>5 DEF Store!Steps

\* A record that has a time to live, or is removed by the call of c.
LEMMA GoneRemoves ==
    ASSUME NEW t \in Tasks, hash[t].status \in Status, hash'[t].status \notin Status,
           \/ t \in ttl
           \/ \E c \in Callers : InCall(c) /\ call[c].task = t /\ call[c].op \in Outcomes
    PROVE  Store!Steps(CallsAbout(t), RecordOf(t), RecordOf(t)')
<1>1. RecordOf(t)' = Store!NoTask
  BY DEF RecordOf, NoTask, Store!NoTask
<1>2. RecordOf(t).expiring = (t \in ttl)
  BY DEF RecordOf
<1>3. \/ RecordOf(t).expiring
      \/ Store!UnderWay(CallsAbout(t), "completeTask")
      \/ Store!UnderWay(CallsAbout(t), "failTask")
  BY <1>2, CallIsAbout DEF Outcomes
<1>4. QED
  BY <1>1, <1>3 DEF Store!Steps, Store!Removes

\* A record of the store that differs from another one in status and lock only.
RecordFields == {"status", "retryCount", "lockedBy", "lockLive", "reEnqueues", "expiring"}

LEMMA LockedRecord ==
    ASSUME NEW r, NEW s, r = [f \in RecordFields |-> r[f]], s = [f \in RecordFields |-> s[f]],
           s.status = "active",
           \A f \in RecordFields \ {"status", "lockedBy", "lockLive"} : s[f] = r[f]
    PROVE  s = [r EXCEPT !.status = "active", !.lockedBy = s.lockedBy, !.lockLive = s.lockLive]
BY DEF RecordFields

LEMMA OneFieldRecord ==
    ASSUME NEW r, NEW s, r = [f \in RecordFields |-> r[f]], s = [f \in RecordFields |-> s[f]],
           NEW g \in RecordFields, \A f \in RecordFields \ {g} : s[f] = r[f]
    PROVE  s = [r EXCEPT ![g] = s[g]]
OBVIOUS

LEMMA RecordHasFields ==
    ASSUME NEW status, NEW n, NEW m, NEW e, NEW by, NEW live
    PROVE  LET r == [status |-> status, retryCount |-> n, lockedBy |-> by, lockLive |-> live,
                     reEnqueues |-> m, expiring |-> e]
           IN  r = [f \in RecordFields |-> r[f]]
BY DEF RecordFields

\* acquireTaskLock writes its lock over one that its worker may have.
LEMMA LockLocks ==
    ASSUME NEW c \in Callers, InCall(c), NEW t \in Tasks, call[c].task = t,
           call[c].op = "acquireTaskLock", call[c].worker \in Workers,
           hash[t].status \in Status, MayLock(hash[t], call[c].worker),
           hash'[t].status = "active", hash'[t].workerId = call[c].worker,
           hash'[t].retryCount = hash[t].retryCount, hash'[t].reEnqueues = hash[t].reEnqueues,
           ttl' = ttl
    PROVE  Store!Steps(CallsAbout(t), RecordOf(t), RecordOf(t)')
<1> DEFINE w == call[c].worker
<1> DEFINE r == RecordOf(t)
<1> DEFINE s == RecordOf(t)'
<1>1. /\ r = [status |-> hash[t].status, retryCount |-> hash[t].retryCount,
              lockedBy |-> hash[t].workerId, lockLive |-> LockIsLive(hash[t]),
              reEnqueues |-> hash[t].reEnqueues, expiring |-> t \in ttl]
      /\ s = [status |-> "active", retryCount |-> hash[t].retryCount,
              lockedBy |-> w, lockLive |-> LockIsLive(hash'[t]),
              reEnqueues |-> hash[t].reEnqueues, expiring |-> t \in ttl]
  BY DEF RecordOf, LockIsLive, Status
<1>2. /\ r.status = hash[t].status /\ r.lockedBy = hash[t].workerId
      /\ r.lockLive = LockIsLive(hash[t]) /\ s.lockedBy = w
  BY <1>1
<1>3. s = [r EXCEPT !.status = "active", !.lockedBy = s.lockedBy, !.lockLive = s.lockLive]
  <2>1. r = [f \in RecordFields |-> r[f]] /\ s = [f \in RecordFields |-> s[f]]
    BY <1>1, RecordHasFields
  <2>2. s.status = "active" /\ s.retryCount = r.retryCount /\ s.reEnqueues = r.reEnqueues
        /\ s.expiring = r.expiring
    BY <1>1
  <2> HIDE DEF r, s
  <2>3. \A f \in RecordFields \ {"status", "lockedBy", "lockLive"} : s[f] = r[f]
    BY <2>2 DEF RecordFields
  <2>4. QED
    BY <2>1, <2>2, <2>3, LockedRecord
<1> HIDE DEF r, s
<1>4. <<"acquireTaskLock", w>> \in CallsAbout(t)
  BY CallIsAbout
<1>5. Store!Locks(CallsAbout(t), r, s)
  BY <1>2, <1>3, <1>4 DEF Store!Locks, Store!Exists, MayLock, Status
<1>6. QED
  BY <1>5 DEF Store!Steps, r, s
\* The record of a hash that is one.
LEMMA RecordOfFields ==
    ASSUME NEW t \in Tasks, hash[t].status \in Status
    PROVE  LET r == RecordOf(t)
           IN  /\ r = [f \in RecordFields |-> r[f]]
               /\ r.status = hash[t].status /\ r.retryCount = hash[t].retryCount
               /\ r.lockedBy = hash[t].workerId /\ r.lockLive = LockIsLive(hash[t])
               /\ r.reEnqueues = hash[t].reEnqueues /\ r.expiring = (t \in ttl)
<1> DEFINE r == RecordOf(t)
<1>1. r = [status |-> hash[t].status, retryCount |-> hash[t].retryCount,
           lockedBy |-> hash[t].workerId, lockLive |-> LockIsLive(hash[t]),
           reEnqueues |-> hash[t].reEnqueues, expiring |-> t \in ttl]
  BY DEF RecordOf
<1>2. r = [f \in RecordFields |-> r[f]]
  BY <1>1, RecordHasFields
<1>3. QED
  BY <1>1, <1>2

LEMMA NoRecordOf ==
    ASSUME NEW t \in Tasks, hash[t].status \notin Status
    PROVE  RecordOf(t) = NoTask
BY DEF RecordOf

\* A lock that runs out is no longer live, or as live as before.
LEMMA LapseStores ==
    ASSUME TypeInv, NEW t \in Tasks, LockRunsOut(t)
    PROVE  [Store!StoreNext]_(Store!storeVars)
<1> DEFINE h == hash[t]
<1> DEFINE r == RecordOf(t)
<1> DEFINE s == RecordOf(t)'
<1>1. /\ hash' = [hash EXCEPT ![t] = SoonerIn(hash[t])] /\ UNCHANGED <<ttl, overlapped>>
      /\ hash'[t] = SoonerIn(h) /\ h \in Hashes
  BY LapseEffect DEF TypeInv, StoreOK
<1>2. /\ hash'[t].lockedUntil = Sooner(h.lockedUntil) /\ hash'[t].status = h.status
      /\ hash'[t].retryCount = h.retryCount /\ hash'[t].reEnqueues = h.reEnqueues
      /\ hash'[t].workerId = h.workerId
  <2> HIDE DEF h
  <2>1. QED
    BY <1>1, SoonerFits
<1>3. \A u \in Tasks \ {t} : RecordOf(u)' = RecordOf(u)
  BY <1>1, SameRecord DEF TypeInv, StoreOK
<1>4. CASE h.status \notin Status
  BY <1>1, <1>2, <1>3, <1>4, StillNoRecord, OnlyMisused
<1>5. CASE h.status \in Status
  <2>1. /\ r = [f \in RecordFields |-> r[f]] /\ s = [f \in RecordFields |-> s[f]]
        /\ s.status = r.status /\ s.retryCount = r.retryCount /\ s.lockedBy = r.lockedBy
        /\ s.reEnqueues = r.reEnqueues /\ s.expiring = r.expiring
        /\ s.lockLive = (hash'[t].lockedUntil > 0) /\ r.lockLive = (h.lockedUntil > 0)
    <3>1. s.lockLive = (hash'[t].lockedUntil > 0) /\ r.lockLive = (h.lockedUntil > 0)
      BY <1>2, <1>5 DEF RecordOf, LockIsLive
    <3>2. /\ s = [f \in RecordFields |-> s[f]]
          /\ s.status = hash'[t].status /\ s.retryCount = hash'[t].retryCount
          /\ s.lockedBy = hash'[t].workerId
          /\ s.reEnqueues = hash'[t].reEnqueues /\ s.expiring = (t \in ttl')
      <4>1. hash'[t].status \in Status
        BY <1>2, <1>5
      <4>2. s = [status |-> hash'[t].status, retryCount |-> hash'[t].retryCount,
                 lockedBy |-> hash'[t].workerId, lockLive |-> LockIsLive(hash'[t]),
                 reEnqueues |-> hash'[t].reEnqueues, expiring |-> t \in ttl']
        BY <4>1 DEF RecordOf, LockIsLive
      <4>3. s = [f \in RecordFields |-> s[f]]
        BY <4>2, RecordHasFields
      <4>4. QED
        BY <4>2, <4>3
    <3>3. QED
      BY <1>1, <1>2, <1>5, <3>1, <3>2, RecordOfFields
  <2>2. CASE hash'[t].lockedUntil > 0
    <3>1. h.lockedUntil > 0
      BY <1>1, <1>2, <2>2 DEF Sooner, Hashes
    <3> HIDE DEF r, s
    <3>2. s = r
      <4>1. \A f \in RecordFields : s[f] = r[f]
        BY <2>1, <2>2, <3>1 DEF RecordFields
      <4>2. QED
        BY <2>1, <4>1
    <3>3. RecordOf(t)' = RecordOf(t)
      BY <3>2 DEF r, s
    <3>4. QED
      BY <1>1, <1>3, <3>3, OnlyMisused
  <2>3. CASE ~(hash'[t].lockedUntil > 0)
    <3> HIDE DEF r, s
    <3>1. s = [r EXCEPT !.lockLive = FALSE]
      <4>1. \A f \in RecordFields \ {"lockLive"} : s[f] = r[f]
        BY <2>1 DEF RecordFields
      <4>2. s = [r EXCEPT !.lockLive = s.lockLive]
        BY <2>1, <4>1, OneFieldRecord DEF RecordFields
      <4>3. s.lockLive = FALSE
        <5>1. (hash'[t].lockedUntil > 0) = FALSE
          BY <2>3
        <5>2. QED
          BY <2>1, <5>1
      <4>4. QED
        BY <4>2, <4>3
    <3>2. CASE r.lockLive
      <4>1. Store!Steps(CallsAbout(t), RecordOf(t), RecordOf(t)')
        BY <3>1, <3>2 DEF Store!Steps, Store!Lapses, r, s
      <4>2. QED
        BY <1>1, <1>3, <4>1, OneRecordServed
    <3>3. CASE ~r.lockLive
      <4>1. s.lockLive = r.lockLive
        <5> DEFINE was == (h.lockedUntil > 0)
        <5> DEFINE is == (hash'[t].lockedUntil > 0)
        <5>1. r.lockLive = was /\ s.lockLive = is
          BY <2>1
        <5>2. is = FALSE
          BY <2>3
        <5> HIDE DEF is, was
        <5>3. was \in BOOLEAN
          BY DEF was
        <5>4. QED
          BY <3>3, <5>1, <5>2, <5>3, Zenon
      <4>2. \A f \in RecordFields : s[f] = r[f]
        BY <2>1, <4>1 DEF RecordFields
      <4>3. s = r
        BY <2>1, <4>2
      <4>4. RecordOf(t)' = RecordOf(t)
        BY <4>3 DEF r, s
      <4>5. QED
        BY <1>1, <1>3, <4>4, OnlyMisused
    <3>4. QED
      BY <3>2, <3>3
  <2>4. QED
    BY <2>2, <2>3
<1>6. QED
  BY <1>4, <1>5
\* The instance that crashes leaves its locks under another name.
LEMMA CrashStores ==
    ASSUME TypeInv, NEW w \in Workers, Crash(w)
    PROVE  Store!StoreNext
<1>1. /\ \A t \in Tasks : hash'[t] = Renamed(hash[t], w)
      /\ UNCHANGED <<ttl, overlapped>>
  BY CrashEffect
<1>2. ASSUME NEW t \in Tasks
      PROVE  RecordOf(t)' = RecordOf(t) \/ Store!Departs(RecordOf(t), RecordOf(t)')
  <2> DEFINE h == hash[t]
  <2> DEFINE r == RecordOf(t)
  <2> DEFINE s == RecordOf(t)'
  <2>1. h \in Hashes /\ hash'[t] = Renamed(h, w)
    BY <1>1 DEF TypeInv, StoreOK
  <2>2. /\ hash'[t].lockedUntil = h.lockedUntil /\ hash'[t].status = h.status
        /\ hash'[t].retryCount = h.retryCount /\ hash'[t].reEnqueues = h.reEnqueues
        /\ hash'[t].workerId = IF h.workerId = w THEN Departed ELSE h.workerId
    <3> HIDE DEF h
    <3>1. QED
      BY <2>1, RenamedFits
  <2>3. CASE h.status \notin Status
    BY <2>2, <2>3 DEF RecordOf
  <2>4. CASE h.status \in Status
    <3>1. /\ s = [status |-> hash'[t].status, retryCount |-> hash'[t].retryCount,
                  lockedBy |-> hash'[t].workerId, lockLive |-> LockIsLive(hash'[t]),
                  reEnqueues |-> hash'[t].reEnqueues, expiring |-> t \in ttl']
          /\ LockIsLive(hash'[t]) = LockIsLive(h)
      BY <2>2, <2>4 DEF RecordOf, LockIsLive
    <3>2. /\ s = [f \in RecordFields |-> s[f]]
          /\ s.status = hash'[t].status /\ s.retryCount = hash'[t].retryCount
          /\ s.lockedBy = hash'[t].workerId /\ s.lockLive = LockIsLive(h)
          /\ s.reEnqueues = hash'[t].reEnqueues /\ s.expiring = (t \in ttl)
      <4>1. s = [f \in RecordFields |-> s[f]]
        BY <3>1, RecordHasFields
      <4>2. QED
        BY <1>1, <3>1, <4>1
    <3>3. /\ r = [f \in RecordFields |-> r[f]]
          /\ r.lockedBy = h.workerId
          /\ \A f \in RecordFields \ {"lockedBy"} : s[f] = r[f]
      BY <2>2, <2>4, <3>2, RecordOfFields DEF RecordFields
    <3>4. s.lockedBy = IF h.workerId = w THEN Departed ELSE h.workerId
      BY <2>2, <3>2
    <3> HIDE DEF r, s
    <3>5. s = [r EXCEPT !.lockedBy = s.lockedBy]
      BY <3>2, <3>3, OneFieldRecord DEF RecordFields
    <3>6. CASE h.workerId = w
      BY <3>3, <3>4, <3>5, <3>6 DEF Store!Departs, r, s
    <3>7. CASE h.workerId # w
      <4>1. \A f \in RecordFields : s[f] = r[f]
        BY <3>3, <3>4, <3>7
      <4>2. s = r
        BY <3>2, <3>3, <4>1
      <4>3. QED
        BY <4>2 DEF r, s
    <3>8. QED
      BY <3>6, <3>7
  <2>5. QED
    BY <2>3, <2>4
<1>3. Store!WorkerDeparts
  BY <1>1, <1>2 DEF Store!WorkerDeparts
<1>4. QED
  BY <1>3 DEF Store!StoreNext

LEMMA ExpiresStores ==
    ASSUME TypeInv, NEW t \in Tasks, HashExpires(t)
    PROVE  Store!StoreNext
<1>1. /\ t \in ttl /\ hash' = [hash EXCEPT ![t] = NoHash] /\ ttl' = ttl \ {t}
      /\ overlapped' = IF Busy(t) THEN overlapped \cup {t} ELSE overlapped
  BY DEF HashExpires
<1>2. hash'[t].status \notin Status
  BY <1>1, NoHashFits DEF TypeInv, StoreOK, Status
<1>3. \A u \in Tasks \ {t} : RecordOf(u)' = RecordOf(u)
  BY <1>1, SameRecord DEF TypeInv, StoreOK
<1>4. CASE Busy(t)
  BY <1>1, <1>3, <1>4, OnlyMisused
<1>5. CASE ~Busy(t) /\ hash[t].status \in Status
  BY <1>1, <1>2, <1>3, <1>5, GoneRemoves, OneRecordServed
<1>6. CASE ~Busy(t) /\ hash[t].status \notin Status
  BY <1>1, <1>2, <1>3, <1>6, StillNoRecord, OnlyMisused
<1>7. QED
  BY <1>4, <1>5, <1>6

\* One command of a call that is alone.
LEMMA ServeStores ==
    ASSUME TypeInv, Apart, NEW c \in Callers, Serve(c), Served(c),
           NEW t \in Tasks, call[c].task = t
    PROVE  Store!StoreNext
<1> DEFINE k == call[c]
<1> DEFINE h == hash[t]
<1>1. /\ CallsOK /\ StoreOK /\ k.task = t /\ overlapped' = overlapped /\ h \in Hashes
      /\ hash' = [hash EXCEPT ![t] = hash'[t]]
      /\ InCall(c) /\ CallFits(k)
  BY DEF TypeInv, Served, CallGoesOn, StoreOK, CallsOK
<1>2. ttl' = ttl \/ ttl' = ttl \ {t} \/ ttl' = ttl \cup {t}
  BY <1>1 DEF Serve, ReadBroken, ReadMissing, Get, DecideLock, DecideRelease, BeginOutcome,
         ReadToUpdate, ReadToDelete, Expire, HGetMetadata, WriteUpdate, Create, Delete,
         HSetMetadata
<1>3. \A u \in Tasks \ {t} : RecordOf(u)' = RecordOf(u)
  BY <1>1, <1>2, SameRecord DEF StoreOK
<1>4. CASE t \in overlapped
  BY <1>1, <1>3, <1>4, OnlyMisused
<1>5. CASE t \notin overlapped
  <2>1. ASSUME hash' = hash, ttl' = ttl PROVE Store!StoreNext
    <3>1. RecordOf(t)' = RecordOf(t)
      BY <1>1, <2>1, SameRecord
    <3>2. QED
      BY <1>1, <1>3, <3>1, OnlyMisused
  <2>2. CASE \/ ReadBroken(c) \/ ReadMissing(c) \/ Get(c) \/ DecideLock(c) \/ DecideRelease(c)
             \/ BeginOutcome(c) \/ ReadToUpdate(c) \/ ReadToDelete(c) \/ HGetMetadata(c)
    BY <2>1, <2>2 DEF ReadBroken, ReadMissing, Get, DecideLock, DecideRelease, BeginOutcome,
                      ReadToUpdate, ReadToDelete, HGetMetadata
  <2>3. CASE WriteUpdate(c)
    <3> DEFINE g == hash'[t]
    <3>1. /\ h.status \in Status /\ g.status \in Status /\ ttl' = ttl
          /\ \/ /\ k.op # "acquireTaskLock"
                /\ g.workerId = h.workerId /\ g.lockedUntil = h.lockedUntil
             \/ /\ k.op = "acquireTaskLock" /\ k.worker \in Workers /\ MayLock(h, k.worker)
                /\ g.workerId = k.worker /\ g.status = "active"
                /\ g.retryCount = h.retryCount /\ g.reEnqueues = h.reEnqueues
          /\ \/ k.op = "acquireTaskLock"
             \/ k.op = "releaseTaskLock" /\ g = h
             \/ k.op = "updateTaskStatus" /\ g.status \in Written
             \/ k.op = "completeTask" /\ g.status = "completed"
             \/ k.op = "failTask" /\ g.status = "failed"
      BY <1>1, <1>5, <2>3, AloneWrites
    <3>2. CASE k.op = "releaseTaskLock" /\ g = h
      BY <1>1, <1>3, <3>1, <3>2, SameRecord, OnlyMisused
    <3>3. CASE k.op = "acquireTaskLock"
      <4>1. Store!Steps(CallsAbout(t), RecordOf(t), RecordOf(t)')
        BY <1>1, <3>1, <3>3, LockLocks
      <4>2. QED
        BY <1>1, <1>3, <4>1, OneRecordServed
    <3>4. CASE k.op \in {"updateTaskStatus", "completeTask", "failTask"}
      <4>1. Store!Steps(CallsAbout(t), RecordOf(t), RecordOf(t)')
        BY <1>1, <3>1, <3>4, SameLockUpdates
      <4>2. QED
        BY <1>1, <1>3, <4>1, OneRecordServed
    <3>5. QED
      BY <3>1, <3>2, <3>3, <3>4
  <2>4. CASE Create(c)
    <3> DEFINE g == Over(k.change, h)
    <3>1. /\ k.change \in [status : {"active"}, reEnqueues : Nat]
          /\ hash' = [hash EXCEPT ![t] = g] /\ ttl' = ttl
          /\ k.op = "createTask"
      BY <1>1, <2>4 DEF Create, HMSet, CallFits
    <3>2. g.status = "active" /\ g.workerId = h.workerId /\ g.lockedUntil = h.lockedUntil
      BY <1>1, <3>1 DEF Over, Hashes
    <3> HIDE DEF g
    <3>3. hash'[t] = g
      BY <1>1, <3>1 DEF StoreOK
    <3>4. RecordOf(t)'.status = "active"
      BY <3>2, <3>3 DEF RecordOf, Status
    <3>5. h.status \in Status => Store!SameLock(RecordOf(t), RecordOf(t)')
      BY <3>2, <3>3 DEF RecordOf, Store!SameLock, Status, LockIsLive
    <3>6. h.status \notin Status => Store!Unlocked(RecordOf(t)')
      <4>1. h.status \notin Status => g.workerId = Nobody /\ ~LockIsLive(g)
        BY <1>1, <3>2 DEF StoreOK, LockIsLive
      <4>2. QED
        BY <3>2, <3>3, <4>1 DEF RecordOf, Store!Unlocked, Status, LockIsLive
    <3>7. Store!SameLock(RecordOf(t), RecordOf(t)') \/ Store!Unlocked(RecordOf(t)')
      BY <3>5, <3>6
    <3>8. Store!UnderWay(CallsAbout(t), "createTask")
      BY <1>1, <3>1, CallIsAbout
    <3>9. Store!Creates(CallsAbout(t), RecordOf(t), RecordOf(t)')
      BY <3>4, <3>7, <3>8 DEF Store!Creates
    <3>10. QED
      BY <1>1, <1>3, <3>9, OneRecordServed DEF Store!Steps
  <2>5. CASE Delete(c)
    <3>1. hash'[t].status \notin Status
      BY <1>1, <2>5, NoHashFits DEF Delete, StoreOK, Status
    <3>2. k.op \in Outcomes
      BY <1>1, <2>5 DEF Delete, CallFits, CleanUps
    <3>3. CASE h.status \in Status
      BY <1>1, <1>3, <3>1, <3>2, <3>3, GoneRemoves, OneRecordServed
    <3>4. CASE h.status \notin Status
      BY <1>1, <1>3, <3>1, <3>4, StillNoRecord, OnlyMisused
    <3>5. QED
      BY <3>3, <3>4
  <2>6. CASE Expire(c)
    <3>1. hash' = hash /\ k.op \in Outcomes
      BY <1>1, <2>6 DEF Expire, CallFits, CleanUps
    <3>2. CASE h.status \in Status
      BY <1>1, <1>3, <3>1, <3>2, SameLockUpdates, OneRecordServed DEF Outcomes
    <3>3. CASE h.status \notin Status
      BY <1>1, <1>3, <3>1, <3>3, StillNoRecord, OnlyMisused
    <3>4. QED
      BY <3>2, <3>3
  <2>7. CASE HSetMetadata(c)
    <3>1. CASE h.status \in Status
      <4>1. hash'[t] = [h EXCEPT !.reEnqueues = k.seen.reEnqueues]
        BY <1>1, <2>7, <3>1 DEF HSetMetadata, StoreOK
      <4>2. /\ hash'[t].status = h.status /\ hash'[t].workerId = h.workerId
            /\ hash'[t].lockedUntil = h.lockedUntil
        BY <1>1, <4>1 DEF Hashes
      <4>3. k.op \in Outcomes
        BY <1>1, <2>7 DEF HSetMetadata, CallFits, CleanUps
      <4>4. QED
        BY <1>1, <1>3, <3>1, <4>2, <4>3, SameLockUpdates, OneRecordServed DEF Outcomes
    <3>2. CASE h.status \notin Status
      <4>1. hash'[t].status \notin Status
        BY <1>1, <2>7, <3>2 DEF HSetMetadata, StoreOK, MetadataOnly, NoHash, Status
      <4>2. QED
        BY <1>1, <1>3, <3>2, <4>1, StillNoRecord, OnlyMisused
    <3>3. QED
      BY <3>1, <3>2
  <2>8. QED
    BY <2>2, <2>3, <2>4, <2>5, <2>6, <2>7 DEF Serve
<1>6. QED
  BY <1>4, <1>5

LEMMA StoreStep ==
    TypeInv /\ Apart /\ [Next]_vars => [Store!StoreNext]_(Store!storeVars)
<1> SUFFICES ASSUME TypeInv, Apart, [Next]_vars
             PROVE  [Store!StoreNext]_(Store!storeVars)
  OBVIOUS
<1>1. ASSUME hash' = hash, ttl' = ttl, overlapped \subseteq overlapped' PROVE Store!StoreNext
  BY <1>1, SameRecord, OnlyMisused
<1>2. ASSUME NEW c \in Callers, CallStarts(c) PROVE Store!StoreNext
  BY <1>1, <1>2 DEF CallStarts
<1>3. ASSUME UNCHANGED redisVars PROVE Store!StoreNext
  BY <1>1, <1>3 DEF redisVars
<1>4. UNCHANGED vars => UNCHANGED redisVars
  BY DEF vars
<1>5. ASSUME NEW c \in Callers, Serve(c), Served(c) PROVE Store!StoreNext
  <2>1. call[c].task \in Tasks
    BY <1>5, BusyTask DEF TypeInv, Served, CallGoesOn
  <2>2. QED
    BY <1>5, <2>1, ServeStores
<1>6. QED
  BY <1>2, <1>3, <1>4, <1>5, StepKinds, StartsKeepApart, ExpiresStores, LapseStores,
     CrashStores, PushAgainEffect, RedisTaskAssumption

(***************************************************************************)
(* As long as calls about a task do not overlap, the commands of the Redis adapter     *)
(* do to its record what every adapter promises: the write of an update is one step    *)
(* from the record as it is, the lock passes only to who may have it, and nothing       *)
(* brings a removed record back but createTask.                                  *)
(***************************************************************************)
THEOREM RedisStoreImplemented == Spec => ImplementsTaskStore
<1>1. Init => Store!StoreInit
  BY NoHashFits, NoCallFits DEF Init, RedisInit, Store!StoreInit, RecordOf, Status, NoTask, Store!NoTask,
                             CallsAbout, InCall
<1>2. TypeInv /\ Apart /\ [Next]_vars => [Store!StoreNext]_(Store!storeVars)
  BY StoreStep
<1>3. QED
  BY <1>1, <1>2, TypeInvHolds, ApartHolds, PTL DEF Spec, ImplementsTaskStore, Store!StoreSpec
=============================================================================
