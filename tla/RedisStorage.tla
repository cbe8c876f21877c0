----------------------------- MODULE RedisStorage -----------------------------
(***************************************************************************)
(* RedisStorageAdapter: every operation on task records, one Redis command at   *)
(* a time. Redis executes a command, or the commands of a MULTI, at one moment; *)
(* what the adapter does with the reply before its next command interleaves     *)
(* with nothing. Between two commands of a call anybody else's may come.        *)
(*                                                                         *)
(* A record is a hash. HMSET writes the fields it is given and keeps the others, *)
(* and serializeTask leaves out fields that are undefined. The locks of a task    *)
(* all last equally long and run out in the order they were computed in:         *)
(* lockedUntil = n says that its lock is the n-th to run out from now, 0 that it   *)
(* has run out or was never set.                                             *)
(***************************************************************************)
EXTENDS TaskRecord, Integers, FiniteSets

CONSTANTS
    Tasks,
    Callers,            \* whoever calls the adapter: one call at a time each
    NoTaskId,           \* the task of a caller that calls nothing
    RemoveOnComplete,   \* metadata.removeOnComplete of each task
    RemoveOnFail,       \* metadata.removeOnFail of each task
    MaxLocks            \* bound: locks of one task that have not run out

ASSUME RedisAssumption ==
    /\ Nobody \notin Workers /\ Departed \notin Workers /\ Nobody # Departed
    /\ NoTaskId \notin Tasks
    /\ RemoveOnComplete \in [Tasks -> RemoveOptions]
    /\ RemoveOnFail \in [Tasks -> RemoveOptions]
    /\ MaxLocks \in Nat

VARIABLES
    hash,       \* the hash of each task
    ttl,        \* the hashes that have a time to live
    listed,     \* listed[t]: the statuses whose index sets have t, the set of the
                \* status and that of queue and status, which change together
    locks,      \* how many locks of each task have not run out, overwritten
                \* ones included
    call,       \* the call each caller has made
    overlapped  \* tasks two calls were made about at the same time, or whose
                \* time to live ended during a call (history)

redisVars == <<hash, ttl, listed, locks, call, overlapped>>

-----------------------------------------------------------------------------
(* Hashes *)

NoHash == [status |-> "absent", retryCount |-> 0, reEnqueues |-> 0,
           lockedUntil |-> 0, workerId |-> Nobody]

\* What is left when only the field metadata was set: JSON.parse of the payload
\* throws wherever it is read.
MetadataOnly == [NoHash EXCEPT !.status = "broken"]

Hashes ==
    [status      : Status \cup {"absent", "broken"},
     retryCount  : Nat,
     reEnqueues  : Nat,
     lockedUntil : Nat,
     workerId    : Workers \cup {Nobody, Departed}]

LockFields == {"lockedUntil", "workerId"}

\* serializeTask: lockedUntil and workerId only if they are set.
SerializeTask(h) ==
    IF h.workerId = Nobody THEN [f \in DOMAIN h \ LockFields |-> h[f]] ELSE h

\* The fields f has, and those only g has.
Over(f, g) == [x \in DOMAIN f \cup DOMAIN g |-> IF x \in DOMAIN f THEN f[x] ELSE g[x]]

HMSet(t, fields) == hash' = [hash EXCEPT ![t] = Over(fields, @)]

LockIsLive(h) == h.lockedUntil > 0

-----------------------------------------------------------------------------
(* Calls *)

CallSteps == {"none", "get", "create", "lock", "release", "outcome", "read", "write",
              "readToDelete", "delete", "expire", "hget", "hset", "returned"}

(***************************************************************************)
(* change is what an update lays over the record, seen what the last HGETALL     *)
(* has read and, when the call has returned, the record it returns; cleanup is    *)
(* the removal option of a completeTask or failTask call.                      *)
(***************************************************************************)
NoCall == [at |-> "none", op |-> "none", task |-> NoTaskId, worker |-> Nobody,
           change |-> <<>>, seen |-> NoHash, cleanup |-> "unset", result |-> "none"]

InCall(c) == call[c].at \notin {"none", "returned"}

Busy(t) == \E c \in Callers : InCall(c) /\ call[c].task = t

\* c starts a call; its first command has not reached Redis yet.
Invoke(c, request) ==
    /\ call' = [call EXCEPT ![c] = Over(request, NoCall)]
    /\ overlapped' = IF Busy(request.task) THEN overlapped \cup {request.task}
                                           ELSE overlapped

GetTaskById(t) == [at |-> "get", op |-> "getTaskById", task |-> t]

CreateTask(t, status, reEnqueues) ==
    [at |-> "create", op |-> "createTask", task |-> t,
     change |-> [status |-> status, reEnqueues |-> reEnqueues]]

UpdateTaskStatus(t, change) ==
    [at |-> "read", op |-> "updateTaskStatus", task |-> t, change |-> change]

AcquireTaskLock(t, w) ==
    [at |-> "lock", op |-> "acquireTaskLock", task |-> t, worker |-> w]

ReleaseTaskLock(t, w) ==
    [at |-> "release", op |-> "releaseTaskLock", task |-> t, worker |-> w]

CompleteTask(t) ==
    [at |-> "outcome", op |-> "completeTask", task |-> t,
     change |-> [status |-> "completed"]]

FailTask(t) ==
    [at |-> "outcome", op |-> "failTask", task |-> t, change |-> [status |-> "failed"]]

Returned(c, result) == call[c].at = "returned" /\ call[c].result = result

Return(c, result, record) ==
    call' = [call EXCEPT ![c] = [NoCall EXCEPT !.at = "returned", !.op = call[c].op,
                                               !.task = call[c].task,
                                               !.seen = record, !.result = result]]

Proceed(c, at) == call' = [call EXCEPT ![c].at = at]

-----------------------------------------------------------------------------
(* What Redis and the adapter do next for a call *)

Reads == {"get", "lock", "release", "outcome", "read", "readToDelete"}

\* HGETALL finds a hash without the fields of a task.
ReadBroken(c) ==
    /\ call[c].at \in Reads
    /\ hash[call[c].task] = MetadataOnly
    /\ Return(c, "threw", NoHash)
    /\ UNCHANGED <<hash, ttl, listed, locks, overlapped>>

\* Mutant of ReadMissing: updateTaskStatus writes although it has found no record.
ReadMissing_GoesOn(c) ==
    /\ call[c].at \in Reads
    /\ hash[call[c].task] = NoHash
    /\ \/ call[c].at = "read" /\ Proceed(c, "write")
       \/ call[c].at \in {"lock", "release"} /\ Return(c, "refused", NoHash)
       \/ call[c].at = "get" /\ Return(c, "null", NoHash)
       \/ call[c].at = "readToDelete" /\ Return(c, "done", NoHash)
       \/ call[c].at = "outcome" /\ Return(c, "threw", NoHash)
    /\ UNCHANGED <<hash, ttl, listed, locks, overlapped>>

\* HGETALL finds nothing. acquireTaskLock does not look at what its
\* updateTaskStatus returns.
ReadMissing(c) ==
    /\ call[c].at \in Reads
    /\ hash[call[c].task] = NoHash
    /\ Return(c, CASE call[c].at \in {"lock", "release"}                   -> "refused"
                   [] call[c].op \in {"getTaskById", "updateTaskStatus"}   -> "null"
                   [] call[c].op \in {"acquireTaskLock", "releaseTaskLock"} -> "done"
                   [] call[c].at = "readToDelete"                          -> "done"
                   [] OTHER                                                -> "threw",
              NoHash)
    /\ UNCHANGED <<hash, ttl, listed, locks, overlapped>>

\* HGETALL finds the record of c's task.
Finds(c, at) == call[c].at = at /\ hash[call[c].task].status \in Status

Get(c) ==
    /\ Finds(c, "get")
    /\ Return(c, "done", hash[call[c].task])
    /\ UNCHANGED <<hash, ttl, listed, locks, overlapped>>

MayLock(h, w) ==
    /\ h.status # "completed"
    /\ LockIsLive(h) => h.workerId = w

\* acquireTaskLock decides; updateTaskStatus, which reads again, follows.
DecideLock(c) ==
    LET t == call[c].task
    IN  /\ Finds(c, "lock")
        /\ IF MayLock(hash[t], call[c].worker)
           THEN /\ locks[t] < MaxLocks
                /\ locks' = [locks EXCEPT ![t] = @ + 1]
                /\ call' = [call EXCEPT
                      ![c].at = "read",
                      ![c].change = [status |-> "active", workerId |-> call[c].worker,
                                     lockedUntil |-> locks[t] + 1]]
           ELSE Return(c, "refused", NoHash) /\ UNCHANGED locks
        /\ UNCHANGED <<hash, ttl, listed, overlapped>>

\* releaseTaskLock: the status it has read, and a lock that is unset.
DecideRelease(c) ==
    LET h == hash[call[c].task]
    IN  /\ Finds(c, "release")
        /\ IF h.workerId = call[c].worker
           THEN call' = [call EXCEPT
                   ![c].at = "read",
                   ![c].change = [status |-> h.status, workerId |-> Nobody,
                                  lockedUntil |-> 0]]
           ELSE Return(c, "refused", NoHash)
        /\ UNCHANGED <<hash, ttl, listed, locks, overlapped>>

\* completeTask and failTask read the removal option before they update.
BeginOutcome(c) ==
    LET t == call[c].task
        option == IF call[c].op = "completeTask" THEN RemoveOnComplete[t]
                                                 ELSE RemoveOnFail[t]
    IN  /\ Finds(c, "outcome")
        /\ call' = [call EXCEPT ![c].at = "read",
                                ![c].cleanup = EffectiveRemoval(option, hash[t])]
        /\ UNCHANGED <<hash, ttl, listed, locks, overlapped>>

\* updateTaskStatus
ReadToUpdate(c) ==
    /\ Finds(c, "read")
    /\ call' = [call EXCEPT ![c].at = "write", ![c].seen = hash[call[c].task]]
    /\ UNCHANGED <<hash, ttl, listed, locks, overlapped>>

\* Mutant of Reindexed: SADD without the SREM.
Reindexed_NoRemove(t, from, to) ==
    [listed EXCEPT ![t] = IF from = to THEN @ ELSE @ \cup {to}]

Reindexed(t, from, to) ==
    [listed EXCEPT ![t] = IF from = to THEN @ ELSE (@ \ {from}) \cup {to}]

CleanUp(c, at) == call' = [call EXCEPT ![c].at = at, ![c].change = <<>>,
                                       ![c].seen = NoHash]

AfterUpdate(c, record) ==
    CASE call[c].cleanup = "now"   -> CleanUp(c, "readToDelete")
      [] call[c].cleanup = "later" -> CleanUp(c, "expire")
      [] OTHER                     -> Return(c, "done", record)

\* The MULTI of updateTaskStatus writes the whole record as it was read.
WriteUpdate(c) ==
    LET t == call[c].task
        updated == Over(call[c].change, call[c].seen)
    IN  /\ call[c].at = "write"
        /\ HMSet(t, SerializeTask(updated))
        /\ listed' = Reindexed(t, call[c].seen.status, updated.status)
        /\ AfterUpdate(c, updated)
        /\ UNCHANGED <<ttl, locks, overlapped>>

\* createTask: an old hash keeps its lock, its counter, its time to live and
\* its places in the index sets.
Create(c) ==
    LET t == call[c].task
    IN  /\ call[c].at = "create"
        /\ HMSet(t, call[c].change)
        /\ listed' = [listed EXCEPT ![t] = @ \cup {call[c].change.status}]
        /\ Return(c, "done", NoHash)
        /\ UNCHANGED <<ttl, locks, overlapped>>

\* deleteTask, called by handleTaskCleanup
ReadToDelete(c) ==
    /\ Finds(c, "readToDelete")
    /\ call' = [call EXCEPT ![c].at = "delete",
                            ![c].seen.status = hash[call[c].task].status]
    /\ UNCHANGED <<hash, ttl, listed, locks, overlapped>>

Delete(c) ==
    LET t == call[c].task
    IN  /\ call[c].at = "delete"
        /\ hash' = [hash EXCEPT ![t] = NoHash]
        /\ ttl' = ttl \ {t}
        /\ listed' = [listed EXCEPT ![t] = @ \ {call[c].seen.status}]
        /\ Return(c, "done", NoHash)
        /\ UNCHANGED <<locks, overlapped>>

\* handleTaskCleanup with a number: EXPIRE, then the metadata is read and written.
Expire(c) ==
    LET t == call[c].task
    IN  /\ call[c].at = "expire"
        /\ ttl' = IF hash[t] = NoHash THEN ttl ELSE ttl \cup {t}
        /\ Proceed(c, "hget")
        /\ UNCHANGED <<hash, listed, locks, overlapped>>

HGetMetadata(c) ==
    /\ call[c].at = "hget"
    /\ call' = [call EXCEPT ![c].at = "hset",
                            ![c].seen.reEnqueues = hash[call[c].task].reEnqueues]
    /\ UNCHANGED <<hash, ttl, listed, locks, overlapped>>

HSetMetadata(c) ==
    LET t == call[c].task
    IN  /\ call[c].at = "hset"
        /\ hash' = [hash EXCEPT ![t] =
              IF @.status \in Status
              THEN [@ EXCEPT !.reEnqueues = call[c].seen.reEnqueues] ELSE MetadataOnly]
        /\ Return(c, "done", NoHash)
        /\ UNCHANGED <<ttl, listed, locks, overlapped>>

Serve(c) ==
    \/ ReadBroken(c) \/ ReadMissing(c) \/ Get(c) \/ DecideLock(c) \/ DecideRelease(c)
    \/ BeginOutcome(c) \/ ReadToUpdate(c) \/ WriteUpdate(c) \/ Create(c)
    \/ ReadToDelete(c) \/ Delete(c) \/ Expire(c) \/ HGetMetadata(c) \/ HSetMetadata(c)

-----------------------------------------------------------------------------
(* Time *)

HashExpires(t) ==
    /\ t \in ttl
    /\ hash' = [hash EXCEPT ![t] = NoHash]
    /\ ttl' = ttl \ {t}
    /\ overlapped' = IF Busy(t) THEN overlapped \cup {t} ELSE overlapped
    /\ UNCHANGED <<listed, locks, call>>

Sooner(n) == IF n = 0 THEN 0 ELSE n - 1

SoonerIn(h) == [f \in DOMAIN h |-> IF f = "lockedUntil" THEN Sooner(h[f]) ELSE h[f]]

\* The oldest lock of t that has not run out does.
LockLapses(t) ==
    /\ locks[t] > 0
    /\ locks' = [locks EXCEPT ![t] = @ - 1]
    /\ hash' = [hash EXCEPT ![t] = SoonerIn(@)]
    /\ call' = [c \in Callers |->
          IF call[c].task = t
          THEN [call[c] EXCEPT !.seen = SoonerIn(@), !.change = SoonerIn(@)] ELSE call[c]]
    /\ UNCHANGED <<ttl, listed, overlapped>>

-----------------------------------------------------------------------------

RedisInit ==
    /\ hash = [t \in Tasks |-> NoHash]
    /\ ttl = {}
    /\ listed = [t \in Tasks |-> {}]
    /\ locks = [t \in Tasks |-> 0]
    /\ call = [c \in Callers |-> NoCall]
    /\ overlapped = {}

RedisTypeOK ==
    /\ hash \in [Tasks -> Hashes]
    /\ ttl \subseteq Tasks
    /\ listed \in [Tasks -> SUBSET Status]
    /\ locks \in [Tasks -> Nat]
    /\ \A c \in Callers :
          /\ DOMAIN call[c] = DOMAIN NoCall
          /\ call[c].at \in CallSteps
          /\ call[c].task \in Tasks \cup {NoTaskId}
          /\ call[c].seen \in Hashes
          /\ call[c].cleanup \in RemoveOptions
    /\ overlapped \subseteq Tasks
=============================================================================
