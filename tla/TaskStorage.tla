----------------------------- MODULE TaskStorage -----------------------------
(***************************************************************************)
(* IStateStorageAdapter as the producer and the consumer see it: the task     *)
(* records and the uniqueness keys, served by the configured adapter.  One    *)
(* adapter call is one atomic step; the callers interleave between calls,     *)
(* which is where the code awaits.                                          *)
(***************************************************************************)
EXTENDS TaskRecord, FiniteSets

CONSTANTS
    Adapter,            \* config.storageAdapter: "memory" or "mongo"
    Tasks,              \* the tasks that are added, one taskId each
    Keys,               \* uniqueness keys
    NoKey,              \* the task has no uniqueness key
    UniquenessKey,      \* options.uniquenessKey of each task
    CustomIds,          \* the tasks added with options.taskId
    Immediate,          \* the tasks added with skipBuffering or scheduleTime
    RateLimited,        \* the tasks whose rateLimiterKey names a limiter
    MaxRetry,           \* options.maxRetry ?? 5 of each task
    RemoveOnComplete,   \* options.removeOnComplete of each task
    RemoveOnFail        \* options.removeOnFail of each task

ASSUME StorageAssumption ==
    /\ Nobody \notin Workers
    /\ Departed \notin Workers
    /\ Nobody # Departed
    /\ Adapter \in {"memory", "mongo"}
    /\ Adapter = "memory" => \A v, w \in Workers : v = w
    /\ NoKey \notin Keys
    /\ UniquenessKey \in [Tasks -> Keys \cup {NoKey}]
    /\ CustomIds \subseteq Tasks
    /\ Immediate \subseteq Tasks
    /\ RateLimited \subseteq Tasks
    /\ MaxRetry \in [Tasks -> Nat]
    /\ RemoveOnComplete \in [Tasks -> RemoveOptions]
    /\ RemoveOnFail \in [Tasks -> RemoveOptions]

VARIABLES
    tasks,      \* the record of each task
    keys        \* the uniqueness keys that are set

storageVars == <<tasks, keys>>

StorageTypeOK ==
    /\ tasks \in [Tasks -> TaskRecords]
    /\ keys \subseteq Keys

StorageInit ==
    /\ tasks = [t \in Tasks |-> NoTask]
    /\ keys = {}

-----------------------------------------------------------------------------

Memory == INSTANCE MemoryStorage
Mongo == INSTANCE MongoStorage

Unique(t) == UniquenessKey[t] # NoKey

CreateTask(t, status, reEnqueues) ==
    tasks' = [tasks EXCEPT ![t] =
        IF Adapter = "memory" THEN Memory!CreateTask(@, status, reEnqueues)
                              ELSE Mongo!CreateTask(@, status, reEnqueues)]

\* Mutant of UpdateTask: a missing task is inserted.
UpdateTask_Upserts(t, status, retryCount, reEnqueues) ==
    tasks' = [tasks EXCEPT ![t].status = status,
                           ![t].retryCount = retryCount,
                           ![t].reEnqueues = reEnqueues]

\* Mutant of UpdateTask: the record is replaced and its lock fields are lost.
UpdateTask_Replaces(t, status, retryCount, reEnqueues) ==
    tasks' = [tasks EXCEPT ![t] =
        IF Exists(@)
        THEN [NoTask EXCEPT !.status = status,
                            !.retryCount = retryCount,
                            !.reEnqueues = reEnqueues]
        ELSE @]

\* updateTaskStatus, alike in both adapters: a missing task is left missing.
\* The two counters are what additionalData may overwrite.
UpdateTask(t, status, retryCount, reEnqueues) ==
    tasks' = [tasks EXCEPT ![t] =
        IF Exists(@)
        THEN [@ EXCEPT !.status = status,
                       !.retryCount = retryCount,
                       !.reEnqueues = reEnqueues]
        ELSE @]

UpdateTaskStatus(t, status) ==
    UpdateTask(t, status, tasks[t].retryCount, tasks[t].reEnqueues)

CanAcquireTaskLock(t, w) ==
    IF Adapter = "memory" THEN Memory!CanAcquireTaskLock(tasks[t], w)
                          ELSE Mongo!CanAcquireTaskLock(tasks[t], w)

AcquireTaskLock(t, w) ==
    tasks' = [tasks EXCEPT ![t] =
        IF Adapter = "memory" THEN Memory!AcquireTaskLock(@, w)
                              ELSE Mongo!AcquireTaskLock(@, w)]

ReleaseTaskLock(t, w) ==
    tasks' = [tasks EXCEPT ![t] =
        IF Adapter = "memory" THEN Memory!ReleaseTaskLock(@, w)
                              ELSE Mongo!ReleaseTaskLock(@, w)]

CompleteTaskThrows(t) ==
    IF Adapter = "memory" THEN Memory!CompleteTaskThrows(tasks[t])
                          ELSE Mongo!CompleteTaskThrows(tasks[t])

CompleteTask(t) ==
    LET removal == EffectiveRemoval(RemoveOnComplete[t], tasks[t])
    IN  tasks' = [tasks EXCEPT ![t] =
            IF Adapter = "memory" THEN Memory!CompleteTask(@, removal)
                                  ELSE Mongo!CompleteTask(@, removal)]

FailTaskThrows(t) ==
    IF Adapter = "memory" THEN Memory!FailTaskThrows(tasks[t])
                          ELSE Mongo!FailTaskThrows(tasks[t])

FailTask(t) ==
    LET removal == EffectiveRemoval(RemoveOnFail[t], tasks[t])
    IN  tasks' = [tasks EXCEPT ![t] =
            IF Adapter = "memory" THEN Memory!FailTask(@, removal)
                                  ELSE Mongo!FailTask(@, removal)]

KeyIsSet(t) == UniquenessKey[t] \in keys

SaveUniquenessKeyThrows(t) ==
    IF Adapter = "memory" THEN Memory!SaveUniquenessKeyThrows(KeyIsSet(t))
                          ELSE Mongo!SaveUniquenessKeyThrows(KeyIsSet(t))

SaveUniquenessKey(t) == keys' = keys \cup {UniquenessKey[t]}

RemoveUniquenessKey(t) == keys' = keys \ {UniquenessKey[t]}
=============================================================================
