\* Two instances over MongoDB while sendBufferTasks calls do not overlap and
\* nothing is pushed twice, three tasks, one without a taskId: one HTTP task per
\* task, no attempts beyond maxRetry, completed tasks stay completed, and a task
\* becomes FAILED for cause only.
CONSTANTS
    t1 = t1  t2 = t2  t3 = t3  w1 = w1  w2 = w2  j1 = j1  j2 = j2  j3 = j3  p1 = p1  p2 = p2  k1 = k1
    Workers = {w1, w2}
    Nobody = Nobody
    Departed = Departed
    Adapter = "mongo"
    Tasks = {t1, t2, t3}
    Keys = {k1}
    NoKey = NoKey
    UniquenessKey <- NoKeys
    CustomIds = {t1, t2}
    Immediate = {t2}
    RateLimited = {}
    MaxRetry <- FirstRetriesOnce
    RemoveOnComplete <- KeepRecords
    RemoveOnFail <- KeepRecords
    Faults = {"reject", "credentials", "handler"}
    MaxFaults = 4
    Polls = {p1}
    HostOf <- TwoWorkerPolls
    CallerOf <- FirstWorkerCalls
    BufferSize = 1
    Jobs = {j1, j2}
    WorkerOf <- TwoWorkerJobs
    NoTaskId = NoTaskId
    ControllerOf <- AllIntercepted
    LongHandlers = FALSE
SPECIFICATION Spec
INVARIANTS OnePush AttemptsBounded
PROPERTIES CompletedFinal FailedForCause
