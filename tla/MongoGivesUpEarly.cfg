\* failTask is called twice per failed attempt and counts twice, so a task
\* with maxRetry 2 is given up after two attempts.
CONSTANTS
    t1 = t1  t2 = t2  t3 = t3  w1 = w1  w2 = w2  j1 = j1  j2 = j2  j3 = j3  p1 = p1  p2 = p2  k1 = k1
    Workers = {w1}
    Nobody = Nobody
    Departed = Departed
    Adapter = "mongo"
    Tasks = {t1}
    Keys = {k1}
    NoKey = NoKey
    UniquenessKey <- NoKeys
    CustomIds = {t1}
    Immediate = {}
    RateLimited = {}
    MaxRetry <- TwoRetries
    RemoveOnComplete <- KeepRecords
    RemoveOnFail <- KeepRecords
    Faults = {"handler"}
    MaxFaults = 3
    Polls = {p1}
    HostOf <- OneWorkerPolls
    CallerOf <- FirstWorkerCalls
    BufferSize = 1
    Jobs = {j1}
    WorkerOf <- OneWorkerJobs
    NoTaskId = NoTaskId
    ControllerOf <- AllIntercepted
    LongHandlers = FALSE
SPECIFICATION Spec
PROPERTIES RetriesUntilMaxRetry
