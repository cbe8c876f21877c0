\* A task added without a taskId is pushed without one and never processed.
CONSTANTS
    t1 = t1  t2 = t2  t3 = t3  w1 = w1  w2 = w2  j1 = j1  j2 = j2  j3 = j3  p1 = p1  p2 = p2  k1 = k1
    Workers = {w1}
    Nobody = Nobody
    Departed = Departed
    Adapter = "memory"
    Tasks = {t1}
    Keys = {k1}
    NoKey = NoKey
    UniquenessKey <- NoKeys
    CustomIds = {}
    Immediate = {}
    RateLimited = {}
    MaxRetry <- OneRetry
    RemoveOnComplete <- KeepRecords
    RemoveOnFail <- KeepRecords
    Faults = {}
    MaxFaults = 2
    Polls = {p1}
    HostOf <- OneWorkerPolls
    CallerOf <- FirstWorkerCalls
    BufferSize = 1
    Jobs = {j1}
    WorkerOf <- OneWorkerJobs
    NoTaskId = NoTaskId
    ControllerOf <- AllIntercepted
    LongHandlers = FALSE
SPECIFICATION FairSpec
PROPERTIES SettlesWithoutTaskId
