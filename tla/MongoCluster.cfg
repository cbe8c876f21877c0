\* Two instances over MongoDB that may crash, three requests in service,
\* locks that may run out under a handler, repeated pushes: two leases on one
\* task never overlap, no ACTIVE task is forgotten and the adapter is a TaskStore.
CONSTANTS
    t1 = t1  t2 = t2  t3 = t3  w1 = w1  w2 = w2  j1 = j1  j2 = j2  j3 = j3  p1 = p1  p2 = p2  k1 = k1
    Workers = {w1, w2}
    Nobody = Nobody
    Departed = Departed
    Adapter = "mongo"
    Tasks = {t1}
    Keys = {k1}
    NoKey = NoKey
    UniquenessKey <- NoKeys
    CustomIds = {t1}
    Immediate = {t1}
    RateLimited = {}
    MaxRetry <- OneRetry
    RemoveOnComplete <- RemoveNow
    RemoveOnFail <- KeepRecords
    Faults = {"crash", "duplicate", "handler"}
    MaxFaults = 3
    Polls = {p1, p2}
    HostOf <- TwoWorkerPolls
    CallerOf <- FirstWorkerCalls
    BufferSize = 1
    Jobs = {j1, j2, j3}
    WorkerOf <- TwoWorkerJobs
    NoTaskId = NoTaskId
    ControllerOf <- AllIntercepted
    LongHandlers = TRUE
SPECIFICATION Spec
PROPERTIES ImplementsTaskStore
INVARIANTS LeaseExclusion AccountedFor
