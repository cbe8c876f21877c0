\* Two tasks under one uniqueness key, two instances over MongoDB that may
\* crash, repeated pushes, failing handlers and re-submitted tasks: the key
\* has one holder.
CONSTANTS
    t1 = t1  t2 = t2  t3 = t3  w1 = w1  w2 = w2  j1 = j1  j2 = j2  j3 = j3  p1 = p1  p2 = p2  k1 = k1
    Workers = {w1, w2}
    Nobody = Nobody
    Departed = Departed
    Adapter = "mongo"
    Tasks = {t1, t2}
    Keys = {k1}
    NoKey = NoKey
    UniquenessKey <- OneKey
    CustomIds = {t1, t2}
    Immediate = {}
    RateLimited = {}
    MaxRetry <- OneRetry
    RemoveOnComplete <- KeepRecords
    RemoveOnFail <- KeepRecords
    Faults = {"handler", "duplicate", "crash", "resubmit"}
    MaxFaults = 2
    Polls = {p1}
    HostOf <- TwoWorkerPolls
    CallerOf <- FirstWorkerCalls
    BufferSize = 1
    Jobs = {j1, j2}
    WorkerOf <- TwoWorkerJobs
    NoTaskId = NoTaskId
    ControllerOf <- AllIntercepted
    LongHandlers = FALSE
SPECIFICATION Spec
INVARIANTS KeyExclusion
