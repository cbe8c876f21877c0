\* Under fairness every task is worked off, with two instances over MongoDB
\* that may crash, two overlapping polls, a rate limiter that may deny and every
\* other fault of the path.
CONSTANTS
    t1 = t1  t2 = t2  t3 = t3  w1 = w1  w2 = w2  j1 = j1  j2 = j2  j3 = j3  p1 = p1  p2 = p2  k1 = k1
    Workers = {w1, w2}
    Nobody = Nobody
    Departed = Departed
    Adapter = "mongo"
    Tasks = {t1}
    Keys = {k1}
    NoKey = NoKey
    UniquenessKey <- NoKeys
    CustomIds = {t1}
    Immediate = {}
    RateLimited = {t1}
    MaxRetry <- OneRetry
    RemoveOnComplete <- KeepRecords
    RemoveOnFail <- KeepRecords
    Faults = {"reject", "ambiguous", "credentials","duplicate", "handler", "crash", "denied"}
    MaxFaults = 2
    Polls = {p1, p2}
    HostOf <- TwoWorkerPolls
    CallerOf <- FirstWorkerCalls
    BufferSize = 1
    Jobs = {j1, j2}
    WorkerOf <- TwoWorkerJobs
    NoTaskId = NoTaskId
    ControllerOf <- AllIntercepted
    LongHandlers = FALSE
SPECIFICATION FairSpec
PROPERTIES Settles
