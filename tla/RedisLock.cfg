\* Two requests for one task, on two instances over Redis; nothing else fails.
CONSTANTS
    t1 = t1  w1 = w1  w2 = w2  j1 = j1  j2 = j2
    Workers = {w1, w2}
    Nobody = Nobody
    Departed = Departed
    Tasks = {t1}
    Callers = {t1, j1, j2}
    NoTaskId = NoTaskId
    RemoveOnComplete <- RemoveNow
    RemoveOnFail <- RemoveLater
    Jobs = {j1, j2}
    WorkerOf <- OneEach
    RateLimited = {}
    MaxRetry <- OneRetry
    Faults = {"duplicate"}
    MaxFaults = 1
    MaxLocks = 2
SPECIFICATION Spec
INVARIANT LeaseExclusion
SYMMETRY Alike
CHECK_DEADLOCK FALSE
