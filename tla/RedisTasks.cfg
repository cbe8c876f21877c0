\* Two instances over Redis, overlapping requests, repeated pushes, crashes.
CONSTANTS
    t1 = t1  w1 = w1  w2 = w2  j1 = j1  j2 = j2
    Workers = {w1, w2}
    Nobody = Nobody
    Departed = Departed
    Tasks = {t1}
    Callers = {t1, j1, j2}
    NoTaskId = NoTaskId
    RemoveOnComplete <- RemoveNow
    RemoveOnFail <- RemoveLater
    Jobs = {j1, j2}
    WorkerOf <- OneEach
    RateLimited = {t1}
    MaxRetry <- OneRetry
    Faults = {"reject", "ambiguous", "credentials", "duplicate", "crash", "handler", "denied"}
    MaxFaults = 2
    MaxLocks = 2
SPECIFICATION Spec
INVARIANTS TypeOK AccountedFor FoundByStatus
PROPERTIES ImplementsTaskStore
SYMMETRY Alike
CHECK_DEADLOCK FALSE
