\* In-memory adapter, one instance, two requests in service: t1 is buffered and
\* pushed to the built-in controller, t2 is sent at once, rate-limited and has a
\* uniqueness key. Through every way a send can fail, repeated pushes, denied
\* and failed attempts and removal timers, no ACTIVE task is forgotten and the
\* adapter is a TaskStore.
CONSTANTS
    t1 = t1  t2 = t2  t3 = t3  w1 = w1  w2 = w2  j1 = j1  j2 = j2  j3 = j3  p1 = p1  p2 = p2  k1 = k1
    Workers = {w1}
    Nobody = Nobody
    Departed = Departed
    Adapter = "memory"
    Tasks = {t1, t2}
    Keys = {k1}
    NoKey = NoKey
    UniquenessKey <- SecondKeyed
    CustomIds = {t1, t2}
    Immediate = {t2}
    RateLimited = {t2}
    MaxRetry <- OneRetry
    RemoveOnComplete <- KeepRecords
    RemoveOnFail <- RemoveLater
    Faults = {"reject", "ambiguous", "credentials", "duplicate", "handler", "denied"}
    MaxFaults = 2
    Polls = {p1}
    HostOf <- OneWorkerPolls
    CallerOf <- FirstWorkerCalls
    BufferSize = 1
    Jobs = {j1, j2}
    WorkerOf <- OneWorkerJobs
    NoTaskId = NoTaskId
    ControllerOf <- FirstBuiltin
    LongHandlers = FALSE
SPECIFICATION Spec
PROPERTIES ImplementsTaskStore
INVARIANTS TypeOK AccountedFor
