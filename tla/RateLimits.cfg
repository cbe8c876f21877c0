\* A dynamic limiter on two instances that restart, evict and unregister it.
CONSTANTS
    w1 = w1  w2 = w2  c1 = c1  c2 = c2
    Instances = {w1, w2}
    Callers = {c1, c2}
    InstanceOf <- OwnInstance
    Nobody = Nobody
    Several = Several
    Tokens = 2
    TimeMS = 3
    CacheTTL = 2
    Dynamic = TRUE
    MaxTime = 3
    MaxRequests = 5
    MaxDisruptions = 1
SPECIFICATION Spec
INVARIANTS TypeOK WithinBudget
PROPERTIES DenialIsGenuine WaitSuffices
CHECK_DEADLOCK FALSE
