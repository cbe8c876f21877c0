\* A chain in two queues, sendBufferTasks calls that do not overlap.
CONSTANTS
    t1 = t1  t2 = t2  t3 = t3  t4 = t4  q1 = q1  q2 = q2  p1 = p1  p2 = p2
    Tasks = {t1, t2, t3, t4}
    Queues = {q1, q2}
    QueueOf <- SecondElsewhere
    ChainOrder <- PositionInChain
    MaxRetry <- SecondRetried
    Polls = {p1}
    NoTask = NoTask
    MaxRejections = 2
SPECIFICATION FairSpec
INVARIANTS TypeOK OneActivePerQueue
PROPERTIES HandledInOrder ChainFinishes
