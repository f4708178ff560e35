CONSTANTS
    Producers = {p1, p2}
    Consumers = {c1, c2}
    Tasks = {t1, t2}
    NoTask = NoTask
    Free = Free
    MaxQueue = 3
SPECIFICATION FairSpec
INVARIANT TypeOK
INVARIANT NoStrandedTask
INVARIANT StopMissesAtMostOne
PROPERTY QueuedTaskIsTaken
PROPERTY FifoSpec
