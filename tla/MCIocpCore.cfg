SPECIFICATION FairSpec
CONSTANTS
    Ops = {o1, o2}
    Workers = {w1, w2}
    Owner = owner
    Free = free
    None = none
INVARIANTS TypeOK OneCallbackAtATime WakesEveryWorker
PROPERTIES ServiceSpec EveryCompletionServed StopReturns
