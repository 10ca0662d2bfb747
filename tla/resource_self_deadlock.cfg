SPECIFICATION FairSpec
CONSTANTS
    Threads = {"t1", "t2"}
    HeapIds = {"h1", "h2"}
    AllocIds = {"a1", "a2"}
    BlocksPerHeap = 2
    ChainOrder <- MCChainOrder
    Configs <- SelfDeadlocks
PROPERTY EveryCallReturns
CHECK_DEADLOCK FALSE
