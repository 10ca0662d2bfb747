SPECIFICATION FairSpec
CONSTANTS
    Threads = {"t1", "t2"}
    HeapIds = {"h1", "h2"}
    AllocIds = {"a1", "a2"}
    BlocksPerHeap = 2
    ChainOrder <- MCChainOrder
    Configs <- MCConfigs
INVARIANTS BlocksMatchAllocations StatsExact DebugTableExact MappedStaysResident
PROPERTY EveryCallReturns
