SPECIFICATION ChainSpec
CONSTANTS
    MaxOrder = 3
    MemoryOrder = 2
    MemoryAlignment = 2
    ConditionalSize = 4
    FixedSize = 8
    PoolAlgorithm <- BothFixed
    Requests <- MCRequests
    Releases = {0, 7, 15}
    Word = 16
    MaxMemory = 3
INVARIANTS LargeEnough
