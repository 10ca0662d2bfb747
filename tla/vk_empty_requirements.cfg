SPECIFICATION Spec
CONSTANTS
    Threads = {"t1", "t2"}
    Workers = {"w1"}
    MemoryIds = {"m1", "m2", "m3"}
    ResourceIds = {"r1", "r2", "r3"}
    BlocksPerMemory = 2
    Configs <- EmptyResources
INVARIANT NothingLeaks
