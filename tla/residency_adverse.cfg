SPECIFICATION FairSpec
CONSTANTS
    h1 = h1
    h2 = h2
    h3 = h3
    h4 = h4
    Heaps = {h1, h3}
    NoHeap = NoHeap
    HeapSize <- Sizes
    HeapSegment <- TwoSegments
    HeapKind <- OneNotResident
    IsUMA = FALSE
    NotificationsDisabled = FALSE
    MaxBudgetInBytes = 1
    EvictSizeInBytes = 1
    MaxPct = 100
    MinPct = 50
    Word = 4
    OsBudgets = {1}
    Reservations = {0}
    Behaviours = {"mixedLists", "unlockInFlight", "destroyAnytime", "noQueue", "outOfMemory", "failures"}
    MaxFence = 1
    MaxLocks = 2
    MaxList = 2
    MaxCount = 2
INVARIANTS LRUWellFormed WaitIsSignaled
PROPERTIES LockedNeverEvicted OpTerminates
