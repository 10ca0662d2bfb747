SPECIFICATION Spec
CONSTANTS
    h1 = h1
    h2 = h2
    h3 = h3
    h4 = h4
    Heaps = {h1, h2, h3}
    NoHeap = NoHeap
    HeapSize <- Sizes
    HeapSegment <- AllLocal
    HeapKind <- AllResident
    IsUMA = TRUE
    NotificationsDisabled = TRUE
    MaxBudgetInBytes = 0
    EvictSizeInBytes = 1
    MaxPct = 100
    MinPct = 70
    Word = 256
    OsBudgets = {3}
    Reservations = {0, 2}
    Behaviours = {}
    MaxFence = 2
    MaxLocks = 1
    MaxList = 2
    MaxCount = 2
INVARIANTS InFlightIsResident RefcountInSync LockedIsResident StatsExact ThrashOnlyWhenAllUsed PagedInWithinBudget
