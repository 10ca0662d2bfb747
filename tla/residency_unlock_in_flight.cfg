SPECIFICATION Spec
CONSTANTS
    h1 = h1
    h2 = h2
    h3 = h3
    h4 = h4
    Heaps = {h1, h2, h3}
    NoHeap = NoHeap
    HeapSize <- Sizes
    HeapSegment <- AllLocal
    HeapKind <- AllResident
    IsUMA = TRUE
    NotificationsDisabled = TRUE
    MaxBudgetInBytes = 0
    EvictSizeInBytes = 1
    MaxPct = 100
    MinPct = 50
    Word = 256
    OsBudgets = {3}
    Reservations = {0}
    Behaviours = {"unlockInFlight"}
    MaxFence = 2
    MaxLocks = 1
    MaxList = 2
    MaxCount = 2
INVARIANTS InFlightIsResident
