SPECIFICATION Spec
CONSTANTS
    h1 = h1
    h2 = h2
    h3 = h3
    h4 = h4
    Heaps = {h1, h2, h3}
    NoHeap = NoHeap
    HeapSize <- Sizes
    HeapSegment <- TwoSegments
    HeapKind <- OneUnknown
    IsUMA = FALSE
    NotificationsDisabled = FALSE
    MaxBudgetInBytes = 0
    EvictSizeInBytes = 1
    MaxPct = 100
    MinPct = 50
    Word = 256
    OsBudgets = {1, 3}
    Reservations = {0}
    Behaviours = {}
    MaxFence = 1
    MaxLocks = 2
    MaxList = 2
    MaxCount = 2
INVARIANTS InFlightIsResident StatsExact
PROPERTIES LockedNeverEvicted
