SPECIFICATION Spec
CONSTANTS
    BlockSize = 2
    MinSlabSize = 4
    MaxSlabSize = 16
    FragmentationPermille = 125
    GrowthPct = 125
    AllowSlabPrefetch = TRUE
    PrefetchMinBlockCount = 4
    PrefetchMemorySizeThreshold = 16
    RequestSizes = {1, 2}
    Availables = {6, 40}
    Failures = {"prefetch"}
    MaxBlocks = 7
    MaxPrefetches = 2
    MaxListSize = 3
    MaxSlabs = 3
INVARIANTS NeverFreesNull
