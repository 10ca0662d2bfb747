SPECIFICATION Spec
CONSTANTS
    BlockSize = 2
    MinSlabSize = 4
    MaxSlabSize = 8
    FragmentationPermille = 125
    GrowthPct = 125
    AllowSlabPrefetch = TRUE
    PrefetchMinBlockCount = 4
    PrefetchMemorySizeThreshold = 8
    RequestSizes = {1, 2}
    Availables = {6, 16}
    Failures = {"create"}
    MaxBlocks = 7
    MaxPrefetches = 2
    MaxListSize = 4
    MaxSlabs = 3
INVARIANTS SlabIsWhereItSays MemoryAccountedFor EntryLivesWhileUsed PrefetchPaysOff
