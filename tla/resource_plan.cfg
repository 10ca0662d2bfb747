SPECIFICATION Spec
CONSTANTS
    WordBits = 30
    Adapters <- Discrete
    AllocatorDescs <- MCAllocatorDescs
    Resources <- MCResources
INVARIANTS HeapSuitsResource SmallAlignmentFits
