SPECIFICATION Spec
CONSTANTS
    WordBits = 30
    Adapters <- CoherentUMA
    AllocatorDescs <- MCAllocatorDescs
    Resources <- MCResources
INVARIANT WithinSharesState
