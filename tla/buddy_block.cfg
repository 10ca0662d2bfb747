SPECIFICATION Spec
CONSTANTS
    MaxOrder = 3
INVARIANTS TreeWellFormed FailsOnlyWhenFull
PROPERTIES IsBlockAllocator
