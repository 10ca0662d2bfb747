SPECIFICATION Spec
CONSTANTS
    BlockCount = 5
    BlockSize = 2
INVARIANTS BlocksAccountedFor NullOnlyWhenFull
PROPERTIES IsBlockAllocator
