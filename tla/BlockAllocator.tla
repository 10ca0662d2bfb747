--------------------------- MODULE BlockAllocator ---------------------------
(***************************************************************************)
(* What a BlockAllocator promises its users (BlockAllocator.h): it hands   *)
(* out sub-ranges [offset, offset + size) of a range of MemorySize bytes,  *)
(* and no byte is in two blocks that are in use at the same time.          *)
(***************************************************************************)
EXTENDS Integers

CONSTANT MemorySize

VARIABLE live   \* the blocks in use: records [offset, size]

Block == [offset : 0..(MemorySize - 1), size : 1..MemorySize]

Disjoint(b, c) == b.offset + b.size <= c.offset \/ c.offset + c.size <= b.offset

Init == live = {}

TryAllocateBlock(b) ==
    /\ b.offset + b.size <= MemorySize
    /\ \A c \in live : Disjoint(b, c)
    /\ live' = live \cup {b}

DeallocateBlock(b) ==
    /\ b \in live
    /\ live' = live \ {b}

Next == \E b \in Block : TryAllocateBlock(b) \/ DeallocateBlock(b)

Spec == Init /\ [][Next]_live
=============================================================================
