----------------------- MODULE MCSlabMemoryAllocator ------------------------
(* Blocks of two bytes in slabs of 2 or 4 blocks.                          *)
EXTENDS SlabMemoryAllocator
=============================================================================
