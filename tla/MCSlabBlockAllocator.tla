------------------------ MODULE MCSlabBlockAllocator ------------------------
(* A slab of five blocks of two bytes.                                     *)
EXTENDS SlabBlockAllocator
=============================================================================
