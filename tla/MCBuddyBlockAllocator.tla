----------------------- MODULE MCBuddyBlockAllocator ------------------------
(* A range of eight bytes: four levels of blocks.                          *)
EXTENDS BuddyBlockAllocator
=============================================================================
