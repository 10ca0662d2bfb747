------------------------- MODULE SlabBlockAllocator -------------------------
(***************************************************************************)
(* SlabBlockAllocator.cpp: a slab of BlockCount blocks of BlockSize bytes. *)
(* Blocks are created lazily: the free list holds the blocks that came     *)
(* back, and a fresh block is created only when it runs empty.  A block is *)
(* named by its index; Offset is what SlabBlock::Offset holds.             *)
(***************************************************************************)
EXTENDS Integers, Sequences

CONSTANTS BlockCount, BlockSize

ASSUME SlabAssumption == BlockCount \in Nat \ {0} /\ BlockSize \in Nat \ {0}

VARIABLES
    freeList,            \* mFreeList, head first
    nextFreeBlockIndex,  \* mNextFreeBlockIndex
    allocated            \* the blocks callers hold

vars == <<freeList, nextFreeBlockIndex, allocated>>

Blocks == 0..(BlockCount - 1)

Offset(block) == block * BlockSize

Init ==
    /\ freeList = <<0>>
    /\ nextFreeBlockIndex = 0
    /\ allocated = {}

Listed(list) == {list[i] : i \in DOMAIN list}

(* Mutants: one block too many, and one too few.                           *)
NotFull_OffByOne == nextFreeBlockIndex < BlockCount
NotFull_LosesLast == nextFreeBlockIndex + 2 < BlockCount

(* "if not full"                                                           *)
NotFull == nextFreeBlockIndex + 1 < BlockCount

(* Pop the head, and push a fresh block if that was the last one.  With an *)
(* empty list the caller gets no block.  The requests the code refuses     *)
(* before it touches the list leave the state unchanged.                   *)
TryAllocateBlock(requestSize, alignment) ==
    /\ requestSize <= BlockSize
    /\ BlockSize % alignment = 0
    /\ LET rest == IF freeList = <<>> THEN <<>> ELSE Tail(freeList)
           grow == rest = <<>> /\ NotFull
       IN /\ freeList' = IF grow THEN <<nextFreeBlockIndex + 1>> ELSE rest
          /\ nextFreeBlockIndex' = IF grow THEN nextFreeBlockIndex + 1 ELSE nextFreeBlockIndex
    /\ allocated' = IF freeList = <<>> THEN allocated ELSE allocated \cup {Head(freeList)}

(* Mutant: the old head is not linked behind the block.                    *)
DeallocateBlock_Unlinked(block) ==
    /\ block \in allocated
    /\ freeList' = <<block>>
    /\ allocated' = allocated \ {block}
    /\ UNCHANGED nextFreeBlockIndex

DeallocateBlock(block) ==
    /\ block \in allocated
    /\ freeList' = <<block>> \o freeList
    /\ allocated' = allocated \ {block}
    /\ UNCHANGED nextFreeBlockIndex

Next ==
    \/ \E requestSize, alignment \in 1..BlockSize : TryAllocateBlock(requestSize, alignment)
    \/ \E block \in allocated : DeallocateBlock(block)

Spec == Init /\ [][Next]_vars

-----------------------------------------------------------------------------
TypeOK ==
    /\ freeList \in Seq(Blocks)
    /\ nextFreeBlockIndex \in Blocks
    /\ allocated \in SUBSET Blocks

(* A block is either with one caller or once in the free list, and these   *)
(* are all the blocks created so far: nothing is handed out twice, and no  *)
(* block is lost however the calls are mixed.                              *)
BlocksAccountedFor ==
    /\ \A i, j \in DOMAIN freeList : freeList[i] = freeList[j] => i = j
    /\ Listed(freeList) \cap allocated = {}
    /\ Listed(freeList) \cup allocated = 0..nextFreeBlockIndex

(* "And push new block at HEAD if not full": TryAllocateBlock returns      *)
(* nullptr only when every block of the slab is in use.                    *)
NullOnlyWhenFull == freeList = <<>> => allocated = Blocks

(* The inductive invariant: a free list is empty only once no fresh block  *)
(* is left to create.                                                      *)
IInv == TypeOK /\ BlocksAccountedFor /\ (freeList = <<>> => ~NotFull)

(* The blocks in use as byte ranges, for the interface.                    *)
Live == {[offset |-> Offset(b), size |-> BlockSize] : b \in allocated}

Interface == INSTANCE BlockAllocator WITH MemorySize <- BlockCount * BlockSize, live <- Live

(* The slab is a BlockAllocator: its blocks lie in the slab and never      *)
(* overlap.                                                                *)
IsBlockAllocator == Interface!Spec
=============================================================================
