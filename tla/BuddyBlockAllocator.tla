------------------------ MODULE BuddyBlockAllocator ------------------------
(***************************************************************************)
(* BuddyBlockAllocator.cpp: blocks of 2^k bytes out of a range of          *)
(* 2^MaxOrder bytes, kept as a binary tree.  A block is <<level, index>>:  *)
(* level 0 is the whole range, and <<l, i>> splits into <<l + 1, 2 * i>>   *)
(* and <<l + 1, 2 * i + 1>>.                                               *)
(*                                                                         *)
(* The loops over the levels are written in closed form: TryAllocateBlock  *)
(* splits along the left edge below the block it found, DeallocateBlock    *)
(* merges along the path to the root while the buddy is free.              *)
(***************************************************************************)
EXTENDS Integers, Sequences, SequencesExt

CONSTANT MaxOrder   \* Log2(mMaxBlockSize)

ASSUME BuddyAssumption == MaxOrder \in Nat

VARIABLES
    state,      \* BuddyBlock::mState of the blocks that exist
    freeLists   \* mFreeLists: per level, head first

vars == <<state, freeLists>>

Levels == 0..MaxOrder

Block == UNION {{<<l, i>> : i \in 0..(2^l - 1)} : l \in Levels}

Size(b) == 2^(MaxOrder - b[1])

Offset(b) == b[2] * Size(b)

Buddy(b) == <<b[1], IF b[2] % 2 = 0 THEN b[2] + 1 ELSE b[2] - 1>>

(* The block of level l that contains b, or the leftmost part of b.        *)
AtLevel(b, l) == <<l, IF l <= b[1] THEN b[2] \div 2^(b[1] - l) ELSE b[2] * 2^(l - b[1])>>

InState(s) == {b \in DOMAIN state : state[b] = s}

Init ==
    /\ state = [b \in {<<0, 0>>} |-> "Free"]
    /\ freeLists = [l \in Levels |-> IF l = 0 THEN << <<0, 0>> >> ELSE <<>>]

-----------------------------------------------------------------------------
(* ComputeLevelFromBlockSize of a request of 2^order bytes.                *)
ComputeLevel(order) == MaxOrder - order

(* The head of a level's free list exists and its offset is aligned.       *)
Usable(l, alignment) == freeLists[l] # <<>> /\ Offset(Head(freeLists[l])) % alignment = 0

(* GetNextFreeAlignedBlock: the levels from the request's up to the root   *)
(* that have a usable head; the first one is taken.                        *)
UsableLevels(level, alignment) == {l \in 0..level : Usable(l, alignment)}

GetNextFreeAlignedBlock(level, alignment) == Max(UsableLevels(level, alignment))

(* Mutant: the right half of a split is not inserted.                      *)
InsertFreeBlock_Lost(list, b) == list

(* InsertFreeBlock always inserts at the head.                             *)
InsertFreeBlock(list, b) == <<b>> \o list

(* Mutant: the merged buddy stays in the free list.                        *)
RemoveFreeBlock_Kept(list, b) == list

RemoveFreeBlock(list, b) == RemoveAt(list, CHOOSE i \in DOMAIN list : list[i] = b)

(* Split the block found down to the level of the request and allocate the *)
(* leftmost part.  The right halves stay free.                             *)
TryAllocateBlock(order, alignment) ==
    /\ order <= MaxOrder
    /\ UsableLevels(ComputeLevel(order), alignment) # {}
    /\ LET level == ComputeLevel(order)
           from == GetNextFreeAlignedBlock(level, alignment)
           found == Head(freeLists[from])
           block == AtLevel(found, level)
           split == {AtLevel(found, l) : l \in from..(level - 1)}
           right == {Buddy(AtLevel(found, l)) : l \in (from + 1)..level}
       IN /\ state' = [b \in DOMAIN state \cup split \cup right \cup {block} |->
                         IF b = block THEN "Allocated"
                         ELSE IF b \in split THEN "Split"
                         ELSE IF b \in right THEN "Free"
                         ELSE state[b]]
          /\ freeLists' = [l \in Levels |->
                IF l = from THEN RemoveFreeBlock(freeLists[l], found)
                ELSE IF l \in (from + 1)..level
                THEN InsertFreeBlock(freeLists[l], Buddy(AtLevel(found, l)))
                ELSE freeLists[l]]

BuddyIsFree(b) == Buddy(b) \in DOMAIN state /\ state[Buddy(b)] = "Free"

(* Mutant: a freed block is merged at most once.                           *)
MergeLevels_Once(block) ==
    {l \in Levels : /\ l \in {block[1] - 1, block[1]}
                    /\ l < block[1] => BuddyIsFree(block)}

(* The levels the block can be merged up to: below them every buddy on the *)
(* path is free.                                                           *)
MergeLevels(block) ==
    {l \in 0..block[1] : \A k \in (l + 1)..block[1] : BuddyIsFree(AtLevel(block, k))}

DeallocateBlock(block) ==
    /\ block \in InState("Allocated")
    /\ LET to == Min(MergeLevels(block))
           merged == AtLevel(block, to)
           deleted == UNION {{AtLevel(block, l), Buddy(AtLevel(block, l))} :
                             l \in (to + 1)..block[1]}
       IN /\ state' = [b \in DOMAIN state \ deleted |-> IF b = merged THEN "Free" ELSE state[b]]
          /\ freeLists' = [l \in Levels |->
                IF l = to THEN InsertFreeBlock(freeLists[l], merged)
                ELSE IF l \in (to + 1)..block[1]
                THEN RemoveFreeBlock(freeLists[l], Buddy(AtLevel(block, l)))
                ELSE freeLists[l]]

Next ==
    \/ \E order \in Levels, a \in Levels : TryAllocateBlock(order, 2^a)
    \/ \E block \in InState("Allocated") : DeallocateBlock(block)

Spec == Init /\ [][Next]_vars

-----------------------------------------------------------------------------
TypeOK ==
    /\ DOMAIN state \subseteq Block
    /\ \A b \in DOMAIN state : state[b] \in {"Free", "Split", "Allocated"}
    /\ freeLists \in [Levels -> Seq(DOMAIN state)]

(* The free list of a level holds each free block of that level once and   *)
(* nothing else: RemoveFreeBlock and the head lookups rest on it.          *)
FreeListsExact ==
    \A l \in Levels :
        /\ IsInjective(freeLists[l])
        /\ Range(freeLists[l]) = {b \in InState("Free") : b[1] = l}

(* The blocks form a full binary tree: a block exists exactly when it is   *)
(* the root or its parent is split.                                        *)
FullBinaryTree ==
    \A b \in Block : b \in DOMAIN state <=>
        b = <<0, 0>> \/ (b[1] > 0 /\ AtLevel(b, b[1] - 1) \in InState("Split"))

(* DeallocateBlock merges as far as it can, so two buddies are never both  *)
(* free, and once everything is freed the whole range is one block again.  *)
FullyMerged ==
    /\ \A b \in InState("Free") : b[1] > 0 => Buddy(b) \notin InState("Free")
    /\ InState("Allocated") = {} => state = [b \in {<<0, 0>>} |-> "Free"]

(* What every mix of splits and merges preserves: a full tree whose free   *)
(* blocks are merged and listed exactly.                                   *)
TreeWellFormed == FreeListsExact /\ FullBinaryTree /\ FullyMerged

(* Some free block could hold 2^order bytes at an aligned offset.          *)
Fits(order, alignment) ==
    \E b \in InState("Free") : b[1] <= ComputeLevel(order) /\ Offset(b) % alignment = 0

(* "Error when no free blocks exist (allocator is full)": with an          *)
(* alignment no larger than the size, a request fails only if no free      *)
(* block is large enough.                                                  *)
FailsOnlyWhenFull ==
    \A order \in Levels, a \in Levels : a <= order /\ Fits(order, 2^a) =>
        UsableLevels(ComputeLevel(order), 2^a) # {}

(* The blocks in use as byte ranges, for the interface.                    *)
Live == {[offset |-> Offset(b), size |-> Size(b)] : b \in InState("Allocated")}

Interface == INSTANCE BlockAllocator WITH MemorySize <- 2^MaxOrder, live <- Live

(* The buddy system is a BlockAllocator: blocks in use never overlap.      *)
IsBlockAllocator == Interface!Spec
=============================================================================
