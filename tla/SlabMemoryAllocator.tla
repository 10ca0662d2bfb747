------------------------ MODULE SlabMemoryAllocator ------------------------
(***************************************************************************)
(* One entry of SlabCacheAllocator and its SlabMemoryAllocator             *)
(* (SlabMemoryAllocator.cpp): blocks of one size, sub-allocated from slabs *)
(* whose memory comes from the next allocator of the chain, with the next  *)
(* slab's memory pre-fetched by a worker thread.                           *)
(*                                                                         *)
(* The slab caches hold their slabs in StableLists: a list is a sequence   *)
(* of slab numbers in which Hole stands for an erased item.  A slab is its *)
(* position in SlabCache::Slabs, which never changes.  The blocks of a     *)
(* slab are SlabBlockAllocator's and only counted here.                    *)
(***************************************************************************)
EXTENDS Integers, Sequences, FiniteSets, FiniteSetsExt

CONSTANTS
    BlockSize,                   \* mBlockSize
    MinSlabSize, MaxSlabSize,    \* mMinSlabSize, mMaxSlabSize
    FragmentationPermille,       \* mSlabFragmentationLimit, in 1/1000
    GrowthPct,                   \* mSlabGrowthFactor, in percent
    AllowSlabPrefetch,           \* mAllowSlabPrefetch
    PrefetchMinBlockCount,       \* kSlabPrefetchMinBlockCount
    PrefetchMemorySizeThreshold, \* kSlabPrefetchMemorySizeThreshold
    RequestSizes, Availables,    \* request.SizeInBytes, request.AvailableForAllocation
    Failures,                    \* which calls of the next allocator may fail
    MaxBlocks,                   \* bound: references to the entry
    MaxPrefetches,               \* bound: pre-fetches resolved
    MaxSlabs,                    \* bound: slabs of a cache
    MaxListSize                  \* bound: size of a StableList, holes included

(* Bound: the slab sizes computed are at most 2^16.                        *)
PowersOfTwo == {1, 2, 4, 8, 16, 32, 64, 128, 256, 512, 1024, 2048, 4096, 8192, 16384, 32768,
                65536}

(* The sizes of the slab caches.                                           *)
Sizes == {s \in PowersOfTwo : MinSlabSize <= s /\ s <= MaxSlabSize}

(* Larger than every slab size.                                            *)
kInvalidSize == 1000 * MaxSlabSize

AlignTo(n, alignment) == ((n + alignment - 1) \div alignment) * alignment

(* The request fits in a slab of the size, and what it wastes of its block *)
(* is within the limit.                                                    *)
Fits(requestSize, size) ==
    /\ requestSize <= size
    /\ 1000 * (BlockSize - requestSize) <= FragmentationPermille * size

Grown(size) == (size * GrowthPct) \div 100

ASSUME SlabMemoryAssumption ==
    /\ {BlockSize, MinSlabSize, MaxSlabSize} \subseteq Nat \ {0}
    /\ BlockSize <= MaxSlabSize
    /\ {MinSlabSize, MaxSlabSize} \subseteq Sizes
    /\ GrowthPct \in Nat /\ GrowthPct >= 100
    /\ FragmentationPermille \in 1..999
    /\ AllowSlabPrefetch \in BOOLEAN
    /\ RequestSizes \subseteq 1..BlockSize
    /\ Availables \subseteq Nat
    /\ Failures \subseteq {"create", "prefetch"}
    /\ {PrefetchMinBlockCount, PrefetchMemorySizeThreshold, MaxBlocks, MaxPrefetches,
        MaxSlabs, MaxListSize} \subseteq Nat

(* SlabCacheAllocator makes the size of the block from that of the request *)
(* and its alignment, a power of two.                                      *)
ASSUME RequestAssumption ==
    \A r \in RequestSizes : \E a \in PowersOfTwo : BlockSize = AlignTo(r, a)

(* The bound on the sizes: doubling ends within it.                        *)
ASSUME SizeBoundAssumption ==
    \A r \in RequestSizes : \A base \in Sizes \cup {Grown(s) : s \in Sizes} :
        \E p \in PowersOfTwo : Fits(r, base * p) /\ base * p <= 65536

VARIABLES
    freeList, fullList,  \* [Sizes -> StableList]: SlabCache::FreeList, FullList
    slabs,               \* [Sizes -> Seq(Slab)]: SlabCache::Slabs
    lastUsedSlabSize,    \* mLastUsedSlabSize
    nextSlab,            \* mNextSlabAllocationEvent with its task's result
    hits, misses,        \* PrefetchedMemoryMissesEliminated, PrefetchedMemoryMisses
    refs, kept,          \* the entry's RefCount, and whether it was created to be kept alive
    outstanding,         \* external: [Sizes -> memory obtained and not given back]
    nullFreed,           \* whether DeallocateMemory was called with a null pointer
    steady               \* ghost: only full-budget requests so far, and all succeeded

slabVars == <<freeList, fullList, slabs, lastUsedSlabSize>>
vars == <<slabVars, nextSlab, hits, misses, refs, kept, outstanding, nullFreed, steady>>

---------------------------------------------------------------------------
(* StableList.                                                             *)
Hole == 0

Occupied(list) == {i \in DOMAIN list : list[i] # Hole}

(* Mutant: erasing in the middle shifts the items behind.                  *)
Erase_Shifts(list, i) == SubSeq(list, 1, i - 1) \o SubSeq(list, i + 1, Len(list))

(* erase leaves a hole; shrink_to_fit drops the holes at the end.          *)
Erase(list, i) ==
    LET holed == [list EXCEPT ![i] = Hole]
    IN  IF Occupied(holed) = {} THEN <<>> ELSE SubSeq(holed, 1, Max(Occupied(holed)))

Back(list) == list[Len(list)]

---------------------------------------------------------------------------
(* Slabs.                                                                  *)
NewSlab(index) == [used |-> 0, memory |-> FALSE, index |-> index]

BlockCount(size) == size \div BlockSize

IsFull(size, slab) == slab.used = BlockCount(size)

None == [size |-> 0, state |-> "none"]

InitSlabs ==
    /\ freeList = [s \in Sizes |-> <<>>]
    /\ fullList = [s \in Sizes |-> <<>>]
    /\ slabs = [s \in Sizes |-> <<>>]
    /\ lastUsedSlabSize = 0

Init ==
    /\ InitSlabs
    /\ nextSlab = None
    /\ hits = 0 /\ misses = 0
    /\ refs = 0 /\ kept = FALSE
    /\ outstanding = [s \in Sizes |-> 0]
    /\ nullFreed = FALSE
    /\ steady = TRUE

(* Larger slabs first: the last free slab of a cache, if it has memory.    *)
FindNextFreeSlabOfSize(free, table, slabSize) ==
    LET found == {s \in Sizes : /\ free[s] # <<>>
                                /\ table[s][Back(free[s])].memory
                                /\ s >= slabSize}
    IN  IF found = {} THEN kInvalidSize ELSE Max(found)

NextPowerOfTwo(n) ==
    CHOOSE p \in PowersOfTwo : n <= p /\ \A q \in PowersOfTwo : q < p => q < n

(* What the base size is multiplied with until the request fits and the    *)
(* fragmentation is within the limit.                                      *)
Multiple(requestSize, baseSlabSize) ==
    CHOOSE p \in PowersOfTwo :
        /\ Fits(requestSize, baseSlabSize * p)
        /\ \A q \in PowersOfTwo : q < p => ~Fits(requestSize, baseSlabSize * q)

(* A size above what is available is replaced by that of a free slab.      *)
ComputeSlabSize(free, table, requestSize, baseSlabSize, available) ==
    LET slabSize == NextPowerOfTwo(baseSlabSize * Multiple(requestSize, baseSlabSize))
    IN  IF available < slabSize THEN FindNextFreeSlabOfSize(free, table, requestSize)
        ELSE slabSize

(* A larger slab needs the smaller ones it stands for to be full.          *)
LimitGrowth(fullCount, size, newSize) ==
    LET capped == IF newSize > MaxSlabSize THEN size ELSE newSize
    IN  IF fullCount < capped \div size THEN size ELSE capped

(* The cache to allocate from and whether a new slab is pushed to it; NoSlab *)
(* if the request is refused.                                              *)
NoSlab == [size |-> kInvalidSize, new |-> FALSE]

ChooseSlab(requestSize, available) ==
    LET base == IF lastUsedSlabSize > MinSlabSize THEN lastUsedSlabSize ELSE MinSlabSize
        size == ComputeSlabSize(freeList, slabs, requestSize, base, available)
        grown == ComputeSlabSize(freeList, slabs, requestSize, Grown(size), available)
        newSize == LimitGrowth(Cardinality(Occupied(fullList[size])), size, grown)
    IN  IF size > MaxSlabSize THEN NoSlab
        ELSE IF freeList[size] # <<>> THEN [size |-> size, new |-> FALSE]
        ELSE IF lastUsedSlabSize = 0 THEN [size |-> size, new |-> TRUE]
        ELSE IF grown = kInvalidSize THEN NoSlab
        ELSE [size |-> IF newSize > size THEN newSize ELSE size, new |-> TRUE]

(* 2 * hits >= hits + misses: coverage of at least one half.               *)
IsPrefetchCoverageBelowThreshold(h, m) == h >= m

---------------------------------------------------------------------------
(* What the callback of TrySubAllocateMemory may do for a slab of size s:  *)
(* use the slab's memory, or the pre-fetched memory if its size is right,  *)
(* or give that back and create memory.                                    *)

(* Mutant: pre-fetched memory of the wrong size is not given back.         *)
GiveBack_Never(out) == out

GiveBack(out) ==
    IF nextSlab.state = "ready" THEN [out EXCEPT ![nextSlab.size] = @ - 1] ELSE out

GetOrCreateMemory(s, hasMemory) ==
    LET keepNext == [ok |-> TRUE, next |-> nextSlab, hit |-> 0, miss |-> 0, out |-> outstanding]
        missed == [keepNext EXCEPT !.next = None,
                                   !.miss = IF nextSlab = None THEN 0 ELSE 1,
                                   !.out = GiveBack(@)]
    IN  IF hasMemory THEN {keepNext}
        ELSE IF nextSlab = [size |-> s, state |-> "ready"]
        THEN {[keepNext EXCEPT !.next = None, !.hit = 1]}
        ELSE {[missed EXCEPT !.out[s] = @ + 1]}
             \cup IF "create" \in Failures THEN {[missed EXCEPT !.ok = FALSE]} ELSE {}

(* Mutant: the current slab is not counted.                                *)
SoonFull_FullOnly(s) == Cardinality(Occupied(fullList[s]))

(* "accounting that the current slab will soon become full"                *)
SoonFull(s) == Cardinality(Occupied(fullList[s])) + 1

(* The size of the memory to pre-fetch after a block of slab i was used,   *)
(* or 0 if nothing is to be pre-fetched.                                   *)
PrefetchSize(o, table, free, s, i, requestSize, available, always) ==
    LET slab == table[s][i]
        worth == /\ IsPrefetchCoverageBelowThreshold(hits + o.hit, misses + o.miss)
                 /\ 2 * slab.used >= BlockCount(s)
                 /\ BlockCount(s) >= PrefetchMinBlockCount
        grown == ComputeSlabSize(free, table, requestSize, Grown(s), available)
        size == LimitGrowth(SoonFull(s), s, grown)
    IN  IF /\ AllowSlabPrefetch /\ o.next = None
           /\ always \/ worth
           /\ size <= PrefetchMemorySizeThreshold
        THEN size ELSE 0

(* MoveSlabInCache from the free list to the full list.                    *)
MoveToFull(free, table, s, i) ==
    IF IsFull(s, table[s][i])
    THEN /\ freeList' = [free EXCEPT ![s] = Erase(@, table[s][i].index)]
         /\ fullList' = [fullList EXCEPT ![s] = Append(@, i)]
         /\ slabs' = [table EXCEPT ![s][i].index = Len(fullList[s]) + 1]
    ELSE freeList' = free /\ fullList' = fullList /\ slabs' = table

(* A slab with one block more, and memory.                                 *)
WithBlock(slab) == [slab EXCEPT !.used = @ + 1, !.memory = TRUE]

UsedBlocks(cache) == MapThenSumSet(LAMBDA i : cache[i].used, DOMAIN cache)

BlocksInUse(table) == MapThenSumSet(LAMBDA s : UsedBlocks(table[s]), Sizes)

(* SlabMemoryAllocator::TryAllocateMemory for an entry with n references,  *)
(* to which a block in use adds one.  A new entry without a reference is   *)
(* dropped again when the request fails.                                   *)
TryAllocateFromSlab(requestSize, available, always, n) ==
    LET choice == ChooseSlab(requestSize, available)
        s == choice.size
        table == IF choice.new THEN [slabs EXCEPT ![s] = Append(@, NewSlab(Len(freeList[s]) + 1))]
                 ELSE slabs
        free == IF choice.new THEN [freeList EXCEPT ![s] = Append(@, Len(table[s]))] ELSE freeList
        i == Back(free[s])
        used == [table EXCEPT ![s][i] = WithBlock(@)]
    IN
    \/ /\ choice = NoSlab
       /\ refs' = n
       /\ UNCHANGED <<slabVars, nextSlab, hits, misses, outstanding, nullFreed>>
    \/ /\ choice # NoSlab
       /\ Len(fullList[s]) < MaxListSize
       /\ choice.new => Len(slabs[s]) < MaxSlabs /\ Len(freeList[s]) < MaxListSize
       /\ ~table[s][i].memory => nextSlab.state # "pending"    \* Wait
       /\ nullFreed' = (nullFreed \/ (~table[s][i].memory /\ nextSlab.state = "failed"))
       /\ \E o \in GetOrCreateMemory(s, table[s][i].memory) :
             LET ahead == PrefetchSize(o, used, free, s, i, requestSize, available, always)
             IN
             /\ hits' = hits + o.hit /\ misses' = misses + o.miss /\ outstanding' = o.out
             /\ \/ /\ o.ok
                   /\ refs' = n + 1
                   /\ lastUsedSlabSize' = s
                   /\ nextSlab' = IF ahead > 0 THEN [size |-> ahead, state |-> "pending"]
                                  ELSE o.next
                   /\ MoveToFull(free, used, s, i)
                \/ /\ ~o.ok
                   /\ refs' = n
                   /\ nextSlab' = o.next
                   /\ UNCHANGED <<fullList, lastUsedSlabSize>>
                   /\ IF n = 0 THEN UNCHANGED <<freeList, slabs>>
                      ELSE freeList' = free /\ slabs' = table

(* MemoryCache::GetOrCreate: the references of the entry, which is created *)
(* with one if it is to be kept alive.                                     *)
GetOrCreate(keepAlive) == IF refs = 0 /\ keepAlive THEN 1 ELSE refs

(* SlabCacheAllocator::TryAllocateMemory on the entry of this block size.  *)
TryAllocateMemory(requestSize, available, always, keepAlive) ==
    /\ refs < MaxBlocks /\ hits + misses < MaxPrefetches
    /\ kept' = (kept \/ (refs = 0 /\ keepAlive))
    /\ TryAllocateFromSlab(requestSize, available, always, GetOrCreate(keepAlive))
    /\ steady' = (/\ steady /\ available >= 2 * MaxSlabSize /\ requestSize = BlockSize
                  /\ refs' > GetOrCreate(keepAlive))

(* ~SlabMemoryAllocator, when the entry's last reference is gone.          *)
Destroy(out) ==
    /\ nextSlab.state # "pending"    \* Wait
    /\ nullFreed' = (nullFreed \/ nextSlab.state = "failed")
    /\ outstanding' = GiveBack(out)
    /\ freeList' = [t \in Sizes |-> <<>>]
    /\ fullList' = [t \in Sizes |-> <<>>]
    /\ slabs' = [t \in Sizes |-> <<>>]
    /\ lastUsedSlabSize' = 0
    /\ nextSlab' = None
    /\ hits' = 0 /\ misses' = 0

(* Mutant: the memory of an empty slab is kept.                            *)
ReleaseIfEmpty_Never(slab) == slab

(* The slab gives its memory back with its last block.                     *)
ReleaseIfEmpty(slab) == IF slab.used = 0 THEN [slab EXCEPT !.memory = FALSE] ELSE slab

(* SlabMemoryAllocator::DeallocateMemory of a block of slab i of size s:   *)
(* the slab, and the memory still held.                                    *)
Freed(s, i) ==
    LET slab == slabs[s][i]
        moved == [slab EXCEPT !.used = @ - 1,
                              !.index = IF IsFull(s, slab) THEN Len(freeList[s]) + 1 ELSE @]
        left == ReleaseIfEmpty(moved)
    IN  [slab |-> left,
         out |-> IF left.memory THEN outstanding ELSE [outstanding EXCEPT ![s] = @ - 1]]

(* A full slab moves to the free list.                                     *)
MoveToFree(s, i) ==
    LET wasFull == IsFull(s, slabs[s][i])
    IN
    /\ freeList' = IF wasFull THEN [freeList EXCEPT ![s] = Append(@, i)] ELSE freeList
    /\ fullList' = IF wasFull THEN [fullList EXCEPT ![s] = Erase(@, slabs[s][i].index)]
                   ELSE fullList
    /\ slabs' = [slabs EXCEPT ![s][i] = Freed(s, i).slab]

(* SlabCacheAllocator::DeallocateMemory: the last reference destroys the   *)
(* entry and its slabs.                                                    *)
DeallocateMemory(s, i) ==
    /\ slabs[s][i].used > 0
    /\ Len(freeList[s]) < MaxListSize
    /\ refs' = refs - 1
    /\ steady' = FALSE
    /\ UNCHANGED kept
    /\ IF refs = 1 THEN Destroy(Freed(s, i).out)
       ELSE /\ MoveToFree(s, i)
            /\ outstanding' = Freed(s, i).out
            /\ UNCHANGED <<lastUsedSlabSize, nextSlab, hits, misses, nullFreed>>

(* AllocateMemoryTask on the worker thread.                                *)
AllocateMemoryTask ==
    /\ nextSlab.state = "pending"
    /\ \/ /\ nextSlab' = [nextSlab EXCEPT !.state = "ready"]
          /\ outstanding' = [outstanding EXCEPT ![nextSlab.size] = @ + 1]
          /\ UNCHANGED steady
       \/ /\ "prefetch" \in Failures
          /\ nextSlab' = [nextSlab EXCEPT !.state = "failed"]
          /\ steady' = FALSE
          /\ UNCHANGED outstanding
    /\ UNCHANGED <<slabVars, hits, misses, refs, kept, nullFreed>>

(* ~SlabCacheAllocator after the client freed every block: clear drops the *)
(* reference that kept the entry alive.                                    *)
Clear ==
    /\ kept /\ refs = 1
    /\ refs' = 0 /\ kept' = FALSE
    /\ steady' = FALSE
    /\ Destroy(outstanding)

Next ==
    \/ \E size \in RequestSizes, available \in Availables, always \in BOOLEAN,
          keepAlive \in IF refs = 0 THEN BOOLEAN ELSE {FALSE} :
          TryAllocateMemory(size, available, always, keepAlive)
    \/ \E s \in Sizes : \E i \in DOMAIN slabs[s] : DeallocateMemory(s, i)
    \/ AllocateMemoryTask
    \/ Clear

Spec == Init /\ [][Next]_vars

---------------------------------------------------------------------------
StableList == Seq(Nat)

TypeOK ==
    /\ freeList \in [Sizes -> StableList] /\ fullList \in [Sizes -> StableList]
    /\ slabs \in [Sizes -> Seq([used : Nat, memory : BOOLEAN, index : Nat \ {0}])]
    /\ lastUsedSlabSize \in Sizes \cup {0}
    /\ nextSlab \in [size : Sizes \cup {0}, state : {"none", "pending", "ready", "failed"}]
    /\ {hits, misses, refs} \subseteq Nat
    /\ {kept, nullFreed, steady} \subseteq BOOLEAN
    /\ outstanding \in [Sizes -> Nat]

(* MoveSlabInCache and erase work on the list and the position they mean:  *)
(* every slab is found at its IndexInList, in the full list exactly when   *)
(* all its blocks are used and in the free list otherwise.                 *)
SlabIsWhereItSays ==
    \A s \in Sizes : \A i \in DOMAIN slabs[s] :
        LET home == IF IsFull(s, slabs[s][i]) THEN fullList[s] ELSE freeList[s]
            other == IF IsFull(s, slabs[s][i]) THEN freeList[s] ELSE fullList[s]
        IN /\ slabs[s][i].index \in DOMAIN home /\ home[slabs[s][i].index] = i
           /\ \A k \in DOMAIN home : home[k] = i => k = slabs[s][i].index
           /\ \A k \in DOMAIN other : other[k] # i

(* The memory taken from the next allocator is that of the slabs with      *)
(* blocks in use and of the pre-fetched slab: none is leaked, none given   *)
(* back while a block lives in it, none given back twice.                  *)
MemoryAccountedFor ==
    /\ \A s \in Sizes :
          outstanding[s] =
             Cardinality({i \in DOMAIN slabs[s] : slabs[s][i].used > 0})
             + IF nextSlab.state = "ready" /\ nextSlab.size = s THEN 1 ELSE 0
    /\ \A s \in Sizes : \A i \in DOMAIN slabs[s] : slabs[s][i].memory = (slabs[s][i].used > 0)

(* The entry of a block size lives exactly as long as it has blocks in use *)
(* or is kept; without it no memory is held.                               *)
EntryLivesWhileUsed ==
    /\ refs = BlocksInUse(slabs) + IF kept THEN 1 ELSE 0
    /\ refs = 0 => nextSlab = None /\ \A s \in Sizes : outstanding[s] = 0

(* "Otherwise, the pre-fetch will always miss the cache": as long as the   *)
(* client only allocates, memory is available and every request succeeds,  *)
(* a pre-fetched slab has the size the next slab needs.  (A request that   *)
(* fails leaves its slab in the free list, empty and perhaps smaller.)     *)
PrefetchPaysOff == steady => misses = 0

(* "Must be non-null": DeallocateMemory is never called with a null        *)
(* pointer.                                                                *)
NeverFreesNull == ~nullFreed
=============================================================================
