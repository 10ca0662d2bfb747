---------------------------- MODULE MemoryChain ----------------------------
(***************************************************************************)
(* A chain of memory allocators (gpgmm/common): ConditionalMemoryAllocator *)
(* sends a request of up to ConditionalSize bytes to the "sub" chain,      *)
(*     BuddyMemoryAllocator -> pool -> heap,                               *)
(* and a larger one to the "dedicated" chain,                              *)
(*     DedicatedMemoryAllocator -> pool -> heap.                           *)
(* A pool is a PooledMemoryAllocator ("fixed") or a                        *)
(* SegmentedMemoryAllocator ("segmented"); the heap creates the memory     *)
(* (ResourceHeapAllocator).                                                *)
(*                                                                         *)
(* A fixed pool is a list with one segment that is never added to.  The    *)
(* blocks of the buddy system are BuddyBlockAllocator's, composed here:    *)
(* state and freeLists are its variables, and 2^MaxOrder is the systemSize *)
(* of the BuddyMemoryAllocator.  Each allocator takes its mutex and then   *)
(* calls the next one, so a chain does one call at a time; op is the       *)
(* sub-allocation that has its block and not yet its memory.  The          *)
(* exception is ReleaseMemory of a fixed pool, which takes no mutex: the   *)
(* model orders it with the other calls, as a caller has to.               *)
(***************************************************************************)
EXTENDS BuddyBlockAllocator, FiniteSets

CONSTANTS
    MemoryOrder,       \* Log2(mMemorySize): the memory blocks are cut from
    MemoryAlignment,   \* mMemoryAlignment of every allocator
    ConditionalSize,   \* mConditionalSize
    FixedSize,         \* mMemorySize of a fixed pool of the dedicated chain
    PoolAlgorithm,     \* [Chains -> {"fixed", "segmented"}]
    Requests,          \* [size, alignment, never]: requests of clients
    Releases,          \* bytesToRelease of ReleaseMemory
    Word,              \* 2^w for the unsigned integers of the code
    MaxMemory          \* bound: memory objects that exist at a time

Chains == {"sub", "dedicated"}

MemorySize == 2^MemoryOrder

(* Caching, pre-fetch and the memory available matter to slabs only.       *)
MemoryAllocationRequest == [size : Nat \ {0}, alignment : Nat \ {0}, never : BOOLEAN]

ASSUME MemoryChainAssumption ==
    /\ {MemoryOrder, ConditionalSize, FixedSize, Word, MaxMemory} \subseteq Nat
    /\ MemoryOrder <= MaxOrder
    /\ MemoryAlignment \in Nat \ {0} /\ MemorySize % MemoryAlignment = 0
    /\ MemorySize + MemoryAlignment < Word
    /\ PoolAlgorithm \in [Chains -> {"fixed", "segmented"}]
    /\ Requests \subseteq MemoryAllocationRequest
    /\ Releases \subseteq 0..(Word - 1)

VARIABLES
    usedPool,          \* mUsedPool: the memory of each index, NoMemory if invalid
    segments,          \* [Chains -> Seq([size, pool])]: mFreeSegments, or mPool
    memory,            \* the memory objects: [size, alignment, refs, segment]
    subs, dedicated,   \* the clients' allocations: block -> size, memory -> size
    stats,             \* mStats of each allocator
    op                 \* a sub-allocation in progress

chainVars == <<state, freeLists, usedPool, segments, memory, subs, dedicated, stats, op>>

MemoryIds == 1..MaxMemory
NoMemory == 0
Absent == [size |-> 0, alignment |-> 0, refs |-> 0, segment |-> 0]
Idle == [pc |-> "idle"]

---------------------------------------------------------------------------
(* Requests.                                                               *)
(* Mutant: rounds down.                                                    *)
AlignTo_Down(n, alignment) == (n \div alignment) * alignment

AlignTo(n, alignment) == ((n + alignment - 1) \div alignment) * alignment

Order(n) == CHOOSE k \in 0..MaxOrder + 1 : n <= 2^k /\ (k = 0 \/ 2^(k - 1) < n)

(* kInvalidSize: an allocator of any size.                                 *)
kInvalidSize == Word - 1

(* ValidateRequest of an allocator whose memory size is memorySize.        *)
ValidateRequest(request, memorySize) ==
    /\ request.size <= Word - 1 - (request.alignment - 1)
    /\ memorySize # kInvalidSize => AlignTo(request.size, request.alignment) <= memorySize
    /\ MemoryAlignment > 1 => MemoryAlignment % request.alignment = 0

(* The request with which the buddy system asks its pool for memory.       *)
MemoryRequest(request) == [request EXCEPT !.size = MemorySize, !.alignment = MemoryAlignment]

---------------------------------------------------------------------------
(* Memory pools.  A pool is a sequence of memory, front first.             *)
SizeOf(ms) == MapThenSumSet(LAMBDA m : memory[m].size, ms)

FirstOf(pool, n) == {pool[k] : k \in 1..n}

(* TrimPoolUntil gives back from the front until bytes are released, and   *)
(* at least one if there is one.                                           *)
TrimCount(pool, bytes) ==
    LET enough == {n \in DOMAIN pool : SizeOf(FirstOf(pool, n)) >= bytes}
    IN  IF enough = {} THEN Len(pool) ELSE Min(enough)

(* The element GetMiddleSegment returns for the nodes from left up to, not *)
(* including, right: its fast pointer moves two nodes for one of the slow. *)
GetMiddleSegment(left, right) == left + (right - left - 1) \div 2

(* A turn of FindSegment's loop.  Left and right are the same when the     *)
(* segment is found or there is none.                                      *)
Narrow(list, size, range) ==
    LET middle == GetMiddleSegment(range.left, range.right)
    IN  IF range.left = range.right THEN range
        ELSE IF list[middle].size = size THEN [left |-> middle, right |-> middle]
        ELSE IF list[middle].size > size THEN [left |-> range.left, right |-> middle]
        ELSE [left |-> middle + 1, right |-> range.right]

(* FindSegment: the binary search from the head up to, not including, the  *)
(* tail.  Every turn makes the range smaller.                              *)
FindSegment(list, size) ==
    LET search[n \in 0..Len(list)] ==
            IF n = 0 THEN [left |-> 1, right |-> Len(list)]
            ELSE Narrow(list, size, search[n - 1])
    IN  search[Len(list)].left

(* Mutant: a new segment is always inserted behind the one found.          *)
GetOrCreateFreeSegment_After(list, size) ==
    IF list = <<>> THEN << [size |-> size, pool |-> <<>>] >>
    ELSE LET i == FindSegment(list, size)
         IN  IF list[i].size = size THEN list
             ELSE InsertAt(list, i + 1, [size |-> size, pool |-> <<>>])

GetOrCreateFreeSegment(list, size) ==
    IF list = <<>> THEN << [size |-> size, pool |-> <<>>] >>
    ELSE LET i == FindSegment(list, size)
             at == IF size > list[i].size THEN i + 1 ELSE i
         IN  IF list[i].size = size THEN list
             ELSE InsertAt(list, at, [size |-> size, pool |-> <<>>])

IndexOfSize(list, size) == CHOOSE i \in DOMAIN list : list[i].size = size

---------------------------------------------------------------------------
(* The allocators' statistics.                                             *)
ZeroStats == [usedBlockCount |-> 0, usedBlockUsage |-> 0, usedMemoryCount |-> 0,
              usedMemoryUsage |-> 0, freeMemoryUsage |-> 0]

AddBlock(s, sign, size) ==
    [s EXCEPT !.usedBlockCount = @ + sign, !.usedBlockUsage = @ + sign * size]

AddMemory(s, sign, size, free) ==
    [s EXCEPT !.usedMemoryCount = @ + sign, !.usedMemoryUsage = @ + sign * size,
              !.freeMemoryUsage = @ + free]

(* MemoryAllocatorStats::operator+=.                                       *)
Plus(s, t) == [f \in DOMAIN s |-> s[f] + t[f]]

(* GetStats: BuddyMemoryAllocator takes the memory's from its pool,        *)
(* DedicatedMemoryAllocator and ConditionalMemoryAllocator add.            *)
GetStats ==
    Plus([stats["buddy"] EXCEPT
            !.usedMemoryCount = stats["subPool"].usedMemoryCount,
            !.usedMemoryUsage = stats["subPool"].usedMemoryUsage,
            !.freeMemoryUsage = stats["subPool"].freeMemoryUsage],
         Plus(stats["dedicated"], stats["dedicatedPool"]))

StatsOf(chain) == IF chain = "sub" THEN "subPool" ELSE "dedicatedPool"

ChainInit ==
    /\ Init
    /\ usedPool = [i \in 0..(2^(MaxOrder - MemoryOrder) - 1) |-> NoMemory]
    /\ segments = [c \in Chains |->
         IF PoolAlgorithm[c] = "segmented" THEN <<>>
         ELSE << [size |-> IF c = "sub" THEN MemorySize ELSE FixedSize, pool |-> <<>>] >>]
    /\ memory = [m \in MemoryIds |-> Absent]
    /\ subs = <<>> /\ dedicated = <<>>
    /\ stats = [a \in {"buddy", "subPool", "dedicated", "dedicatedPool", "heap"} |-> ZeroStats]
    /\ op = Idle

Unused == {m \in MemoryIds : memory[m] = Absent}

With(f, x, v) == [y \in DOMAIN f \cup {x} |-> IF y = x THEN v ELSE f[y]]

Without(f, x) == [y \in DOMAIN f \ {x} |-> f[y]]

---------------------------------------------------------------------------
(* TryAllocateMemory of a chain's pool: the segment's front, or new memory *)
(* of the heap.  SetPool links the memory to the segment.  The operators   *)
(* say what the call makes of the chain's segments, the memory and the     *)
(* statistics, for an outcome "hit", "miss" or "fail".                     *)
ValidInPool(chain, request) ==
    ValidateRequest(request, IF PoolAlgorithm[chain] = "segmented" THEN kInvalidSize
                             ELSE segments[chain][1].size)

SegmentsFor(chain, request) ==
    IF PoolAlgorithm[chain] = "fixed" THEN segments[chain]
    ELSE GetOrCreateFreeSegment(segments[chain], AlignTo(request.size, MemoryAlignment))

SegmentFor(chain, request) ==
    IF PoolAlgorithm[chain] = "fixed" THEN segments[chain][1].size
    ELSE AlignTo(request.size, MemoryAlignment)

PoolFor(chain, request) ==
    LET list == SegmentsFor(chain, request)
    IN  list[IndexOfSize(list, SegmentFor(chain, request))].pool

(* The front of the pool is taken; the caller adds refs references to it.  *)
AcquireFromPool(chain, request, m, refs) ==
    LET list == SegmentsFor(chain, request)
        i == IndexOfSize(list, SegmentFor(chain, request))
    IN  /\ list[i].pool # <<>> /\ m = Head(list[i].pool)
        /\ segments' = [segments EXCEPT ![chain] = [list EXCEPT ![i].pool = Tail(@)]]
        /\ memory' = [memory EXCEPT ![m].segment = SegmentFor(chain, request), ![m].refs = @ + refs]

(* The pool is empty: the heap creates memory, with its size aligned.      *)
CreateMemory(chain, request, m, refs) ==
    /\ PoolFor(chain, request) = <<>>
    /\ ~request.never
    /\ m \in Unused /\ \A k \in Unused : m <= k
    /\ memory' = [memory EXCEPT ![m] =
                    [size |-> AlignTo(request.size, request.alignment),
                     alignment |-> request.alignment, refs |-> refs,
                     segment |-> SegmentFor(chain, request)]]
    /\ segments' = [segments EXCEPT ![chain] = SegmentsFor(chain, request)]

(* No memory: the request must not allocate or the heap fails.  A segment  *)
(* that was created for the request stays.                                 *)
PoolFails(chain, request) ==
    /\ PoolFor(chain, request) = <<>>
    /\ segments' = [segments EXCEPT ![chain] = SegmentsFor(chain, request)]
    /\ UNCHANGED memory

(* The pool's and the heap's statistics after memory of a size was got.    *)
GotMemory(chain, s, size, created) ==
    [s EXCEPT ![StatsOf(chain)] = AddMemory(@, 1, size, IF created THEN 0 ELSE 0 - size),
              !["heap"] = IF created THEN AddMemory(@, 1, size, 0) ELSE @]

(* DeallocateMemory of a pool: the memory's own segment takes it back.     *)
ReturnToPool(chain, m) ==
    LET list == segments[chain]
        i == IndexOfSize(list, memory[m].segment)
    IN  [segments EXCEPT ![chain] = [list EXCEPT ![i].pool = <<m>> \o @]]

PoolTakesBack(chain, s, m) ==
    [s EXCEPT ![StatsOf(chain)] = AddMemory(@, -1, memory[m].size, memory[m].size)]

---------------------------------------------------------------------------
(* ConditionalMemoryAllocator's choice of a chain.                         *)
IsForFirst(request) == request.size <= ConditionalSize

(* BuddyMemoryAllocator.  TrySubAllocateMemory first allocates a block ... *)
TrySubAllocate(request) ==
    /\ op = Idle
    /\ IsForFirst(request)
    /\ ValidateRequest(request, MemorySize)
    /\ 2^Order(request.size) <= MemorySize
    /\ TryAllocateBlock(Order(request.size), request.alignment)
    /\ op' = [pc |-> "memory", request |-> request,
              block |-> CHOOSE b \in InState("Allocated")' :
                           b \notin InState("Allocated")]
    /\ UNCHANGED <<usedPool, segments, memory, subs, dedicated, stats>>

GetMemoryIndex(block) == Offset(block) \div MemorySize

SubAllocated(m) ==
    /\ usedPool' = [usedPool EXCEPT ![GetMemoryIndex(op.block)] = m]
    /\ subs' = With(subs, op.block, op.request.size)
    /\ op' = Idle
    /\ UNCHANGED <<state, freeLists, dedicated>>

UsedBlock(s, sign, block) == [s EXCEPT !["buddy"] = AddBlock(@, sign, Size(block))]

(* ... then finds the block's memory in mUsedPool ...                      *)
UseMemory ==
    /\ op.pc = "memory"
    /\ LET m == usedPool[GetMemoryIndex(op.block)]
       IN  /\ m # NoMemory
           /\ memory' = [memory EXCEPT ![m].refs = @ + 1]
           /\ stats' = UsedBlock(stats, 1, op.block)
           /\ UNCHANGED segments
           /\ SubAllocated(m)

(* ... or gets new memory from the pool ...                                *)
GetMemory ==
    /\ op.pc = "memory"
    /\ usedPool[GetMemoryIndex(op.block)] = NoMemory
    /\ LET request == MemoryRequest(op.request)
       IN  /\ ValidInPool("sub", request)
           /\ \E m \in MemoryIds : \E created \in BOOLEAN :
                 /\ IF created THEN CreateMemory("sub", request, m, 1)
                    ELSE AcquireFromPool("sub", request, m, 1)
                 /\ stats' = UsedBlock(GotMemory("sub", stats, memory'[m].size, created), 1, op.block)
                 /\ SubAllocated(m)

(* Mutant: the block is not given back.                                    *)
FailMemory_LosesBlock ==
    /\ op.pc = "memory"
    /\ usedPool[GetMemoryIndex(op.block)] = NoMemory
    /\ PoolFails("sub", MemoryRequest(op.request))
    /\ op' = Idle
    /\ UNCHANGED <<state, freeLists, usedPool, subs, dedicated, stats>>

(* ... or fails and gives the block back.                                  *)
FailMemory ==
    /\ op.pc = "memory"
    /\ usedPool[GetMemoryIndex(op.block)] = NoMemory
    /\ PoolFails("sub", MemoryRequest(op.request))
    /\ DeallocateBlock(op.block)
    /\ op' = Idle
    /\ UNCHANGED <<usedPool, subs, dedicated, stats>>

(* RemoveSubAllocationRef.                                                 *)
IsLastRef(m) == memory[m].refs = 1

(* Mutant: the memory stays in mUsedPool.                                  *)
Invalidated_Kept(i) == usedPool

(* IndexedMemoryPool::AcquireFromPool invalidates the index.               *)
Invalidated(i) == [usedPool EXCEPT ![i] = NoMemory]

(* DeallocateMemory: the block is freed, and with its last block the       *)
(* memory is given back to the pool.                                       *)
DeallocateSub(block) ==
    LET i == GetMemoryIndex(block)
        m == usedPool[i]
    IN  /\ op = Idle
        /\ block \in DOMAIN subs
        /\ DeallocateBlock(block)
        /\ subs' = Without(subs, block)
        /\ memory' = [memory EXCEPT ![m].refs = @ - 1]
        /\ IF IsLastRef(m)
           THEN /\ usedPool' = Invalidated(i)
                /\ segments' = ReturnToPool("sub", m)
                /\ stats' = UsedBlock(PoolTakesBack("sub", stats, m), -1, block)
           ELSE /\ stats' = UsedBlock(stats, -1, block)
                /\ UNCHANGED <<usedPool, segments>>
        /\ UNCHANGED <<dedicated, op>>

---------------------------------------------------------------------------
(* DedicatedMemoryAllocator: memory of the pool's with a block around it.  *)
AllocateDedicated(request) ==
    /\ op = Idle
    /\ ~IsForFirst(request)
    /\ ValidateRequest(request, kInvalidSize) /\ ValidInPool("dedicated", request)
    /\ \E m \in MemoryIds : \E created \in BOOLEAN :
          /\ IF created THEN CreateMemory("dedicated", request, m, 0)
             ELSE AcquireFromPool("dedicated", request, m, 0)
          /\ stats' = [GotMemory("dedicated", stats, memory'[m].size, created)
                         EXCEPT !["dedicated"] = AddBlock(@, 1, memory'[m].size)]
          /\ dedicated' = With(dedicated, m, request.size)
    /\ UNCHANGED <<state, freeLists, usedPool, subs, op>>

FailDedicated(request) ==
    /\ op = Idle
    /\ ~IsForFirst(request)
    /\ ValidateRequest(request, kInvalidSize) /\ ValidInPool("dedicated", request)
    /\ PoolFails("dedicated", request)
    /\ UNCHANGED <<state, freeLists, usedPool, subs, dedicated, stats, op>>

(* Mutant: the block of the allocation is not counted off.                 *)
DeallocateDedicated_KeepsBlock(m) ==
    /\ op = Idle
    /\ m \in DOMAIN dedicated
    /\ dedicated' = Without(dedicated, m)
    /\ segments' = ReturnToPool("dedicated", m)
    /\ stats' = PoolTakesBack("dedicated", stats, m)
    /\ UNCHANGED <<state, freeLists, usedPool, memory, subs, op>>

DeallocateDedicated(m) ==
    /\ op = Idle
    /\ m \in DOMAIN dedicated
    /\ dedicated' = Without(dedicated, m)
    /\ segments' = ReturnToPool("dedicated", m)
    /\ stats' = [PoolTakesBack("dedicated", stats, m)
                   EXCEPT !["dedicated"] = AddBlock(@, -1, memory[m].size)]
    /\ UNCHANGED <<state, freeLists, usedPool, memory, subs, op>>

---------------------------------------------------------------------------
(* ReleaseMemory: how much memory goes of each segment of a list.  What is *)
(* left of bytes is reduced by what a segment released, on unsigned        *)
(* integers, and the loop ends when the total is not below what is left.   *)
Released(list, bytes) ==
    LET left(total) == (bytes - total) % Word
        count(i, total) == TrimCount(list[i].pool, left(total))
        total[i \in 0..Len(list)] ==
            IF i = 0 THEN 0
            ELSE total[i - 1] + SizeOf(FirstOf(list[i].pool, count(i, total[i - 1])))
    IN  [i \in DOMAIN list |-> IF \A j \in 1..(i - 1) : total[j] < left(total[j])
                              THEN count(i, total[i - 1]) ELSE 0]

(* The pools give back their first count[i] memory objects.                *)
FreedOf(list, count) == UNION {FirstOf(list[i].pool, count[i]) : i \in DOMAIN list}

KeptOf(list, count) ==
    [i \in DOMAIN list |-> [list[i] EXCEPT !.pool = SubSeq(@, count[i] + 1, Len(@))]]

HeapReleases(s, freed) ==
    [s EXCEPT !.usedMemoryCount = @ - Cardinality(freed), !.usedMemoryUsage = @ - SizeOf(freed)]

(* A fixed pool has one segment, for which the loop is TrimPoolUntil.      *)
ReleaseMemory(chain, bytes) ==
    LET list == segments[chain]
        count == Released(list, bytes)
        freed == FreedOf(list, count)
    IN  /\ op = Idle
        /\ segments' = [segments EXCEPT ![chain] = KeptOf(list, count)]
        /\ memory' = [m \in MemoryIds |-> IF m \in freed THEN Absent ELSE memory[m]]
        /\ stats' = [stats EXCEPT ![StatsOf(chain)] = AddMemory(@, 0, 0, 0 - SizeOf(freed)),
                                  !["heap"] = HeapReleases(@, freed)]
        /\ UNCHANGED <<state, freeLists, usedPool, subs, dedicated, op>>

ChainNext ==
    \/ \E request \in Requests :
          \/ TrySubAllocate(request)
          \/ AllocateDedicated(request)
          \/ FailDedicated(request)
    \/ UseMemory
    \/ GetMemory
    \/ FailMemory
    \/ \E block \in DOMAIN subs : DeallocateSub(block)
    \/ \E m \in DOMAIN dedicated : DeallocateDedicated(m)
    \/ \E chain \in Chains, bytes \in Releases : ReleaseMemory(chain, bytes)

ChainSpec == ChainInit /\ [][ChainNext]_chainVars

---------------------------------------------------------------------------
Existing == {m \in MemoryIds : memory[m] # Absent}

Pooled(chain) == UNION {Range(segments[chain][i].pool) : i \in DOMAIN segments[chain]}

ChainTypeOK ==
    /\ usedPool \in [0..(2^(MaxOrder - MemoryOrder) - 1) -> {NoMemory} \cup Existing]
    /\ \A m \in Existing :
          memory[m] \in [size : Nat \ {0}, alignment : Nat \ {0}, refs : Nat, segment : Nat]
    /\ \A c \in Chains : \A i \in DOMAIN segments[c] : segments[c][i].pool \in Seq(Existing)
    /\ DOMAIN dedicated \subseteq Existing
    /\ \A a \in DOMAIN stats : \A f \in DOMAIN ZeroStats : stats[a][f] \in Nat

(* Where a memory object is: an index of the used pool, a position in a    *)
(* free pool, a client's dedicated allocation.                             *)
Places(m) ==
    {<<"used", i>> : i \in {j \in DOMAIN usedPool : usedPool[j] = m}}
    \cup (UNION {UNION {{<<c, i, k>> : k \in {j \in DOMAIN segments[c][i].pool :
                                              segments[c][i].pool[j] = m}} :
                        i \in DOMAIN segments[c]} : c \in Chains})
    \cup {<<"dedicated", n>> : n \in {m} \cap DOMAIN dedicated}

(* Memory is neither lost nor handed out twice along the chain: every      *)
(* memory object that exists is in exactly one place.                      *)
MemoryInOnePlace == \A m \in Existing : Cardinality(Places(m)) = 1

(* The buddy system's memory lives exactly as long as one of its blocks is *)
(* in use: mUsedPool holds memory for an index exactly if a block of that  *)
(* index is allocated, and its reference count is the number of them.      *)
RefsCountBlocks ==
    \A i \in DOMAIN usedPool :
        LET blocks == {b \in DOMAIN subs : Offset(b) \div MemorySize = i}
        IN  IF blocks = {} THEN usedPool[i] = NoMemory
            ELSE usedPool[i] # NoMemory /\ memory[usedPool[i]].refs = Cardinality(blocks)

(* A sub-allocation whose memory could not be got leaves no block behind:  *)
(* once no call is in progress, the blocks in use are the clients'.        *)
NoBlockLeaks == op = Idle => InState("Allocated") = DOMAIN subs

(* The blocks of the buddy system, the memory below them and its reference *)
(* counts agree, through failures at every level of the chain.             *)
BlocksMatchMemory == RefsCountBlocks /\ NoBlockLeaks

(* GetStats adds up to what the clients hold and what the pools keep,      *)
(* without counting the memory below a block or a pool a second time.      *)
StatsExact ==
    op = Idle =>
      GetStats =
        [usedBlockCount |-> Cardinality(DOMAIN subs) + Cardinality(DOMAIN dedicated),
         usedBlockUsage |-> MapThenSumSet(Size, DOMAIN subs) + SizeOf(DOMAIN dedicated),
         usedMemoryCount |-> Cardinality(Existing \ (Pooled("sub") \cup Pooled("dedicated"))),
         usedMemoryUsage |-> SizeOf(Existing \ (Pooled("sub") \cup Pooled("dedicated"))),
         freeMemoryUsage |-> SizeOf(Pooled("sub") \cup Pooled("dedicated"))]

(* FindSegment's binary search and ReturnToPool rest on this: the segments *)
(* are sorted by size without duplicates, and each pool holds memory of    *)
(* its segment's size only (the ASSERT of LIFOMemoryPool::ReturnToPool).   *)
PoolsAreUniform ==
    \A c \in Chains : \A i \in DOMAIN segments[c] :
        /\ i > 1 => segments[c][i - 1].size < segments[c][i].size
        /\ \A m \in Range(segments[c][i].pool) : memory[m].size = segments[c][i].size

(* "Creates a MemoryAllocation that has at-least requested size".          *)
LargeEnough == \A m \in DOMAIN dedicated : memory[m].size >= dedicated[m]

(* "The released size might be smaller then bytesToRelease if there was    *)
(* not enough memory": a ReleaseMemory that releases less leaves nothing   *)
(* in the pool.                                                            *)
ReleasesEnough ==
    [][\A chain \in Chains, bytes \in Releases : ReleaseMemory(chain, bytes) =>
         \/ SizeOf(Existing \ Existing') >= bytes
         \/ Pooled(chain)' = {}]_chainVars
============================================================================
