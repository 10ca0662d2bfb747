------------------------- MODULE ResourceAllocator -------------------------
(***************************************************************************)
(* The D3D12 ResourceAllocator at work: threads create, import, map and    *)
(* release resource allocations and return free memory to the OS.          *)
(*                                                                         *)
(* A creation carries out the plan of ResourcePlan: one allocator after    *)
(* the other until one succeeds.  Of the chain of memory allocators behind *)
(* each attempt (MemoryChain, SlabMemoryAllocator) only the promise is     *)
(* kept: a block of a heap with room, of a pooled heap or of a new heap,   *)
(* or nothing.  CreateResource holds mMutex from its first step to its     *)
(* last; the chains and the ResidencyManager have mutexes of their own, so *)
(* each call of theirs is a step; the DebugResourceAllocator holds its     *)
(* mutex while it deallocates through another allocator.                   *)
(* Heaps are created within the budget (ALLOCATOR_FLAG_ALWAYS_IN_BUDGET),  *)
(* hence resident, and Evict is what the ResidencyManager may do to them.  *)
(***************************************************************************)
EXTENDS Integers, Sequences, SequencesExt, FiniteSets, FiniteSetsExt

CONSTANTS
    Threads,       \* the application's threads
    HeapIds,       \* names for heaps
    AllocIds,      \* addresses of ResourceAllocations, reused by operator new
    BlocksPerHeap, \* blocks of a sub-allocated heap
    ChainOrder,    \* the chains in the order ReleaseMemory visits them
    Configs        \* how the allocator is created and what it is called with, see IsConfig

VARIABLES
    config,        \* how the allocator was created, and what it is called with
    heaps,         \* HeapIds -> NoHeap or the heap
    allocs,        \* AllocIds -> NoAlloc or the ResourceAllocation
    live,          \* AllocIds -> the DebugResourceAllocator's entry or NoEntry
    mMutex,        \* thread that holds ResourceAllocator::mMutex, or NoThread
    debugMutex,    \* thread that holds DebugResourceAllocator::mMutex
    mStats,        \* UsedMemoryUsage (UsedBlockUsage is the same) and UsedMemoryCount
    call           \* Threads -> Idle or the call in progress

vars == <<config, heaps, allocs, live, mMutex, debugMutex, mStats, call>>

(* The ways to obtain memory: the chains, and committed resources.         *)
Chains == {"within", "sub", "dedicated"}
Attempts == Chains \cup {"committed"}

(* A request is the plan of a creation and whether the caller wants the    *)
(* allocation.                                                             *)
Requests ==
    [attempts : Seq(Attempts), heapSize : [Attempts -> Nat], neverAllocate : BOOLEAN,
     out : BOOLEAN]

IsConfig(cfg) ==
    /\ {cfg.debug, cfg.residency, cfg.onDemand, cfg.lockFails, cfg.nameFails} \subseteq BOOLEAN
    /\ cfg.threads \subseteq Threads /\ cfg.requests \subseteq Requests
    /\ cfg.imports \subseteq Nat /\ cfg.releases \subseteq Nat

ASSUME ResourceAllocatorAssumption ==
    /\ IsFiniteSet(Threads) /\ IsFiniteSet(HeapIds) /\ IsFiniteSet(AllocIds)
    /\ "none" \notin Threads \cup HeapIds
    /\ BlocksPerHeap \in Nat \ {0}
    /\ ChainOrder \in Seq(Chains)
    /\ \A cfg \in Configs : IsConfig(cfg)

NoThread == "none"
NoHeap == [chain |-> "none"]
NoAlloc == [heap |-> "none"]
NoEntry == "none"
Idle == [pc |-> "idle"]
NoRequest == [attempts |-> <<>>]

Init ==
    /\ config \in Configs
    /\ heaps = [h \in HeapIds |-> NoHeap]
    /\ allocs = [a \in AllocIds |-> NoAlloc]
    /\ live = [a \in AllocIds |-> NoEntry]
    /\ mMutex = NoThread /\ debugMutex = NoThread
    /\ mStats = [usage |-> 0, count |-> 0]
    /\ call = [t \in Threads |-> Idle]

---------------------------------------------------------------------------
(* Heaps.                                                                  *)
NewHeap(chain, size, blocks) ==
    [chain |-> chain, size |-> size, blocks |-> blocks, pooled |-> FALSE, locks |-> 0,
     resident |-> TRUE]

IsFree(h) == heaps[h] = NoHeap
FreeHeapId == CHOOSE h \in HeapIds : IsFree(h)
HasFreeHeapId == \E h \in HeapIds : IsFree(h)

(* Blocks a heap of a chain is divided into.                               *)
Capacity(chain) == IF chain \in {"within", "sub"} THEN BlocksPerHeap ELSE 1

(* LockHeap makes an evicted heap resident, which can fail, unless the     *)
(* heap is locked already.                                                 *)
LockHeap(heap) == [heap EXCEPT !.locks = @ + 1, !.resident = TRUE]
CanLockFail(heap) == config.lockFails /\ heap.locks = 0 /\ ~heap.resident

(* Mutant: the first of several unlocks makes the heap evictable.          *)
UnlockHeap_All(heap) == [heap EXCEPT !.locks = 0]

(* UnlockHeap refuses a heap that is not locked.                           *)
UnlockHeap(heap) == IF heap.locks > 0 THEN [heap EXCEPT !.locks = @ - 1] ELSE heap

(* Mutant: a block that was never used is not given back.                  *)
DeallocateBlock_Lost(h) == heaps[h]

(* A chain takes a block back; a heap without blocks goes to the pool, or  *)
(* is released when there is none.                                         *)
DeallocateBlock(h) ==
    IF heaps[h].blocks > 1 THEN [heaps[h] EXCEPT !.blocks = @ - 1]
    ELSE IF config.onDemand THEN NoHeap
    ELSE [heaps[h] EXCEPT !.blocks = 0, !.pooled = TRUE]

---------------------------------------------------------------------------
(* CreateResource.  The arguments a request stands for were found valid by *)
(* the plan; otherwise CreateResource returns before it changes anything.  *)
NewCall(pc, request, attempts, alloc) ==
    [pc |-> pc, request |-> request, attempts |-> attempts, heap |-> "none", alloc |-> alloc]

Step(t, pc) == call' = [call EXCEPT ![t].pc = pc]

Return(t) ==
    /\ call' = [call EXCEPT ![t] = Idle]
    /\ mMutex' = IF mMutex = t THEN NoThread ELSE mMutex

CreateResource(t) ==
    /\ call[t] = Idle /\ t \in config.threads
    /\ mMutex = NoThread /\ \E a \in AllocIds : allocs[a] = NoAlloc
    /\ \E r \in config.requests :
          call' = [call EXCEPT ![t] = NewCall("try", r, r.attempts, "none")]
    /\ mMutex' = t
    /\ UNCHANGED <<config, heaps, allocs, live, debugMutex, mStats>>

IsTrying(t, attempts) ==
    call[t].pc = "try" /\ call[t].attempts # <<>> /\ Head(call[t].attempts) \in attempts

(* The size of the heap an attempt asks for.                               *)
HeapSize(t) == call[t].request.heapSize[Head(call[t].attempts)]

Place(t, h) == call' = [call EXCEPT ![t].pc = "place", ![t].heap = h]

(* TryAllocateMemory of the chain: a block of a heap in use, of a pooled   *)
(* heap of the size, or of a new heap unless memory may not be allocated.  *)
TryAllocateMemory(t) ==
    /\ IsTrying(t, Chains)
    /\ LET chain == Head(call[t].attempts)
       IN  \/ \E h \in HeapIds :
                /\ heaps[h].chain = chain /\ heaps[h].size = HeapSize(t)
                /\ heaps[h].blocks < Capacity(chain)
                /\ heaps' = [heaps EXCEPT ![h].blocks = @ + 1, ![h].pooled = FALSE]
                /\ Place(t, h)
           \/ /\ ~call[t].request.neverAllocate /\ HasFreeHeapId
              /\ heaps' = [heaps EXCEPT ![FreeHeapId] = NewHeap(chain, HeapSize(t), 1)]
              /\ Place(t, FreeHeapId)
    /\ UNCHANGED <<config, allocs, live, mMutex, debugMutex, mStats>>

NextAttempt(t) == call' = [call EXCEPT ![t].pc = "try", ![t].attempts = Tail(@)]

(* No memory: the next attempt.                                            *)
TryAllocateFails(t) ==
    /\ IsTrying(t, Chains)
    /\ NextAttempt(t)
    /\ UNCHANGED <<config, heaps, allocs, live, mMutex, debugMutex, mStats>>

(* The new ResourceAllocation, at an address that operator new finds free. *)
NewAllocation(t, h, allocator) ==
    \E a \in {b \in AllocIds : allocs[b] = NoAlloc} :
      /\ allocs' = [allocs EXCEPT ![a] = [heap |-> h, allocator |-> allocator, maps |-> 0,
                                          residency |-> config.residency, handedOut |-> FALSE]]
      /\ call' = [call EXCEPT ![t].pc = "created", ![t].alloc = a]

(* The committed resource of a sub-allocation within it needs no placing.  *)
UseWithin(t) ==
    /\ call[t].pc = "place" /\ heaps[call[t].heap].chain = "within"
    /\ NewAllocation(t, call[t].heap, "chain")
    /\ UNCHANGED <<config, heaps, live, mMutex, debugMutex, mStats>>

(* CreatePlacedResource: ScopedResidencyLock ignores whether it locked.    *)
LockForPlacing(t) ==
    /\ call[t].pc = "place" /\ heaps[call[t].heap].chain # "within"
    /\ Step(t, "placing")
    /\ IF config.residency
       THEN \/ heaps' = [heaps EXCEPT ![call[t].heap] = LockHeap(@)]
            \/ CanLockFail(heaps[call[t].heap]) /\ UNCHANGED heaps
       ELSE UNCHANGED heaps
    /\ UNCHANGED <<config, allocs, live, mMutex, debugMutex, mStats>>

Unlocked(h) == IF config.residency THEN UnlockHeap(heaps[h]) ELSE heaps[h]

Placed(t) ==
    /\ call[t].pc = "placing"
    /\ heaps' = [heaps EXCEPT ![call[t].heap] = Unlocked(call[t].heap)]
    /\ NewAllocation(t, call[t].heap, "chain")
    /\ UNCHANGED <<config, live, mMutex, debugMutex, mStats>>

(* The device fails to place the resource: unlock, and then, in a step of  *)
(* its own, give the block back and make the next attempt.                 *)
PlaceFails(t) ==
    /\ call[t].pc = "placing"
    /\ heaps' = [heaps EXCEPT ![call[t].heap] = Unlocked(call[t].heap)]
    /\ Step(t, "failed")
    /\ UNCHANGED <<config, allocs, live, mMutex, debugMutex, mStats>>

(* Mutant: the attempt that failed is made again.                          *)
DeallocateFailed_Again(t) ==
    /\ call[t].pc = "failed"
    /\ heaps' = [heaps EXCEPT ![call[t].heap] = DeallocateBlock(call[t].heap)]
    /\ Step(t, "try")
    /\ UNCHANGED <<config, allocs, live, mMutex, debugMutex, mStats>>

DeallocateFailed(t) ==
    /\ call[t].pc = "failed"
    /\ heaps' = [heaps EXCEPT ![call[t].heap] = DeallocateBlock(call[t].heap)]
    /\ NextAttempt(t)
    /\ UNCHANGED <<config, allocs, live, mMutex, debugMutex, mStats>>

(* Mutant: the bytes are counted but not the heap.                         *)
CountUsed_BytesOnly(size) == mStats' = [mStats EXCEPT !.usage = @ + size]

CountUsed(size) == mStats' = [usage |-> mStats.usage + size, count |-> mStats.count + 1]

CreateCommittedResource(t) ==
    /\ IsTrying(t, {"committed"})
    /\ HasFreeHeapId
    /\ heaps' = [heaps EXCEPT ![FreeHeapId] = NewHeap("committed", HeapSize(t), 1)]
    /\ CountUsed(HeapSize(t))
    /\ NewAllocation(t, FreeHeapId, "this")
    /\ UNCHANGED <<config, live, mMutex, debugMutex>>

(* The committed resource fails, or there is no attempt left.              *)
CreateFails(t) ==
    /\ IsTrying(t, {"committed"}) \/ (call[t].pc = "try" /\ call[t].attempts = <<>>)
    /\ Return(t)
    /\ UNCHANGED <<config, heaps, allocs, live, debugMutex, mStats>>

(* The device refuses the debug name: CreateResource returns, and the      *)
(* ComPtr releases the allocation before lock_guard releases mMutex.  A    *)
(* sub-allocation within a resource is not named.                          *)
NameFails(t) ==
    /\ call[t].pc = "created" /\ config.debug /\ config.nameFails
    /\ heaps[allocs[call[t].alloc].heap].chain # "within"
    /\ Step(t, "release")
    /\ UNCHANGED <<config, heaps, allocs, live, mMutex, debugMutex, mStats>>

(* Mutant: the table of live allocations is changed without its mutex.     *)
AddLiveAllocation_Unlocked(t) ==
    /\ call[t].pc = "created" /\ config.debug
    /\ LET a == call[t].alloc
       IN  /\ live' = [live EXCEPT ![a] = IF @ = NoEntry THEN allocs[a].allocator ELSE @]
           /\ allocs' = [allocs EXCEPT ![a].allocator = "debug"]
    /\ Step(t, "return")
    /\ UNCHANGED <<config, heaps, mMutex, debugMutex, mStats>>

(* AddLiveAllocation: GetOrCreate keeps an entry that is there already.    *)
AddLiveAllocation(t) ==
    /\ call[t].pc = "created" /\ config.debug
    /\ debugMutex = NoThread
    /\ LET a == call[t].alloc
       IN  /\ live' = [live EXCEPT ![a] = IF @ = NoEntry THEN allocs[a].allocator ELSE @]
           /\ allocs' = [allocs EXCEPT ![a].allocator = "debug"]
    /\ Step(t, "return")
    /\ UNCHANGED <<config, heaps, mMutex, debugMutex, mStats>>

HasCreated(t) == call[t].pc = IF config.debug THEN "return" ELSE "created"

(* The allocation is handed to the caller.                                 *)
HandOut(t) ==
    /\ HasCreated(t) /\ call[t].request.out
    /\ allocs' = [allocs EXCEPT ![call[t].alloc].handedOut = TRUE]
    /\ Return(t)
    /\ UNCHANGED <<config, heaps, live, debugMutex, mStats>>

(* No out pointer: the ComPtr releases the allocation, as above.           *)
Discard(t) ==
    /\ HasCreated(t) /\ ~call[t].request.out
    /\ Step(t, "release")
    /\ UNCHANGED <<config, heaps, allocs, live, mMutex, debugMutex, mStats>>

(* CreateResource of an existing resource, under mMutex and in one step;   *)
(* residency is not supported and the debug allocator not told.            *)
ImportResource(t) ==
    /\ call[t] = Idle /\ t \in config.threads /\ config.imports # {}
    /\ mMutex = NoThread /\ HasFreeHeapId
    /\ \E size \in config.imports, a \in {b \in AllocIds : allocs[b] = NoAlloc} :
         /\ heaps' = [heaps EXCEPT ![FreeHeapId] = NewHeap("imported", size, 1)]
         /\ CountUsed(size)
         /\ allocs' = [allocs EXCEPT ![a] = [heap |-> FreeHeapId, allocator |-> "this", maps |-> 0,
                                             residency |-> FALSE, handedOut |-> TRUE]]
    /\ UNCHANGED <<config, live, mMutex, debugMutex, call>>

---------------------------------------------------------------------------
(* The last reference to an allocation is released: DeleteThis calls the   *)
(* DeallocateMemory of the allocation's allocator.                         *)
Release(t) ==
    /\ call[t] = Idle /\ t \in config.threads
    /\ \E a \in AllocIds :
         /\ allocs[a] # NoAlloc /\ allocs[a].handedOut /\ allocs[a].maps = 0
         /\ allocs' = [allocs EXCEPT ![a].handedOut = FALSE]
         /\ call' = [call EXCEPT ![t] = NewCall("release", NoRequest, <<>>, a)]
    /\ UNCHANGED <<config, heaps, live, mMutex, debugMutex, mStats>>

(* DebugResourceAllocator::DeallocateMemory up to the call of the          *)
(* allocator that its entry names.                                         *)
DebugDeallocateMemory(t) ==
    /\ call[t].pc = "release" /\ allocs[call[t].alloc].allocator = "debug"
    /\ debugMutex = NoThread
    /\ debugMutex' = t
    /\ allocs' = [allocs EXCEPT ![call[t].alloc].allocator = live[call[t].alloc]]
    /\ UNCHANGED <<config, heaps, live, mMutex, mStats, call>>

(* What is left to do once the allocation is deleted.                      *)
Deallocated(t) ==
    /\ allocs' = [allocs EXCEPT ![call[t].alloc] = NoAlloc]
    /\ IF debugMutex = t
       THEN Step(t, "erase") /\ UNCHANGED mMutex
       ELSE Return(t)

(* DeallocateMemory of a chain.                                            *)
DeallocateMemoryOfChain(t) ==
    /\ call[t].pc = "release" /\ allocs[call[t].alloc].allocator = "chain"
    /\ LET h == allocs[call[t].alloc].heap
       IN  heaps' = [heaps EXCEPT ![h] = DeallocateBlock(h)]
    /\ Deallocated(t)
    /\ UNCHANGED <<config, live, debugMutex, mStats>>

(* MemoryAllocation::GetSize of a standalone allocation.                   *)
GetSize(a) == heaps[allocs[a].heap].size

(* ResourceAllocator::DeallocateMemory takes mMutex.                       *)
DeallocateMemory(t) ==
    /\ call[t].pc = "release" /\ allocs[call[t].alloc].allocator = "this"
    /\ mMutex = NoThread
    /\ LET a == call[t].alloc
       IN  /\ mStats' = [usage |-> mStats.usage - GetSize(a), count |-> mStats.count - 1]
           /\ heaps' = [heaps EXCEPT ![allocs[a].heap] = NoHeap]
    /\ Deallocated(t)
    /\ UNCHANGED <<config, live, debugMutex>>

(* The entry falls out of scope, and the mutex is released.                *)
EraseLiveAllocation(t) ==
    /\ call[t].pc = "erase"
    /\ live' = [live EXCEPT ![call[t].alloc] = NoEntry]
    /\ debugMutex' = NoThread
    /\ Return(t)
    /\ UNCHANGED <<config, heaps, allocs, mStats>>

---------------------------------------------------------------------------
(* ReleaseMemory visits the chains in their order, asks each for all of    *)
(* the bytes, and stops once enough was released.  Which of its pooled     *)
(* heaps a chain gives up is left open: it may stop early or release more  *)
(* than it was asked for (see MemoryChain).                                *)
Pooled(chains) == {h \in HeapIds : heaps[h].chain \in chains /\ heaps[h].pooled}
Bytes(hs) == MapThenSumSet(LAMBDA h : heaps[h].size, hs)

ReleaseMemory(t) ==
    /\ call[t] = Idle /\ t \in config.threads
    /\ mMutex = NoThread
    /\ \E bytes \in config.releases, visited \in DOMAIN ChainOrder,
          hs \in SUBSET Pooled(ToSet(ChainOrder)) :
         LET UpTo(i) == {h \in hs : heaps[h].chain \in {ChainOrder[j] : j \in 1..i}}
         IN  /\ \A i \in 1..(visited - 1) : Bytes(UpTo(i)) < bytes
             /\ visited = Len(ChainOrder) \/ Bytes(UpTo(visited)) >= bytes
             /\ hs = UpTo(visited)
             /\ heaps' = [h \in HeapIds |-> IF h \in hs THEN NoHeap ELSE heaps[h]]
    /\ UNCHANGED <<config, allocs, live, mMutex, debugMutex, mStats, call>>

---------------------------------------------------------------------------
(* ResourceAllocation::Map and Unmap, on an allocation the caller holds.   *)
(* MaxMaps bounds the nesting.                                             *)
MaxMaps == 1

Map(t) ==
    /\ call[t] = Idle /\ t \in config.threads
    /\ \E a \in AllocIds :
         /\ allocs[a] # NoAlloc /\ allocs[a].handedOut /\ allocs[a].maps < MaxMaps
         /\ allocs' = [allocs EXCEPT ![a].maps = @ + 1]
         /\ heaps' = IF allocs[a].residency
                     THEN [heaps EXCEPT ![allocs[a].heap] = LockHeap(@)] ELSE heaps
    /\ UNCHANGED <<config, live, mMutex, debugMutex, mStats, call>>

(* ID3D12Resource::Map fails: the lock stays.  MaxLocks bounds how often.  *)
MaxLocks == 2

MapFails(t) ==
    /\ call[t] = Idle /\ t \in config.threads
    /\ \E a \in AllocIds :
         /\ allocs[a] # NoAlloc /\ allocs[a].handedOut /\ allocs[a].residency
         /\ heaps[allocs[a].heap].locks < MaxLocks
         /\ heaps' = [heaps EXCEPT ![allocs[a].heap] = LockHeap(@)]
    /\ UNCHANGED <<config, allocs, live, mMutex, debugMutex, mStats, call>>

Unmap(t) ==
    /\ call[t] = Idle /\ t \in config.threads
    /\ \E a \in AllocIds :
         /\ allocs[a] # NoAlloc /\ allocs[a].handedOut /\ allocs[a].maps > 0
         /\ allocs' = [allocs EXCEPT ![a].maps = @ - 1]
         /\ heaps' = IF allocs[a].residency
                     THEN [heaps EXCEPT ![allocs[a].heap] = UnlockHeap(@)] ELSE heaps
    /\ UNCHANGED <<config, live, mMutex, debugMutex, mStats, call>>

(* The ResidencyManager evicts a heap that is not locked (see              *)
(* ResidencyManager).                                                      *)
Evict ==
    /\ config.residency
    /\ \E h \in HeapIds :
         /\ heaps[h] # NoHeap /\ heaps[h].chain # "imported"
         /\ heaps[h].resident /\ heaps[h].locks = 0
         /\ heaps' = [heaps EXCEPT ![h].resident = FALSE]
    /\ UNCHANGED <<config, allocs, live, mMutex, debugMutex, mStats, call>>

---------------------------------------------------------------------------
(* The steps of a call in progress, and the calls a client may make.       *)
Continue(t) ==
    /\ call[t] # Idle
    /\ \/ TryAllocateMemory(t) \/ TryAllocateFails(t) \/ UseWithin(t)
       \/ LockForPlacing(t) \/ Placed(t) \/ PlaceFails(t) \/ DeallocateFailed(t)
       \/ CreateCommittedResource(t) \/ CreateFails(t)
       \/ NameFails(t) \/ AddLiveAllocation(t) \/ HandOut(t) \/ Discard(t)
       \/ DebugDeallocateMemory(t) \/ DeallocateMemoryOfChain(t) \/ DeallocateMemory(t)
       \/ EraseLiveAllocation(t)

Client(t) ==
    \/ CreateResource(t) \/ ImportResource(t) \/ Release(t) \/ ReleaseMemory(t)
    \/ Map(t) \/ MapFails(t) \/ Unmap(t)

Next == (\E t \in Threads : Continue(t) \/ Client(t)) \/ Evict

Spec == Init /\ [][Next]_vars

(* A thread in a call goes on, and a mutex it waits for is granted to it   *)
(* if it becomes free again and again.                                     *)
FairSpec == Spec /\ \A t \in Threads : SF_vars(Continue(t))

---------------------------------------------------------------------------
(* Every block of a heap belongs to one ResourceAllocation or to the call  *)
(* that is about to place a resource in it, whichever attempts failed      *)
(* before: no heap is kept without a use unless it is in a pool, and none  *)
(* is released under an allocation.                                        *)
InFlight(h) ==
    {t \in Threads : call[t].pc \in {"place", "placing", "failed"} /\ call[t].heap = h}

BlocksMatchAllocations ==
    \A h \in HeapIds :
      LET users == Cardinality({a \in AllocIds : allocs[a].heap = h}) + Cardinality(InFlight(h))
      IN  IF IsFree(h) THEN users = 0
          ELSE heaps[h].blocks = users /\ (heaps[h].pooled <=> users = 0)

(* The allocator's own statistics are those of the committed and imported  *)
(* heaps that exist, through all the paths that create and release one.    *)
StatsExact ==
    LET own == {h \in HeapIds : heaps[h].chain \in {"committed", "imported"}}
    IN  mStats = [usage |-> Bytes(own), count |-> Cardinality(own)]

(* The table of live allocations has an entry for exactly the allocations  *)
(* that will look for theirs when they are released, with the allocator    *)
(* that each came from, although an address is free for reuse before its   *)
(* old entry is erased.                                                    *)
DebugTableExact ==
    \A a \in AllocIds :
      LET isErasing == \E t \in Threads :
                          /\ call[t].pc \in {"release", "erase"}
                          /\ call[t].alloc = a /\ debugMutex = t
      IN  /\ allocs[a] # NoAlloc /\ allocs[a].allocator = "debug" =>
               live[a] = IF heaps[allocs[a].heap].chain = "committed" THEN "this" ELSE "chain"
          /\ live[a] # NoEntry =>
               isErasing \/ (allocs[a] # NoAlloc /\ allocs[a].allocator = "debug")

(* "Locking a heap means the residency manager will never evict it": the   *)
(* heap of a mapped allocation stays resident until it is unmapped,        *)
(* whatever others lock and unlock the same heap for.                      *)
MappedStaysResident ==
    \A a \in AllocIds :
      allocs[a] # NoAlloc /\ allocs[a].maps > 0 /\ allocs[a].residency =>
        heaps[allocs[a].heap].resident /\ heaps[allocs[a].heap].locks > 0

(* Every call returns: no thread waits for a mutex that its holder cannot  *)
(* release.                                                                *)
EveryCallReturns == \A t \in Threads : call[t] # Idle ~> call[t] = Idle
===========================================================================
