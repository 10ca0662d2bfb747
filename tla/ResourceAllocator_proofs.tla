---------------------- MODULE ResourceAllocator_proofs ----------------------
(***************************************************************************)
(* Proofs about the D3D12 resource allocator, for any number of threads,   *)
(* heaps, allocations, requests and chains.                                *)
(***************************************************************************)
EXTENDS ResourceAllocator, SetSums

(* A lock fails only where one thread uses the allocator: with more, the   *)
(* ScopedResidencyLock that failed takes the lock of another, as           *)
(* resource_scoped_lock.cfg shows.                                         *)
FailingLocksAreSerial == \A cfg \in Configs : cfg.lockFails => \A t, u \in cfg.threads : t = u

-----------------------------------------------------------------------------
Own == {"committed", "imported"}
Holding == {"place", "placing", "failed"}
Owning == {"created", "return", "release"}

Heap == [chain : Attempts \cup Own, size : Nat, blocks : Nat, pooled : BOOLEAN, locks : Nat,
         resident : BOOLEAN]
Alloc == [heap : HeapIds, allocator : {"chain", "this", "debug"}, maps : Nat,
          residency : BOOLEAN, handedOut : BOOLEAN]
Call == [pc : {"try", "erase"} \cup Holding \cup Owning, request : Requests \cup {NoRequest},
         attempts : Seq(Attempts), heap : HeapIds \cup {"none"}, alloc : AllocIds \cup {"none"}]

(* The state of the allocator and of the calls in progress.                *)
TypeOK ==
    /\ config \in Configs
    /\ heaps \in [HeapIds -> Heap \cup {NoHeap}]
    /\ allocs \in [AllocIds -> Alloc \cup {NoAlloc}]
    /\ live \in [AllocIds -> {"chain", "this", NoEntry}]
    /\ call \in [Threads -> Call \cup {Idle}]

IsDebug(a) == allocs[a] # NoAlloc /\ allocs[a].allocator = "debug"

(* A call knows what it works on: the heap it holds a block of, or the     *)
(* allocation that it creates or releases.                                 *)
CallOK(t) ==
    /\ call[t].pc # "idle" => t \in config.threads
    /\ call[t].pc \in {"try"} \cup Holding => call[t].request \in Requests
    /\ call[t].pc \in Holding =>
         /\ call[t].heap \in HeapIds /\ heaps[call[t].heap].chain \in Chains
         /\ call[t].attempts # <<>>
    /\ call[t].pc \in Owning =>
         /\ call[t].alloc \in AllocIds /\ allocs[call[t].alloc] # NoAlloc
         /\ ~allocs[call[t].alloc].handedOut /\ allocs[call[t].alloc].maps = 0
    /\ call[t].pc = "created" =>
         /\ allocs[call[t].alloc].allocator # "debug"
         /\ heaps[allocs[call[t].alloc].heap].chain # "imported"

CallInv == \A t \in Threads : CallOK(t)

(* No allocation is created or released by two calls.                      *)
OneOwner ==
    \A t, u \in Threads :
      call[t].pc \in Owning /\ call[u].pc \in Owning /\ call[t].alloc = call[u].alloc => t = u

(* The thread that holds the mutex of the debug allocator has taken the    *)
(* allocation from it, and erases its entry in the end.                    *)
DebugOK(t) ==
    /\ call[t].pc = "erase" => debugMutex = t
    /\ debugMutex = t =>
         call[t].pc \in {"release", "erase"} /\ call[t].alloc \in AllocIds /\ ~IsDebug(call[t].alloc)

DebugInv == (debugMutex \in Threads \cup {NoThread}) /\ \A t \in Threads : DebugOK(t)

(* The allocator that an allocation came from, and the one that its heap   *)
(* belongs to.                                                             *)
CameFrom(a) == IF allocs[a].allocator = "debug" THEN live[a] ELSE allocs[a].allocator
OwnerOf(h) == IF heaps[h].chain \in Own THEN "this" ELSE "chain"

AllocOK(a) ==
    allocs[a] # NoAlloc =>
      /\ CameFrom(a) = OwnerOf(allocs[a].heap)
      /\ allocs[a].allocator = "debug" => heaps[allocs[a].heap].chain # "imported"

AllocInv == \A a \in AllocIds : AllocOK(a)

(* An entry of the debug allocator is needed or about to be erased.        *)
LiveOK(a) ==
    live[a] # NoEntry => IsDebug(a) \/ (debugMutex \in Threads /\ call[debugMutex].alloc = a)

LiveInv == \A a \in AllocIds : LiveOK(a)

(* BlocksMatchAllocations for one heap; a heap that is not of a chain is   *)
(* one block.                                                              *)
AllocsIn(h) == {a \in AllocIds : allocs[a].heap = h}
Users(h) == Cardinality(AllocsIn(h)) + Cardinality(InFlight(h))

BlocksOK(h) ==
    IF heaps[h] = NoHeap THEN Users(h) = 0
    ELSE /\ heaps[h].blocks = Users(h) /\ (heaps[h].pooled <=> Users(h) = 0)
         /\ heaps[h].chain \in Own => heaps[h].blocks = 1

BlocksInv == \A h \in HeapIds : BlocksOK(h)

RaInv ==
    TypeOK /\ CallInv /\ OneOwner /\ DebugInv /\ AllocInv /\ LiveInv /\ BlocksInv

-----------------------------------------------------------------------------
(* The locks of a heap cover what is mapped of it and what is being placed *)
(* in it; only a scoped lock that failed has no share in them.             *)
Mapped(h, a) == IF allocs[a].heap = h /\ allocs[a].residency THEN allocs[a].maps ELSE 0
MapsOf(h) == [a \in AllocIds |-> Mapped(h, a)]
MapLocks(h) == SumOver(MapsOf(h), AllocIds)
Placing(h) == {t \in Threads : config.residency /\ call[t].pc = "placing" /\ call[t].heap = h}

LocksOK(h) ==
    heaps[h] # NoHeap =>
      /\ heaps[h].locks > 0 => heaps[h].resident
      /\ \/ heaps[h].locks >= MapLocks(h) + Cardinality(Placing(h))
         \/ config.lockFails /\ heaps[h].locks = 0 /\ MapLocks(h) = 0

LocksInv == \A h \in HeapIds : LocksOK(h)

-----------------------------------------------------------------------------
(* What a step of thread t on heap h and allocation a leaves alone.        *)
OtherCallsKept(t) == \A u \in Threads \ {t} : call'[u] = call[u]
OtherAllocsKept(a) == \A b \in AllocIds \ {a} : allocs'[b] = allocs[b]
OtherHeapsKept(h) == \A x \in HeapIds \ {h} : heaps'[x] = heaps[x]

(* By how much the step changes the users of heap x.                       *)
Taken(x, t, a) ==
    (IF t \in InFlight(x)' THEN 1 ELSE 0) - (IF t \in InFlight(x) THEN 1 ELSE 0)
    + (IF a \in AllocsIn(x)' THEN 1 ELSE 0) - (IF a \in AllocsIn(x) THEN 1 ELSE 0)

LEMMA UsersChange ==
  ASSUME NEW x, NEW t, OtherCallsKept(t), NEW a, OtherAllocsKept(a)
  PROVE  Users(x) \in Nat /\ Users(x)' \in Nat /\ Users(x)' = Users(x) + Taken(x, t, a)
<1> DEFINE F == Cardinality(InFlight(x))
           A == Cardinality(AllocsIn(x))
<1>1. /\ F \in Nat /\ F' \in Nat
      /\ F' = F + (IF t \in InFlight(x)' THEN 1 ELSE 0) - (IF t \in InFlight(x) THEN 1 ELSE 0)
  <2>1. IsFiniteSet(InFlight(x))
    BY ResourceAllocatorAssumption, FS_Subset DEF InFlight
  <2>2. InFlight(x)' \ {t} = InFlight(x) \ {t}
    BY DEF InFlight, OtherCallsKept
  <2>3. QED
    BY <2>1, <2>2, DifferInOne
<1>2. /\ A \in Nat /\ A' \in Nat
      /\ A' = A + (IF a \in AllocsIn(x)' THEN 1 ELSE 0) - (IF a \in AllocsIn(x) THEN 1 ELSE 0)
  <2>1. IsFiniteSet(AllocsIn(x))
    BY ResourceAllocatorAssumption, FS_Subset DEF AllocsIn
  <2>2. AllocsIn(x)' \ {a} = AllocsIn(x) \ {a}
    BY DEF AllocsIn, OtherAllocsKept
  <2>3. QED
    BY <2>1, <2>2, DifferInOne
<1>3. Users(x) = A + F /\ Users(x)' = A' + F'
  BY DEF Users
<1> HIDE DEF A, F
<1>4. QED
  BY <1>1, <1>2, <1>3 DEF Taken

(* A heap with a user exists and is in no pool.                            *)
LEMMA UsedHeapExists ==
  ASSUME TypeOK, NEW h \in HeapIds, BlocksOK(h), AllocsIn(h) # {} \/ InFlight(h) # {}
  PROVE  /\ Users(h) \in Nat /\ Users(h) > 0
         /\ heaps[h] \in Heap /\ heaps[h].blocks = Users(h) /\ ~heaps[h].pooled
<1>1. IsFiniteSet(AllocsIn(h)) /\ IsFiniteSet(InFlight(h))
  BY ResourceAllocatorAssumption, FS_Subset DEF AllocsIn, InFlight
<1>2. /\ Cardinality(AllocsIn(h)) \in Nat /\ Cardinality(InFlight(h)) \in Nat
      /\ Cardinality(AllocsIn(h)) = 0 <=> AllocsIn(h) = {}
      /\ Cardinality(InFlight(h)) = 0 <=> InFlight(h) = {}
  BY <1>1, FS_CardinalityType, FS_EmptySet
<1>3. Users(h) \in Nat /\ Users(h) > 0
  BY <1>2 DEF Users
<1>4. QED
  BY <1>3 DEF BlocksOK, TypeOK

(* The heap of an allocation, and the heap that a call holds a block of.   *)
LEMMA HeapOfAlloc ==
  ASSUME RaInv, NEW a \in AllocIds, allocs[a] # NoAlloc
  PROVE  /\ allocs[a] \in Alloc /\ allocs[a].heap \in HeapIds /\ a \in AllocsIn(allocs[a].heap)
         /\ heaps[allocs[a].heap] \in Heap /\ heaps[allocs[a].heap] # NoHeap
         /\ heaps[allocs[a].heap].blocks >= 1 /\ ~heaps[allocs[a].heap].pooled
         /\ heaps[allocs[a].heap].blocks = Users(allocs[a].heap)
<1>1. allocs[a] \in Alloc /\ allocs[a].heap \in HeapIds /\ a \in AllocsIn(allocs[a].heap)
  BY DEF RaInv, TypeOK, Alloc, AllocsIn
<1>2. PICK h \in HeapIds : h = allocs[a].heap
  BY <1>1
<1>3. TypeOK /\ BlocksOK(h) /\ AllocsIn(h) # {}
  BY <1>1, <1>2 DEF RaInv, BlocksInv
<1>4. /\ Users(h) \in Nat /\ Users(h) > 0
      /\ heaps[h] \in Heap /\ heaps[h].blocks = Users(h) /\ ~heaps[h].pooled
  BY <1>3, UsedHeapExists
<1>5. heaps[h] # NoHeap
  BY <1>4 DEF Heap, NoHeap, Attempts, Chains, Own
<1>6. QED
  BY <1>1, <1>2, <1>4, <1>5

LEMMA HeapOfCall ==
  ASSUME RaInv, NEW t \in Threads, call[t].pc \in Holding
  PROVE  /\ call[t] \in Call /\ call[t].heap \in HeapIds /\ t \in InFlight(call[t].heap)
         /\ heaps[call[t].heap] \in Heap /\ heaps[call[t].heap] # NoHeap
         /\ heaps[call[t].heap].chain \in Chains
         /\ heaps[call[t].heap].blocks >= 1 /\ ~heaps[call[t].heap].pooled
         /\ heaps[call[t].heap].blocks = Users(call[t].heap)
<1>1. call[t] \in Call /\ call[t].heap \in HeapIds /\ t \in InFlight(call[t].heap)
  BY DEF RaInv, TypeOK, CallInv, CallOK, InFlight, Holding, Idle
<1>2. PICK h \in HeapIds : h = call[t].heap
  BY <1>1
<1>3. TypeOK /\ BlocksOK(h) /\ InFlight(h) # {}
  BY <1>1, <1>2 DEF RaInv, BlocksInv
<1>4. /\ Users(h) \in Nat /\ Users(h) > 0
      /\ heaps[h] \in Heap /\ heaps[h].blocks = Users(h) /\ ~heaps[h].pooled
  BY <1>3, UsedHeapExists
<1>5. heaps[h] # NoHeap
  BY <1>4 DEF Heap, NoHeap, Attempts, Chains, Own
<1>6. heaps[h].chain \in Chains
  BY <1>2 DEF RaInv, CallInv, CallOK
<1>7. QED
  BY <1>1, <1>2, <1>4, <1>5, <1>6

(* Nobody uses a heap that is released.                                    *)
LEMMA ReleasedHeapUnused ==
  ASSUME NEW x, Users(x)' = 0
  PROVE  AllocsIn(x)' = {} /\ InFlight(x)' = {}
<1>1. IsFiniteSet(AllocsIn(x)') /\ IsFiniteSet(InFlight(x)')
  BY ResourceAllocatorAssumption, FS_Subset DEF AllocsIn, InFlight
<1>2. /\ Cardinality(AllocsIn(x)') \in Nat /\ Cardinality(InFlight(x)') \in Nat
      /\ Cardinality(AllocsIn(x)') = 0 <=> AllocsIn(x)' = {}
      /\ Cardinality(InFlight(x)') = 0 <=> InFlight(x)' = {}
  BY <1>1, FS_CardinalityType, FS_EmptySet
<1>3. QED
  BY <1>2 DEF Users

(* Heaps that a step does not release keep their chain.                    *)
ChainsKept ==
    \A x \in HeapIds :
      heaps[x] # NoHeap /\ heaps'[x] # NoHeap => heaps'[x].chain = heaps[x].chain

(* A call that the step is not about is still right.                       *)
LEMMA CallKept ==
  ASSUME RaInv, NEW u \in Threads, call'[u] = call[u], UNCHANGED config, BlocksInv',
         ChainsKept,
         call[u].pc \in Owning => allocs'[call[u].alloc] = allocs[call[u].alloc]
  PROVE  CallOK(u)'
<1>1. CallOK(u)
  BY DEF RaInv, CallInv
<1>2. ASSUME call[u].pc \in Holding
      PROVE  heaps'[call[u].heap].chain = heaps[call[u].heap].chain
  <2>1. PICK x \in HeapIds : x = call[u].heap
    BY <1>1, <1>2 DEF CallOK
  <2>2. heaps[x] # NoHeap
    BY <1>2, <2>1, HeapOfCall
  <2>3. u \in InFlight(x)'
    BY <1>2, <2>1 DEF InFlight, Holding
  <2>4. heaps'[x] # NoHeap
    <3> SUFFICES ASSUME heaps'[x] = NoHeap PROVE FALSE
      OBVIOUS
    <3>1. Users(x)' = 0
      BY DEF BlocksInv, BlocksOK, NoHeap
    <3>2. QED
      BY <2>3, <3>1, ReleasedHeapUnused
  <2>5. QED
    BY <2>1, <2>2, <2>4 DEF ChainsKept
<1>3. ASSUME call[u].pc = "created"
      PROVE  heaps'[allocs[call[u].alloc].heap].chain = heaps[allocs[call[u].alloc].heap].chain
  <2>1. PICK b \in AllocIds : b = call[u].alloc /\ allocs[b] # NoAlloc /\ allocs'[b] = allocs[b]
    BY <1>1, <1>3 DEF CallOK, Owning
  <2>2. PICK x \in HeapIds : x = allocs[b].heap /\ heaps[x] # NoHeap
    BY <2>1, HeapOfAlloc
  <2>3. b \in AllocsIn(x)'
    BY <2>1, <2>2 DEF AllocsIn
  <2>4. heaps'[x] # NoHeap
    <3> SUFFICES ASSUME heaps'[x] = NoHeap PROVE FALSE
      OBVIOUS
    <3>1. Users(x)' = 0
      BY DEF BlocksInv, BlocksOK, NoHeap
    <3>2. QED
      BY <2>3, <3>1, ReleasedHeapUnused
  <2>5. QED
    BY <2>1, <2>2, <2>4 DEF ChainsKept
<1>4. QED
  BY <1>1, <1>2, <1>3 DEF CallOK, Owning, Holding, Requests, Attempts, Chains, NoAlloc

(* An allocation that the step is not about still has its heap.            *)
LEMMA AllocKept ==
  ASSUME RaInv, NEW b \in AllocIds, allocs'[b] = allocs[b], live'[b] = live[b], BlocksInv',
         ChainsKept
  PROVE  AllocOK(b)'
<1> SUFFICES ASSUME allocs[b] # NoAlloc PROVE AllocOK(b)'
  BY DEF AllocOK, NoAlloc
<1>1. PICK x \in HeapIds : x = allocs[b].heap /\ heaps[x] # NoHeap
  BY HeapOfAlloc
<1>2. b \in AllocsIn(x)'
  BY <1>1 DEF AllocsIn
<1>3. heaps'[x] # NoHeap
  <2> SUFFICES ASSUME heaps'[x] = NoHeap PROVE FALSE
    OBVIOUS
  <2>1. Users(x)' = 0
    BY DEF BlocksInv, BlocksOK, NoHeap
  <2>2. QED
    BY <1>2, <2>1, ReleasedHeapUnused
<1>4. heaps'[x].chain = heaps[x].chain
  BY <1>1, <1>3 DEF ChainsKept
<1>5. AllocOK(b)
  BY DEF RaInv, AllocInv
<1>6. QED
  BY <1>1, <1>4, <1>5 DEF AllocOK, CameFrom, OwnerOf, Own, NoAlloc

(* A heap that the step is not about keeps its users.                      *)
LEMMA BlocksKept ==
  ASSUME NEW x, BlocksOK(x), heaps'[x] = heaps[x], Users(x)' = Users(x)
  PROVE  BlocksOK(x)'
BY DEF BlocksOK, NoHeap, Own

(* The step of thread t on heap h and allocation a preserves the invariant *)
(* if it does for what the step is about.                                  *)
LEMMA StepKept ==
  ASSUME RaInv, NEW t \in Threads, NEW h, NEW a, TypeOK', UNCHANGED config,
         OtherCallsKept(t), OtherAllocsKept(a), OtherHeapsKept(h),
         \A b \in AllocIds \ {a} : live'[b] = live[b],
         CallOK(t)', DebugOK(t)',
         a \in AllocIds => AllocOK(a)' /\ LiveOK(a)',
         h \in HeapIds => BlocksOK(h)',
         h \in HeapIds /\ heaps[h] # NoHeap /\ heaps'[h] # NoHeap
           => heaps'[h].chain = heaps[h].chain,
         \A x \in HeapIds \ {h} : Taken(x, t, a) = 0,
         \A u \in Threads \ {t} : call[u].pc \in Owning => call[u].alloc # a,
         call'[t].pc \in Owning => \/ call'[t].alloc = a
                                   \/ call[t].pc \in Owning /\ call'[t].alloc = call[t].alloc,
         debugMutex' = debugMutex \/ {debugMutex, debugMutex'} \subseteq {t, NoThread},
         debugMutex = t /\ call[t].alloc # a => debugMutex' = t /\ call'[t].alloc = call[t].alloc,
         a \in AllocIds /\ IsDebug(a)' => debugMutex \in {t, NoThread} \/ IsDebug(a)
  PROVE  RaInv'
<1>1. BlocksInv'
  <2> SUFFICES ASSUME NEW x \in HeapIds \ {h} PROVE BlocksOK(x)'
    BY DEF BlocksInv
  <2>1. Users(x) \in Nat /\ Users(x)' = Users(x) + Taken(x, t, a)
    BY UsersChange
  <2>2. Users(x)' = Users(x)
    BY <2>1
  <2>3. BlocksOK(x) /\ heaps'[x] = heaps[x]
    BY DEF RaInv, BlocksInv, OtherHeapsKept
  <2>4. QED
    BY <2>2, <2>3, BlocksKept
<1>2. ChainsKept
  BY DEF ChainsKept, OtherHeapsKept
<1>3. CallInv'
  <2> SUFFICES ASSUME NEW u \in Threads \ {t} PROVE CallOK(u)'
    BY DEF CallInv
  <2>1. call'[u] = call[u]
    BY DEF OtherCallsKept
  <2>2. call[u].pc \in Owning => allocs'[call[u].alloc] = allocs[call[u].alloc]
    BY DEF OtherAllocsKept, RaInv, CallInv, CallOK
  <2>3. QED
    BY <1>1, <1>2, <2>1, <2>2, CallKept
<1>4. OneOwner'
  BY DEF OneOwner, OtherCallsKept, RaInv
<1>5. AllocInv'
  <2> SUFFICES ASSUME NEW b \in AllocIds \ {a} PROVE AllocOK(b)'
    BY DEF AllocInv
  <2>1. allocs'[b] = allocs[b] /\ live'[b] = live[b]
    BY DEF OtherAllocsKept
  <2>2. QED
    BY <1>1, <1>2, <2>1, AllocKept
<1>6. NoThread \notin Threads
  BY ResourceAllocatorAssumption DEF NoThread
<1>7. LiveInv'
  <2> SUFFICES ASSUME NEW b \in AllocIds \ {a} PROVE LiveOK(b)'
    BY DEF LiveInv
  <2>1. allocs'[b] = allocs[b] /\ live'[b] = live[b] /\ LiveOK(b)
    BY DEF OtherAllocsKept, RaInv, LiveInv
  <2>2. ASSUME debugMutex \in Threads, call[debugMutex].alloc = b
        PROVE  debugMutex' \in Threads /\ call'[debugMutex'].alloc = b
    BY <1>6, <2>2 DEF OtherCallsKept
  <2>3. QED
    BY <2>1, <2>2 DEF LiveOK, IsDebug, NoAlloc, NoEntry
<1>8. DebugInv'
  <2>1. debugMutex' \in Threads \cup {NoThread}
    BY DEF RaInv, DebugInv
  <2>2. ASSUME NEW u \in Threads \ {t} PROVE DebugOK(u)'
    <3>1. DebugOK(u) /\ call'[u] = call[u] /\ (debugMutex' = u <=> debugMutex = u)
      BY <1>6 DEF RaInv, DebugInv, OtherCallsKept
    <3>2. ASSUME debugMutex = u PROVE ~IsDebug(call[u].alloc)'
      <4>1. ~IsDebug(call[u].alloc) /\ call[u].alloc \in AllocIds
        BY <3>1, <3>2 DEF DebugOK
      <4>2. CASE call[u].alloc = a
        BY <1>6, <3>1, <3>2, <4>1, <4>2
      <4>3. CASE call[u].alloc # a
        BY <3>1, <4>1, <4>3 DEF OtherAllocsKept, IsDebug, NoAlloc
      <4>4. QED
        BY <4>2, <4>3
    <3>3. QED
      BY <3>1, <3>2 DEF DebugOK
  <2>3. QED
    BY <2>1, <2>2 DEF DebugInv
<1>9. QED
  BY <1>1, <1>3, <1>4, <1>5, <1>7, <1>8 DEF RaInv

-----------------------------------------------------------------------------
LEMMA SomethingElse == ASSUME NEW S PROVE \E x : x \notin S
<1>1. {x \in S : x \notin x} \notin S
  OBVIOUS
<1>2. QED
  BY <1>1

(* What the invariant says of a call that is neither holding a block nor   *)
(* releasing an allocation.                                                *)
LEMMA NotReleasing ==
  ASSUME RaInv, NEW t \in Threads, call[t].pc \notin {"release", "erase"}
  PROVE  debugMutex # t
BY DEF RaInv, DebugInv, DebugOK

(* A step that changes no allocation, and at most heap h.                  *)
LEMMA HeapStep ==
  ASSUME RaInv, NEW t \in Threads, NEW h, UNCHANGED <<config, allocs, live, debugMutex>>,
         heaps' \in [HeapIds -> Heap \cup {NoHeap}], call' \in [Threads -> Call \cup {Idle}],
         OtherCallsKept(t), OtherHeapsKept(h), CallOK(t)',
         h \in HeapIds => BlocksOK(h)',
         h \in HeapIds /\ heaps[h] # NoHeap /\ heaps'[h] # NoHeap
           => heaps'[h].chain = heaps[h].chain,
         \A x \in HeapIds \ {h} : t \in InFlight(x)' <=> t \in InFlight(x),
         call'[t] = call[t] \/ (debugMutex # t /\ call'[t].pc # "erase"),
         call'[t].pc \in Owning => call[t].pc \in Owning /\ call'[t].alloc = call[t].alloc
  PROVE  RaInv'
<1>1. TypeOK'
  BY DEF RaInv, TypeOK
<1>2. PICK a : a \notin AllocIds
  BY SomethingElse
<1>3. DebugOK(t)'
  BY DEF RaInv, DebugInv, DebugOK, IsDebug, NoAlloc
<1>4. ASSUME NEW x \in HeapIds \ {h} PROVE Taken(x, t, a) = 0
  <2>1. a \notin AllocsIn(x) /\ a \notin AllocsIn(x)'
    BY <1>2 DEF AllocsIn
  <2>2. QED
    BY <2>1 DEF Taken
<1>5. /\ OtherAllocsKept(a) /\ \A b \in AllocIds \ {a} : live'[b] = live[b]
      /\ \A u \in Threads \ {t} : call[u].pc \in Owning => call[u].alloc # a
  BY <1>2 DEF OtherAllocsKept, RaInv, CallInv, CallOK
<1>6. debugMutex = t /\ call[t].alloc # a => debugMutex' = t /\ call'[t].alloc = call[t].alloc
  OBVIOUS
<1>7. QED
  BY <1>1, <1>2, <1>3, <1>4, <1>5, <1>6, StepKept

(* A step that changes nothing but a call.                                 *)
LEMMA CallStep ==
  ASSUME RaInv, NEW t \in Threads, UNCHANGED <<config, heaps, allocs, live, debugMutex>>,
         call' \in [Threads -> Call \cup {Idle}], OtherCallsKept(t), CallOK(t)',
         call[t].pc \notin Holding, call'[t].pc \notin Holding,
         debugMutex # t, call'[t].pc # "erase",
         call'[t].pc \in Owning => call[t].pc \in Owning /\ call'[t].alloc = call[t].alloc
  PROVE  RaInv'
<1>1. PICK h : h \notin HeapIds
  BY SomethingElse
<1>2. OtherHeapsKept(h) /\ heaps' \in [HeapIds -> Heap \cup {NoHeap}]
  BY DEF OtherHeapsKept, RaInv, TypeOK
<1>3. \A x \in HeapIds \ {h} : t \in InFlight(x)' <=> t \in InFlight(x)
  BY DEF InFlight, Holding
<1>4. QED
  BY <1>1, <1>2, <1>3, HeapStep

(* The requests of the configuration.                                      *)
LEMMA RequestType ==
  ASSUME config \in Configs, NEW r \in config.requests
  PROVE  /\ r \in Requests /\ r.attempts \in Seq(Attempts)
         /\ r.heapSize \in [Attempts -> Nat]
BY ResourceAllocatorAssumption DEF IsConfig, Requests

LEMMA CreateStep ==
  ASSUME RaInv, NEW t \in Threads, CreateResource(t)
  PROVE  RaInv'
<1>1. PICK r \in config.requests :
        call' = [call EXCEPT ![t] = NewCall("try", r, r.attempts, "none")]
  BY DEF CreateResource
<1>2. UNCHANGED <<config, heaps, allocs, live, debugMutex>> /\ call[t] = Idle /\ t \in config.threads
  BY DEF CreateResource
<1>3. r \in Requests /\ r.attempts \in Seq(Attempts)
  BY RequestType DEF RaInv, TypeOK
<1>4. /\ call'[t] = NewCall("try", r, r.attempts, "none") /\ OtherCallsKept(t)
      /\ NewCall("try", r, r.attempts, "none") \in Call
      /\ call' \in [Threads -> Call \cup {Idle}]
  BY <1>1, <1>3 DEF NewCall, Call, RaInv, TypeOK, OtherCallsKept
<1>5. CallOK(t)'
  BY <1>2, <1>3, <1>4 DEF CallOK, NewCall, Holding, Owning, Requests, Attempts, Chains
<1>6. debugMutex # t
  BY <1>2, NotReleasing DEF Idle
<1>7. QED
  BY <1>2, <1>4, <1>5, <1>6, CallStep DEF NewCall, Holding, Owning, Idle

(* The calls of a step that goes on to the next attempt.                   *)
LEMMA NextAttemptCall ==
  ASSUME RaInv, NEW t \in Threads, call[t] \in Call, call[t].attempts # <<>>,
         call[t].request \in Requests, t \in config.threads, UNCHANGED config, NextAttempt(t)
  PROVE  /\ call' \in [Threads -> Call \cup {Idle}] /\ OtherCallsKept(t)
         /\ call'[t].pc = "try" /\ CallOK(t)'
<1>1. /\ call' = [call EXCEPT ![t].pc = "try", ![t].attempts = Tail(call[t].attempts)]
      /\ Tail(call[t].attempts) \in Seq(Attempts)
  BY DEF NextAttempt, Call
<1>2. /\ call'[t] = [call[t] EXCEPT !.pc = "try", !.attempts = Tail(call[t].attempts)]
      /\ call'[t] \in Call /\ call'[t].request = call[t].request /\ call'[t].pc = "try"
  BY <1>1 DEF Call, RaInv, TypeOK
<1>3. call' \in [Threads -> Call \cup {Idle}] /\ OtherCallsKept(t)
  BY <1>1, <1>2 DEF RaInv, TypeOK, OtherCallsKept
<1>4. CallOK(t)'
  BY <1>2 DEF CallOK, Holding, Owning, Requests, Attempts, Chains
<1>5. QED
  BY <1>2, <1>3, <1>4

LEMMA TryFailsStep ==
  ASSUME RaInv, NEW t \in Threads, TryAllocateFails(t)
  PROVE  RaInv'
<1>1. /\ UNCHANGED <<config, heaps, allocs, live, debugMutex>> /\ call[t].pc = "try"
      /\ call[t].attempts # <<>> /\ NextAttempt(t)
  BY DEF TryAllocateFails, IsTrying
<1>2. call[t] \in Call /\ call[t].request \in Requests /\ t \in config.threads
  BY <1>1 DEF RaInv, TypeOK, Idle, CallInv, CallOK
<1>3. /\ call' \in [Threads -> Call \cup {Idle}] /\ OtherCallsKept(t)
      /\ call'[t].pc = "try" /\ CallOK(t)'
  BY <1>1, <1>2, NextAttemptCall
<1>4. debugMutex # t
  BY <1>1, NotReleasing
<1>5. QED
  BY <1>1, <1>3, <1>4, CallStep DEF Holding, Owning

(* The call returns.                                                       *)
LEMMA ReturnCall ==
  ASSUME RaInv, NEW t \in Threads, Return(t)
  PROVE  /\ call' \in [Threads -> Call \cup {Idle}] /\ OtherCallsKept(t)
         /\ call'[t] = Idle /\ call'[t].pc = "idle" /\ CallOK(t)'
<1>1. /\ call'[t] = Idle /\ OtherCallsKept(t) /\ call' \in [Threads -> Call \cup {Idle}]
  BY DEF Return, RaInv, TypeOK, OtherCallsKept
<1>2. QED
  BY <1>1 DEF CallOK, Idle, Holding, Owning

LEMMA CreateFailsStep ==
  ASSUME RaInv, NEW t \in Threads, CreateFails(t)
  PROVE  RaInv'
<1>1. /\ UNCHANGED <<config, heaps, allocs, live, debugMutex>> /\ call[t].pc = "try"
      /\ Return(t)
  BY DEF CreateFails, IsTrying
<1>2. /\ call' \in [Threads -> Call \cup {Idle}] /\ OtherCallsKept(t)
      /\ call'[t].pc = "idle" /\ CallOK(t)'
  BY <1>1, ReturnCall
<1>3. debugMutex # t
  BY <1>1, NotReleasing
<1>4. QED
  BY <1>1, <1>2, <1>3, CallStep DEF Holding, Owning

(* The fields of a call that moves on.                                     *)
LEMMA StepCall ==
  ASSUME RaInv, NEW t \in Threads, call[t] \in Call,
         NEW pc \in {"try", "erase"} \cup Holding \cup Owning, Step(t, pc)
  PROVE  /\ call' \in [Threads -> Call \cup {Idle}] /\ OtherCallsKept(t)
         /\ call'[t] = [call[t] EXCEPT !.pc = pc] /\ call'[t] \in Call
         /\ call'[t].pc = pc /\ call'[t].request = call[t].request
         /\ call'[t].attempts = call[t].attempts
         /\ call'[t].heap = call[t].heap /\ call'[t].alloc = call[t].alloc
<1>1. call' = [call EXCEPT ![t] = [call[t] EXCEPT !.pc = pc]]
  BY DEF Step, RaInv, TypeOK
<1>2. call'[t] = [call[t] EXCEPT !.pc = pc] /\ call'[t] \in Call
  BY <1>1 DEF RaInv, TypeOK, Call
<1>3. call' \in [Threads -> Call \cup {Idle}] /\ OtherCallsKept(t)
  BY <1>1, <1>2 DEF RaInv, TypeOK, OtherCallsKept
<1>4. QED
  BY <1>2, <1>3 DEF Call

LEMMA DiscardStep ==
  ASSUME RaInv, NEW t \in Threads, NameFails(t) \/ Discard(t)
  PROVE  RaInv'
<1>1. /\ UNCHANGED <<config, heaps, allocs, live, debugMutex>>
      /\ call[t].pc \in {"created", "return"} /\ Step(t, "release")
  BY DEF NameFails, Discard, HasCreated
<1>2. call[t] \in Call /\ CallOK(t)
  BY <1>1 DEF RaInv, TypeOK, Idle, CallInv
<1>3. /\ call' \in [Threads -> Call \cup {Idle}] /\ OtherCallsKept(t)
      /\ call'[t].pc = "release" /\ call'[t].alloc = call[t].alloc
  BY <1>1, <1>2, StepCall DEF Owning
<1>4. CallOK(t)'
  BY <1>1, <1>2, <1>3 DEF CallOK, Holding, Owning, NoAlloc
<1>5. debugMutex # t
  BY <1>1, NotReleasing
<1>6. QED
  BY <1>1, <1>3, <1>4, <1>5, CallStep DEF Holding, Owning

-----------------------------------------------------------------------------
(* The users of a heap that no allocation comes to or leaves.              *)
LEMMA HoldersChange ==
  ASSUME NEW x, NEW t, OtherCallsKept(t), UNCHANGED allocs
  PROVE  /\ Users(x) \in Nat /\ Users(x)' \in Nat
         /\ Users(x)' = Users(x) + (IF t \in InFlight(x)' THEN 1 ELSE 0)
                                 - (IF t \in InFlight(x) THEN 1 ELSE 0)
<1>1. PICK a : a \notin AllocIds
  BY SomethingElse
<1>2. OtherAllocsKept(a) /\ a \notin AllocsIn(x) /\ a \notin AllocsIn(x)'
  BY <1>1 DEF OtherAllocsKept, AllocsIn
<1>3. QED
  BY <1>2, UsersChange DEF Taken

(* Which call holds a block of a heap.                                     *)
LEMMA HoldsBlock ==
  ASSUME NEW t \in Threads, NEW x
  PROVE  /\ t \in InFlight(x) <=> call[t].pc \in Holding /\ call[t].heap = x
         /\ t \in InFlight(x)' <=> call'[t].pc \in Holding /\ call'[t].heap = x
BY DEF InFlight, Holding

(* The call of a thread that was given a block.                            *)
LEMMA PlaceCall ==
  ASSUME RaInv, NEW t \in Threads, call[t] \in Call, NEW h \in HeapIds, Place(t, h)
  PROVE  /\ call' \in [Threads -> Call \cup {Idle}] /\ OtherCallsKept(t)
         /\ call'[t].pc = "place" /\ call'[t].request = call[t].request
         /\ call'[t].attempts = call[t].attempts /\ call'[t].heap = h
<1>1. call' = [call EXCEPT ![t] = [call[t] EXCEPT !.pc = "place", !.heap = h]]
  BY DEF Place, RaInv, TypeOK
<1>2. call'[t] = [call[t] EXCEPT !.pc = "place", !.heap = h] /\ call'[t] \in Call
  BY <1>1 DEF RaInv, TypeOK, Call, Holding
<1>3. call' \in [Threads -> Call \cup {Idle}] /\ OtherCallsKept(t)
  BY <1>1, <1>2 DEF RaInv, TypeOK, OtherCallsKept
<1>4. QED
  BY <1>2, <1>3 DEF Call

LEMMA ReuseStep ==
  ASSUME RaInv, NEW t \in Threads, IsTrying(t, Chains), NEW h \in HeapIds,
         heaps[h].chain = Head(call[t].attempts),
         heaps' = [heaps EXCEPT ![h].blocks = @ + 1, ![h].pooled = FALSE],
         Place(t, h), UNCHANGED <<config, allocs, live, debugMutex>>
  PROVE  RaInv'
<1>1. /\ call[t].pc = "try" /\ call[t].attempts # <<>> /\ heaps[h].chain \in Chains
  BY DEF IsTrying
<1>2. /\ call[t] \in Call /\ call[t].request \in Requests /\ t \in config.threads
  BY <1>1 DEF RaInv, TypeOK, Idle, CallInv, CallOK
<1>3. /\ call' \in [Threads -> Call \cup {Idle}] /\ OtherCallsKept(t)
      /\ call'[t].pc = "place" /\ call'[t].request = call[t].request
      /\ call'[t].attempts = call[t].attempts /\ call'[t].heap = h
  BY <1>2, PlaceCall
<1>4. heaps[h] \in Heap /\ heaps[h] # NoHeap
  BY <1>1 DEF RaInv, TypeOK, NoHeap, Chains
<1>5. /\ heaps' = [heaps EXCEPT ![h] = [heaps[h] EXCEPT !.blocks = heaps[h].blocks + 1,
                                                         !.pooled = FALSE]]
  BY <1>4 DEF RaInv, TypeOK
<1>6. /\ heaps'[h] \in Heap /\ heaps'[h].blocks = heaps[h].blocks + 1
      /\ heaps'[h].pooled = FALSE /\ heaps'[h].chain = heaps[h].chain
      /\ heaps[h].blocks \in Nat
  BY <1>4, <1>5 DEF Heap, RaInv, TypeOK
<1>7. /\ heaps' \in [HeapIds -> Heap \cup {NoHeap}] /\ OtherHeapsKept(h)
  BY <1>5, <1>6 DEF RaInv, TypeOK, OtherHeapsKept
<1>8. CallOK(t)'
  BY <1>1, <1>2, <1>3, <1>6 DEF CallOK, Holding, Owning, Requests, Attempts, Chains
<1>9. BlocksOK(h)'
  <2>1. t \notin InFlight(h) /\ t \in InFlight(h)'
    BY <1>1, <1>3, HoldsBlock DEF Holding
  <2>2. Users(h) \in Nat /\ Users(h)' = Users(h) + 1
    BY <1>3, <2>1, HoldersChange
  <2>3. BlocksOK(h)
    BY DEF RaInv, BlocksInv
  <2>4. heaps[h].blocks = Users(h)
    BY <1>4, <2>3 DEF BlocksOK
  <2>5. heaps'[h].chain \notin Own
    BY <1>1, <1>6 DEF Chains, Own
  <2>6. QED
    BY <1>6, <2>2, <2>4, <2>5 DEF BlocksOK, Heap, NoHeap, Attempts, Chains, Own
<1>10. \A x \in HeapIds \ {h} : t \in InFlight(x)' <=> t \in InFlight(x)
  BY <1>1, <1>3, HoldsBlock DEF Holding
<1>11. debugMutex # t
  BY <1>1, NotReleasing
<1>12. QED
  BY <1>3, <1>6, <1>7, <1>8, <1>9, <1>10, <1>11, HeapStep DEF Owning

(* A new heap is nobody's.                                                 *)
LEMMA NewHeapUnused ==
  ASSUME RaInv, HasFreeHeapId
  PROVE  /\ FreeHeapId \in HeapIds /\ heaps[FreeHeapId] = NoHeap /\ Users(FreeHeapId) = 0
<1>1. FreeHeapId \in HeapIds /\ heaps[FreeHeapId] = NoHeap
  BY DEF HasFreeHeapId, FreeHeapId, IsFree
<1>2. QED
  BY <1>1 DEF RaInv, BlocksInv, BlocksOK

(* The size that an attempt asks for.                                      *)
LEMMA HeapSizeType ==
  ASSUME NEW t, call[t] \in Call, call[t].attempts # <<>>, call[t].request \in Requests
  PROVE  HeapSize(t) \in Nat /\ Head(call[t].attempts) \in Attempts
BY DEF HeapSize, Call, Requests

LEMMA NewHeapStep ==
  ASSUME RaInv, NEW t \in Threads, IsTrying(t, Chains), HasFreeHeapId,
         heaps' = [heaps EXCEPT ![FreeHeapId] = NewHeap(Head(call[t].attempts), HeapSize(t), 1)],
         Place(t, FreeHeapId), UNCHANGED <<config, allocs, live, debugMutex>>
  PROVE  RaInv'
<1>1. /\ call[t].pc = "try" /\ call[t].attempts # <<>> /\ Head(call[t].attempts) \in Chains
  BY DEF IsTrying
<1>2. /\ call[t] \in Call /\ call[t].request \in Requests /\ t \in config.threads
  BY <1>1 DEF RaInv, TypeOK, Idle, CallInv, CallOK
<1>3. PICK h \in HeapIds : h = FreeHeapId /\ heaps[h] = NoHeap /\ Users(h) = 0
  BY NewHeapUnused
<1>4. /\ call' \in [Threads -> Call \cup {Idle}] /\ OtherCallsKept(t)
      /\ call'[t].pc = "place" /\ call'[t].request = call[t].request
      /\ call'[t].attempts = call[t].attempts /\ call'[t].heap = h
  BY <1>2, <1>3, PlaceCall
<1>5. HeapSize(t) \in Nat
  BY <1>1, <1>2, HeapSizeType
<1>6. /\ heaps'[h] = NewHeap(Head(call[t].attempts), HeapSize(t), 1)
      /\ heaps'[h] \in Heap /\ heaps'[h].blocks = 1 /\ heaps'[h].pooled = FALSE
      /\ heaps'[h].chain \in Chains
  BY <1>1, <1>3, <1>5 DEF NewHeap, Heap, RaInv, TypeOK, Attempts
<1>7. /\ heaps' \in [HeapIds -> Heap \cup {NoHeap}] /\ OtherHeapsKept(h)
  BY <1>3, <1>6 DEF RaInv, TypeOK, OtherHeapsKept
<1>8. CallOK(t)'
  BY <1>1, <1>2, <1>4, <1>6 DEF CallOK, Holding, Owning, Requests, Attempts, Chains
<1>9. BlocksOK(h)'
  <2>1. t \notin InFlight(h) /\ t \in InFlight(h)'
    BY <1>1, <1>4, HoldsBlock DEF Holding
  <2>2. Users(h)' = 1
    BY <1>3, <1>4, <2>1, HoldersChange
  <2>3. QED
    BY <1>6, <2>2 DEF BlocksOK, Heap, NoHeap, Attempts, Chains, Own
<1>10. \A x \in HeapIds \ {h} : t \in InFlight(x)' <=> t \in InFlight(x)
  BY <1>1, <1>4, HoldsBlock DEF Holding
<1>11. debugMutex # t
  BY <1>1, NotReleasing
<1>12. QED
  BY <1>3, <1>4, <1>7, <1>8, <1>9, <1>10, <1>11, HeapStep DEF Owning

LEMMA TryAllocateStep ==
  ASSUME RaInv, NEW t \in Threads, TryAllocateMemory(t)
  PROVE  RaInv'
<1>1. /\ IsTrying(t, Chains) /\ UNCHANGED <<config, allocs, live, debugMutex>>
      /\ \/ \E h \in HeapIds :
              /\ heaps[h].chain = Head(call[t].attempts)
              /\ heaps' = [heaps EXCEPT ![h].blocks = @ + 1, ![h].pooled = FALSE]
              /\ Place(t, h)
         \/ /\ HasFreeHeapId
            /\ heaps' = [heaps EXCEPT ![FreeHeapId] =
                                        NewHeap(Head(call[t].attempts), HeapSize(t), 1)]
            /\ Place(t, FreeHeapId)
  BY DEF TryAllocateMemory
<1>2. QED
  BY <1>1, ReuseStep, NewHeapStep

(* A heap that only was locked, unlocked or evicted.                       *)
SameBlocks(h) ==
    /\ heaps'[h] \in Heap /\ heaps'[h].chain = heaps[h].chain /\ heaps'[h].size = heaps[h].size
    /\ heaps'[h].blocks = heaps[h].blocks /\ heaps'[h].pooled = heaps[h].pooled

LEMMA SameBlocksKept ==
  ASSUME NEW h, BlocksOK(h), heaps[h] # NoHeap, SameBlocks(h), Users(h)' = Users(h)
  PROVE  BlocksOK(h)'
BY DEF BlocksOK, SameBlocks, Heap, NoHeap, Attempts, Chains, Own

(* LockHeap and UnlockHeap.                                                *)
LEMMA LockedHeap ==
  ASSUME NEW heap \in Heap
  PROVE  /\ LockHeap(heap) \in Heap /\ LockHeap(heap).chain = heap.chain
         /\ LockHeap(heap).size = heap.size /\ LockHeap(heap).blocks = heap.blocks
         /\ LockHeap(heap).pooled = heap.pooled
         /\ LockHeap(heap).locks = heap.locks + 1 /\ LockHeap(heap).resident
<1>1. LockHeap(heap) = [heap EXCEPT !.locks = heap.locks + 1, !.resident = TRUE]
  BY DEF LockHeap
<1>2. TRUE \in BOOLEAN /\ heap.locks + 1 \in Nat
  BY DEF Heap
<1>3. LockHeap(heap) \in Heap
  BY <1>1, <1>2, Zenon DEF Heap
<1>4. QED
  BY <1>1, <1>3 DEF Heap

LEMMA UnlockedHeap ==
  ASSUME NEW heap \in Heap
  PROVE  /\ UnlockHeap(heap) \in Heap /\ UnlockHeap(heap).chain = heap.chain
         /\ UnlockHeap(heap).size = heap.size /\ UnlockHeap(heap).blocks = heap.blocks
         /\ UnlockHeap(heap).pooled = heap.pooled
         /\ UnlockHeap(heap).locks = (IF heap.locks > 0 THEN heap.locks - 1 ELSE 0)
         /\ UnlockHeap(heap).resident = heap.resident
BY DEF UnlockHeap, Heap

(* A step that locks, unlocks or evicts a heap and leaves the blocks where *)
(* they are.                                                               *)
LEMMA LockStep ==
  ASSUME RaInv, NEW t \in Threads, NEW h \in HeapIds, heaps[h] # NoHeap, SameBlocks(h),
         OtherHeapsKept(h), heaps' \in [HeapIds -> Heap \cup {NoHeap}],
         UNCHANGED <<config, allocs, live, debugMutex>>,
         call' \in [Threads -> Call \cup {Idle}], OtherCallsKept(t), CallOK(t)',
         \A x \in HeapIds : t \in InFlight(x)' <=> t \in InFlight(x),
         call'[t] = call[t] \/ (debugMutex # t /\ call'[t].pc # "erase"),
         call'[t].pc \in Owning => call[t].pc \in Owning /\ call'[t].alloc = call[t].alloc
  PROVE  RaInv'
<1>1. Users(h)' = Users(h)
  BY HoldersChange
<1>2. BlocksOK(h)'
  BY <1>1, SameBlocksKept DEF RaInv, BlocksInv
<1>3. QED
  BY <1>2, HeapStep DEF SameBlocks

LEMMA LockForPlacingStep ==
  ASSUME RaInv, NEW t \in Threads, LockForPlacing(t)
  PROVE  RaInv'
<1>1. /\ call[t].pc = "place" /\ Step(t, "placing") /\ UNCHANGED <<config, allocs, live, debugMutex>>
      /\ \/ heaps' = [heaps EXCEPT ![call[t].heap] = LockHeap(heaps[call[t].heap])]
         \/ UNCHANGED heaps
  BY DEF LockForPlacing
<1>2. PICK h \in HeapIds : h = call[t].heap /\ heaps[h] \in Heap /\ heaps[h] # NoHeap
                           /\ heaps[h].chain \in Chains
  BY <1>1, HeapOfCall DEF Holding
<1>3. call[t] \in Call /\ CallOK(t)
  BY <1>1 DEF RaInv, TypeOK, Idle, CallInv
<1>4. /\ call' \in [Threads -> Call \cup {Idle}] /\ OtherCallsKept(t)
      /\ call'[t].pc = "placing" /\ call'[t].request = call[t].request
      /\ call'[t].attempts = call[t].attempts /\ call'[t].heap = h
  BY <1>1, <1>2, <1>3, StepCall DEF Holding
<1>5. heaps'[h] \in {heaps[h], LockHeap(heaps[h])} /\ OtherHeapsKept(h)
  BY <1>1, <1>2 DEF RaInv, TypeOK, OtherHeapsKept
<1>6. SameBlocks(h)
  BY <1>2, <1>5, LockedHeap DEF SameBlocks
<1>7. heaps' \in [HeapIds -> Heap \cup {NoHeap}]
  BY <1>1, <1>2, <1>6 DEF RaInv, TypeOK, SameBlocks
<1>8. CallOK(t)'
  BY <1>1, <1>2, <1>3, <1>4, <1>6 DEF CallOK, SameBlocks, Holding, Owning, Requests, Attempts, Chains
<1>9. \A x \in HeapIds : t \in InFlight(x)' <=> t \in InFlight(x)
  BY <1>1, <1>2, <1>4, HoldsBlock DEF Holding
<1>10. debugMutex # t
  BY <1>1, NotReleasing
<1>11. QED
  BY <1>1, <1>2, <1>4, <1>5, <1>6, <1>7, <1>8, <1>9, <1>10, LockStep DEF Owning

LEMMA PlaceFailsStep ==
  ASSUME RaInv, NEW t \in Threads, PlaceFails(t)
  PROVE  RaInv'
<1>1. /\ call[t].pc = "placing" /\ Step(t, "failed") /\ UNCHANGED <<config, allocs, live, debugMutex>>
      /\ heaps' = [heaps EXCEPT ![call[t].heap] = Unlocked(call[t].heap)]
  BY DEF PlaceFails
<1>2. PICK h \in HeapIds : h = call[t].heap /\ heaps[h] \in Heap /\ heaps[h] # NoHeap
                           /\ heaps[h].chain \in Chains
  BY <1>1, HeapOfCall DEF Holding
<1>3. call[t] \in Call /\ CallOK(t)
  BY <1>1 DEF RaInv, TypeOK, Idle, CallInv
<1>4. /\ call' \in [Threads -> Call \cup {Idle}] /\ OtherCallsKept(t)
      /\ call'[t].pc = "failed" /\ call'[t].request = call[t].request
      /\ call'[t].attempts = call[t].attempts /\ call'[t].heap = h
  BY <1>1, <1>2, <1>3, StepCall DEF Holding
<1>5. heaps'[h] \in {heaps[h], UnlockHeap(heaps[h])} /\ OtherHeapsKept(h)
  BY <1>1, <1>2 DEF RaInv, TypeOK, OtherHeapsKept, Unlocked
<1>6. SameBlocks(h)
  BY <1>2, <1>5, UnlockedHeap DEF SameBlocks
<1>7. heaps' \in [HeapIds -> Heap \cup {NoHeap}]
  BY <1>1, <1>2, <1>6 DEF RaInv, TypeOK, SameBlocks
<1>8. CallOK(t)'
  BY <1>1, <1>2, <1>3, <1>4, <1>6 DEF CallOK, SameBlocks, Holding, Owning, Requests, Attempts, Chains
<1>9. \A x \in HeapIds : t \in InFlight(x)' <=> t \in InFlight(x)
  BY <1>1, <1>2, <1>4, HoldsBlock DEF Holding
<1>10. debugMutex # t
  BY <1>1, NotReleasing
<1>11. QED
  BY <1>1, <1>2, <1>4, <1>5, <1>6, <1>7, <1>8, <1>9, <1>10, LockStep DEF Owning

(* A heap whose last block was given back.                                 *)
LEMMA PooledHeap ==
  ASSUME NEW heap \in Heap
  PROVE  LET pooled == [heap EXCEPT !.blocks = 0, !.pooled = TRUE]
         IN  /\ pooled \in Heap /\ pooled.chain = heap.chain /\ pooled.blocks = 0
             /\ pooled.pooled /\ pooled.locks = heap.locks /\ pooled.resident = heap.resident
<1>1. PICK pooled : pooled = [heap EXCEPT !.blocks = 0, !.pooled = TRUE]
  OBVIOUS
<1>2. TRUE \in BOOLEAN /\ 0 \in Nat
  OBVIOUS
<1>3. pooled \in Heap
  BY <1>1, <1>2, Zenon DEF Heap
<1>4. QED
  BY <1>1, <1>3 DEF Heap

(* A block given back, when its heap loses that user.                      *)
LEMMA BlockReturned ==
  ASSUME RaInv, NEW h \in HeapIds, heaps[h] \in Heap, heaps[h].chain \in Chains,
         heaps[h].blocks >= 1, heaps[h].blocks = Users(h), Users(h)' = Users(h) - 1,
         heaps' = [heaps EXCEPT ![h] = DeallocateBlock(h)]
  PROVE  /\ BlocksOK(h)' /\ OtherHeapsKept(h) /\ heaps' \in [HeapIds -> Heap \cup {NoHeap}]
         /\ heaps'[h] # NoHeap =>
              /\ heaps'[h].chain = heaps[h].chain /\ heaps'[h].locks = heaps[h].locks
              /\ heaps'[h].resident = heaps[h].resident
<1>1. heaps'[h] = DeallocateBlock(h) /\ OtherHeapsKept(h)
  BY DEF RaInv, TypeOK, OtherHeapsKept
<1>2. heaps[h].blocks \in Nat /\ heaps[h].chain \notin Own /\ ~heaps[h].pooled
  <2>1. BlocksOK(h) /\ heaps[h] # NoHeap
    BY DEF RaInv, BlocksInv, Chains, NoHeap
  <2>2. QED
    BY <2>1 DEF BlocksOK, Heap, Chains, Own
<1>3. CASE heaps[h].blocks > 1
  <2>1. heaps'[h] = [heaps[h] EXCEPT !.blocks = heaps[h].blocks - 1]
    BY <1>1, <1>3 DEF DeallocateBlock
  <2>2. /\ heaps'[h] \in Heap /\ heaps'[h].blocks = heaps[h].blocks - 1
        /\ heaps'[h].chain = heaps[h].chain /\ heaps'[h].locks = heaps[h].locks
        /\ heaps'[h].resident = heaps[h].resident /\ heaps'[h].pooled = heaps[h].pooled
    BY <1>2, <1>3, <2>1 DEF Heap
  <2>3. BlocksOK(h)'
    BY <1>2, <1>3, <2>2 DEF BlocksOK, Heap, NoHeap, Attempts, Chains, Own
  <2>4. QED
    BY <1>1, <2>2, <2>3 DEF RaInv, TypeOK
<1>4. CASE heaps[h].blocks = 1 /\ config.onDemand
  <2>1. heaps'[h] = NoHeap
    BY <1>1, <1>4 DEF DeallocateBlock
  <2>2. Users(h)' = 0
    BY <1>4
  <2>3. BlocksOK(h)'
    BY <2>1, <2>2 DEF BlocksOK, NoHeap
  <2>4. QED
    BY <1>1, <2>1, <2>3 DEF RaInv, TypeOK
<1>5. CASE heaps[h].blocks = 1 /\ ~config.onDemand
  <2>0. heaps'[h] = [heaps[h] EXCEPT !.blocks = 0, !.pooled = TRUE]
    BY <1>1, <1>5 DEF DeallocateBlock
  <2>1. PICK heap \in Heap : heap = heaps[h]
    OBVIOUS
  <2>2. /\ heaps'[h] \in Heap /\ heaps'[h].blocks = 0
        /\ heaps'[h].chain = heaps[h].chain /\ heaps'[h].locks = heaps[h].locks
        /\ heaps'[h].resident = heaps[h].resident /\ heaps'[h].pooled
    BY <2>0, <2>1, PooledHeap
  <2>3. Users(h)' = 0
    BY <1>5
  <2>4. BlocksOK(h)'
    BY <1>2, <2>2, <2>3 DEF BlocksOK, Heap, NoHeap, Attempts, Chains, Own
  <2>5. QED
    BY <1>1, <2>2, <2>4 DEF RaInv, TypeOK
<1>6. QED
  BY <1>2, <1>3, <1>4, <1>5

LEMMA DeallocateFailedStep ==
  ASSUME RaInv, NEW t \in Threads, DeallocateFailed(t)
  PROVE  RaInv'
<1>1. /\ call[t].pc = "failed" /\ NextAttempt(t) /\ UNCHANGED <<config, allocs, live, debugMutex>>
      /\ heaps' = [heaps EXCEPT ![call[t].heap] = DeallocateBlock(call[t].heap)]
  BY DEF DeallocateFailed
<1>2. PICK h \in HeapIds :
        /\ h = call[t].heap /\ heaps[h] \in Heap /\ heaps[h].chain \in Chains
        /\ heaps[h].blocks >= 1 /\ heaps[h].blocks = Users(h) /\ t \in InFlight(h)
  BY <1>1, HeapOfCall DEF Holding
<1>3. /\ call[t] \in Call /\ call[t].request \in Requests /\ t \in config.threads
      /\ call[t].attempts # <<>>
  BY <1>1 DEF RaInv, TypeOK, Idle, CallInv, CallOK, Holding
<1>4. /\ call' \in [Threads -> Call \cup {Idle}] /\ OtherCallsKept(t)
      /\ call'[t].pc = "try" /\ CallOK(t)'
  BY <1>1, <1>3, NextAttemptCall
<1>5. Users(h)' = Users(h) - 1
  <2>1. t \notin InFlight(h)'
    BY <1>4, HoldsBlock DEF Holding
  <2>2. QED
    BY <1>1, <1>2, <1>4, <2>1, HoldersChange
<1>6. heaps' = [heaps EXCEPT ![h] = DeallocateBlock(h)]
  BY <1>1, <1>2
<1>7. /\ BlocksOK(h)' /\ OtherHeapsKept(h) /\ heaps' \in [HeapIds -> Heap \cup {NoHeap}]
      /\ heaps'[h] # NoHeap => heaps'[h].chain = heaps[h].chain
  BY <1>2, <1>5, <1>6, BlockReturned
<1>8. \A x \in HeapIds \ {h} : t \in InFlight(x)' <=> t \in InFlight(x)
  BY <1>1, <1>2, <1>4, HoldsBlock DEF Holding
<1>9. debugMutex # t
  BY <1>1, NotReleasing
<1>10. QED
  BY <1>1, <1>2, <1>4, <1>7, <1>8, <1>9, HeapStep DEF Owning

(* A step that changes no call and no blocks.                              *)
LEMMA OnlyLocksStep ==
  ASSUME RaInv, NEW h \in HeapIds, heaps[h] # NoHeap,
         NEW heap \in Heap, heaps' = [heaps EXCEPT ![h] = heap],
         heap.chain = heaps[h].chain, heap.size = heaps[h].size,
         heap.blocks = heaps[h].blocks, heap.pooled = heaps[h].pooled,
         UNCHANGED <<config, allocs, live, debugMutex, call>>
  PROVE  RaInv'
<1>1. SameBlocks(h) /\ OtherHeapsKept(h) /\ heaps' \in [HeapIds -> Heap \cup {NoHeap}]
  BY DEF SameBlocks, OtherHeapsKept, RaInv, TypeOK
<1>2. ChainsKept
  BY <1>1 DEF ChainsKept, SameBlocks, OtherHeapsKept
<1>3. BlocksInv'
  <2>1. ASSUME NEW x \in HeapIds PROVE BlocksOK(x)'
    <3>1. Users(x)' = Users(x)
      BY DEF Users, AllocsIn, InFlight
    <3>2. CASE x = h
      BY <1>1, <3>1, <3>2, SameBlocksKept DEF RaInv, BlocksInv
    <3>3. CASE x # h
      BY <1>1, <3>1, <3>3, BlocksKept DEF RaInv, BlocksInv, OtherHeapsKept
    <3>4. QED
      BY <3>2, <3>3
  <2>2. QED
    BY <2>1 DEF BlocksInv
<1>4. ASSUME NEW u \in Threads PROVE CallOK(u)'
  BY <1>2, <1>3, CallKept
<1>5. ASSUME NEW b \in AllocIds PROVE AllocOK(b)'
  BY <1>2, <1>3, AllocKept
<1>6. TypeOK' /\ OneOwner'
  BY <1>1 DEF RaInv, TypeOK, OneOwner
<1>7. DebugInv' /\ LiveInv'
  BY DEF RaInv, DebugInv, DebugOK, LiveInv, LiveOK, IsDebug, NoAlloc, NoEntry
<1>8. QED
  BY <1>3, <1>4, <1>5, <1>6, <1>7 DEF RaInv, CallInv, AllocInv

LEMMA MapFailsStep ==
  ASSUME RaInv, NEW t \in Threads, MapFails(t)
  PROVE  RaInv'
<1>1. PICK a \in AllocIds :
        /\ allocs[a] # NoAlloc
        /\ heaps' = [heaps EXCEPT ![allocs[a].heap] = LockHeap(heaps[allocs[a].heap])]
  BY DEF MapFails
<1>2. UNCHANGED <<config, allocs, live, debugMutex, call>>
  BY DEF MapFails
<1>3. PICK h \in HeapIds : h = allocs[a].heap /\ heaps[h] \in Heap /\ heaps[h] # NoHeap
  BY <1>1, HeapOfAlloc
<1>4. PICK heap \in Heap : heap = LockHeap(heaps[h])
  BY <1>3, LockedHeap
<1>5. /\ heaps' = [heaps EXCEPT ![h] = heap]
      /\ heap.chain = heaps[h].chain /\ heap.size = heaps[h].size
      /\ heap.blocks = heaps[h].blocks /\ heap.pooled = heaps[h].pooled
  BY <1>1, <1>3, <1>4, LockedHeap
<1>6. QED
  BY <1>2, <1>3, <1>5, OnlyLocksStep

LEMMA EvictStep ==
  ASSUME RaInv, Evict
  PROVE  RaInv'
<1>1. PICK h \in HeapIds : heaps[h] # NoHeap /\ heaps' = [heaps EXCEPT ![h].resident = FALSE]
  BY DEF Evict
<1>2. UNCHANGED <<config, allocs, live, debugMutex, call>>
  BY DEF Evict
<1>3. heaps[h] \in Heap
  BY <1>1 DEF RaInv, TypeOK
<1>4. PICK heap : heap = [heaps[h] EXCEPT !.resident = FALSE]
  OBVIOUS
<1>5. /\ heap \in Heap /\ heap.chain = heaps[h].chain /\ heap.size = heaps[h].size
      /\ heap.blocks = heaps[h].blocks /\ heap.pooled = heaps[h].pooled
  BY <1>3, <1>4 DEF Heap
<1>6. heaps' = [heaps EXCEPT ![h] = heap]
  BY <1>1, <1>4 DEF RaInv, TypeOK
<1>7. QED
  BY <1>1, <1>2, <1>5, <1>6, OnlyLocksStep

-----------------------------------------------------------------------------
(* A step that changes an allocation and leaves it in its heap.            *)
LEMMA AllocStep ==
  ASSUME RaInv, NEW t \in Threads, NEW a \in AllocIds, allocs[a] # NoAlloc,
         allocs'[a] \in Alloc, allocs'[a].heap = allocs[a].heap, OtherAllocsKept(a), TypeOK',
         NEW h \in HeapIds, h = allocs[a].heap, SameBlocks(h), OtherHeapsKept(h), UNCHANGED config,
         \A b \in AllocIds \ {a} : live'[b] = live[b],
         OtherCallsKept(t), CallOK(t)', DebugOK(t)', AllocOK(a)', LiveOK(a)',
         call[t].pc \notin Holding, call'[t].pc \notin Holding,
         \A u \in Threads \ {t} : call[u].pc \in Owning => call[u].alloc # a,
         call'[t].pc \in Owning => call'[t].alloc = a,
         debugMutex' = debugMutex \/ {debugMutex, debugMutex'} \subseteq {t, NoThread},
         debugMutex = t /\ call[t].alloc # a => debugMutex' = t /\ call'[t].alloc = call[t].alloc,
         IsDebug(a)' => debugMutex \in {t, NoThread} \/ IsDebug(a)
  PROVE  RaInv'
<1>1. ASSUME NEW x \in HeapIds PROVE Taken(x, t, a) = 0
  <2>1. t \notin InFlight(x) /\ t \notin InFlight(x)' /\ (a \in AllocsIn(x)' <=> a \in AllocsIn(x))
    BY HoldsBlock DEF AllocsIn
  <2>2. QED
    BY <2>1 DEF Taken
<1>2. BlocksOK(h)'
  <2>1. Users(h) \in Nat /\ Users(h)' = Users(h) + Taken(h, t, a)
    BY UsersChange
  <2>2. Users(h)' = Users(h)
    BY <1>1, <2>1
  <2>3. heaps[h] # NoHeap /\ BlocksOK(h)
    BY HeapOfAlloc DEF RaInv, BlocksInv
  <2>4. QED
    BY <2>2, <2>3, SameBlocksKept
<1>3. heaps'[h].chain = heaps[h].chain
  BY DEF SameBlocks
<1>4. QED
  BY <1>1, <1>2, <1>3, StepKept

(* Nobody else owns the allocation of a call.                              *)
LEMMA MyAlloc ==
  ASSUME RaInv, NEW t \in Threads, call[t].pc \in Owning
  PROVE  /\ call[t] \in Call /\ call[t].alloc \in AllocIds
         /\ allocs[call[t].alloc] # NoAlloc /\ allocs[call[t].alloc] \in Alloc
         /\ ~allocs[call[t].alloc].handedOut /\ allocs[call[t].alloc].maps = 0
         /\ \A u \in Threads \ {t} : call[u].pc \in Owning => call[u].alloc # call[t].alloc
<1>1. call[t] \in Call /\ CallOK(t)
  BY DEF RaInv, TypeOK, Idle, Owning, CallInv
<1>2. \A u \in Threads \ {t} : call[u].pc \in Owning => call[u].alloc # call[t].alloc
  BY DEF RaInv, OneOwner
<1>3. QED
  BY <1>1, <1>2 DEF CallOK, RaInv, TypeOK

(* An unchanged heap.                                                      *)
LEMMA SameHeaps ==
  ASSUME RaInv, NEW h \in HeapIds, heaps[h] \in Heap, UNCHANGED heaps
  PROVE  SameBlocks(h) /\ OtherHeapsKept(h)
BY DEF SameBlocks, OtherHeapsKept

LEMMA HandOutStep ==
  ASSUME RaInv, NEW t \in Threads, HandOut(t)
  PROVE  RaInv'
<1>1. /\ call[t].pc \in {"created", "return"} /\ Return(t)
      /\ UNCHANGED <<config, heaps, live, debugMutex>>
      /\ allocs' = [allocs EXCEPT ![call[t].alloc].handedOut = TRUE]
  BY DEF HandOut, HasCreated
<1>2. PICK a \in AllocIds :
        /\ a = call[t].alloc /\ allocs[a] # NoAlloc /\ allocs[a] \in Alloc
        /\ \A u \in Threads \ {t} : call[u].pc \in Owning => call[u].alloc # a
  BY <1>1, MyAlloc DEF Owning
<1>3. PICK h \in HeapIds : h = allocs[a].heap /\ heaps[h] \in Heap
  BY <1>2, HeapOfAlloc
<1>4. /\ allocs'[a] = [allocs[a] EXCEPT !.handedOut = TRUE] /\ allocs'[a] \in Alloc
      /\ allocs'[a].heap = h /\ allocs'[a].allocator = allocs[a].allocator
      /\ OtherAllocsKept(a) /\ allocs' \in [AllocIds -> Alloc \cup {NoAlloc}]
  BY <1>1, <1>2, <1>3 DEF RaInv, TypeOK, Alloc, OtherAllocsKept
<1>5. /\ call' \in [Threads -> Call \cup {Idle}] /\ OtherCallsKept(t)
      /\ call'[t].pc = "idle" /\ CallOK(t)'
  BY <1>1, ReturnCall
<1>6. debugMutex # t
  BY <1>1, NotReleasing
<1>7. TypeOK' /\ DebugOK(t)'
  BY <1>1, <1>4, <1>5, <1>6 DEF RaInv, TypeOK, DebugOK
<1>8. AllocOK(a)'
  BY <1>1, <1>2, <1>3, <1>4 DEF RaInv, AllocInv, AllocOK, CameFrom, OwnerOf, Own
<1>9. LiveOK(a)'
  BY <1>1, <1>2, <1>4, <1>5, <1>6
     DEF RaInv, LiveInv, LiveOK, IsDebug, OtherCallsKept, Alloc, NoAlloc, NoEntry
<1>10. SameBlocks(h) /\ OtherHeapsKept(h)
  BY <1>1, <1>3, SameHeaps
<1>11. IsDebug(a)' => IsDebug(a)
  BY <1>2, <1>4 DEF IsDebug
<1>12. QED
  BY <1>1, <1>2, <1>3, <1>4, <1>5, <1>6, <1>7, <1>8, <1>9, <1>10, <1>11, AllocStep
     DEF Holding, Owning

(* AddLiveAllocation finds no old entry of the address.                    *)
LEMMA AddLiveStep ==
  ASSUME RaInv, NEW t \in Threads, AddLiveAllocation(t)
  PROVE  RaInv'
<1>1. /\ call[t].pc = "created" /\ Step(t, "return") /\ debugMutex = NoThread
      /\ UNCHANGED <<config, heaps, debugMutex>>
      /\ live' = [live EXCEPT ![call[t].alloc] = IF @ = NoEntry THEN allocs[call[t].alloc].allocator ELSE @]
      /\ allocs' = [allocs EXCEPT ![call[t].alloc].allocator = "debug"]
  BY DEF AddLiveAllocation
<1>2. PICK a \in AllocIds :
        /\ a = call[t].alloc /\ allocs[a] # NoAlloc /\ allocs[a] \in Alloc /\ call[t] \in Call
        /\ ~allocs[a].handedOut /\ allocs[a].maps = 0
        /\ \A u \in Threads \ {t} : call[u].pc \in Owning => call[u].alloc # a
  BY <1>1, MyAlloc DEF Owning
<1>3. PICK h \in HeapIds : h = allocs[a].heap /\ heaps[h] \in Heap
  BY <1>2, HeapOfAlloc
<1>4. /\ allocs'[a] = [allocs[a] EXCEPT !.allocator = "debug"] /\ allocs'[a] \in Alloc
      /\ allocs'[a].heap = h /\ allocs'[a].allocator = "debug"
      /\ allocs'[a].handedOut = allocs[a].handedOut /\ allocs'[a].maps = allocs[a].maps
      /\ OtherAllocsKept(a) /\ allocs' \in [AllocIds -> Alloc \cup {NoAlloc}]
  BY <1>1, <1>2, <1>3 DEF RaInv, TypeOK, Alloc, OtherAllocsKept
<1>5. CallOK(t) /\ AllocOK(a) /\ LiveOK(a)
  BY DEF RaInv, CallInv, AllocInv, LiveInv
<1>6. allocs[a].allocator # "debug" /\ heaps[h].chain # "imported" /\ live[a] = NoEntry
  <2>1. allocs[a].allocator # "debug" /\ heaps[h].chain # "imported"
    BY <1>1, <1>2, <1>3, <1>5 DEF CallOK
  <2>2. debugMutex \notin Threads
    BY <1>1, ResourceAllocatorAssumption DEF NoThread
  <2>3. QED
    BY <1>5, <2>1, <2>2 DEF LiveOK, IsDebug
<1>7. /\ live'[a] = allocs[a].allocator /\ live'[a] = OwnerOf(h)
      /\ live' \in [AllocIds -> {"chain", "this", NoEntry}]
      /\ \A b \in AllocIds \ {a} : live'[b] = live[b]
  BY <1>1, <1>2, <1>3, <1>5, <1>6 DEF RaInv, TypeOK, AllocOK, CameFrom, Alloc
<1>8. /\ call' \in [Threads -> Call \cup {Idle}] /\ OtherCallsKept(t)
      /\ call'[t].pc = "return" /\ call'[t].alloc = a
  BY <1>1, <1>2, StepCall DEF Owning
<1>9. CallOK(t)'
  BY <1>1, <1>2, <1>4, <1>5, <1>8 DEF CallOK, Holding, Owning, Alloc, NoAlloc
<1>10. debugMutex # t
  BY <1>1, NotReleasing
<1>11. TypeOK' /\ DebugOK(t)'
  BY <1>1, <1>4, <1>7, <1>8, <1>10 DEF RaInv, TypeOK, DebugOK
<1>12. AllocOK(a)'
  BY <1>1, <1>4, <1>6, <1>7 DEF AllocOK, CameFrom, OwnerOf, Own
<1>13. LiveOK(a)'
  <2>1. allocs'[a] # NoAlloc
    BY <1>4, ResourceAllocatorAssumption DEF NoAlloc
  <2>2. QED
    BY <1>4, <2>1 DEF LiveOK, IsDebug, NoAlloc
<1>14. SameBlocks(h) /\ OtherHeapsKept(h)
  BY <1>1, <1>3, SameHeaps
<1>15. QED
  BY <1>1, <1>2, <1>3, <1>4, <1>7, <1>8, <1>9, <1>10, <1>11, <1>12, <1>13, <1>14, AllocStep
     DEF Holding, Owning

LEMMA ReleaseStep ==
  ASSUME RaInv, NEW t \in Threads, Release(t)
  PROVE  RaInv'
<1>1. /\ call[t] = Idle /\ t \in config.threads /\ UNCHANGED <<config, heaps, live, debugMutex>>
  BY DEF Release
<1>2. PICK a \in AllocIds :
        /\ allocs[a] # NoAlloc /\ allocs[a].handedOut /\ allocs[a].maps = 0
        /\ allocs' = [allocs EXCEPT ![a].handedOut = FALSE]
        /\ call' = [call EXCEPT ![t] = NewCall("release", NoRequest, <<>>, a)]
  BY DEF Release
<1>3. PICK h \in HeapIds : h = allocs[a].heap /\ heaps[h] \in Heap /\ allocs[a] \in Alloc
  BY <1>2, HeapOfAlloc
<1>4. /\ allocs'[a] = [allocs[a] EXCEPT !.handedOut = FALSE] /\ allocs'[a] \in Alloc
      /\ allocs'[a].heap = h /\ allocs'[a].allocator = allocs[a].allocator
      /\ ~allocs'[a].handedOut /\ allocs'[a].maps = 0
      /\ OtherAllocsKept(a) /\ allocs' \in [AllocIds -> Alloc \cup {NoAlloc}]
  BY <1>2, <1>3 DEF RaInv, TypeOK, Alloc, OtherAllocsKept
<1>5. /\ call'[t] = NewCall("release", NoRequest, <<>>, a) /\ OtherCallsKept(t)
      /\ NewCall("release", NoRequest, <<>>, a) \in Call
      /\ call' \in [Threads -> Call \cup {Idle}]
  BY <1>2 DEF NewCall, Call, Owning, RaInv, TypeOK, OtherCallsKept
<1>6. call'[t].pc = "release" /\ call'[t].alloc = a
  BY <1>5 DEF NewCall
<1>7. allocs'[a] # NoAlloc
  BY <1>4, ResourceAllocatorAssumption DEF NoAlloc
<1>8. CallOK(t)'
  BY <1>1, <1>4, <1>6, <1>7 DEF CallOK, Holding, Owning, NoAlloc
<1>9. debugMutex # t
  BY <1>1, NotReleasing DEF Idle
<1>10. TypeOK' /\ DebugOK(t)'
  BY <1>1, <1>4, <1>5, <1>6, <1>9 DEF RaInv, TypeOK, DebugOK
<1>11. AllocOK(a)'
  BY <1>1, <1>2, <1>3, <1>4 DEF RaInv, AllocInv, AllocOK, CameFrom, OwnerOf, Own
<1>12. LiveOK(a)'
  BY <1>1, <1>2, <1>4, <1>5, <1>7, <1>9
     DEF RaInv, LiveInv, LiveOK, IsDebug, OtherCallsKept, NoAlloc, NoEntry
<1>13. SameBlocks(h) /\ OtherHeapsKept(h)
  BY <1>1, <1>3, SameHeaps
<1>14. \A u \in Threads \ {t} : call[u].pc \in Owning => call[u].alloc # a
  BY <1>2 DEF RaInv, CallInv, CallOK
<1>15. IsDebug(a)' => IsDebug(a)
  BY <1>2, <1>4 DEF IsDebug
<1>16. call[t].pc = "idle"
  BY <1>1 DEF Idle
<1>17. QED
  BY <1>1, <1>2, <1>3, <1>4, <1>5, <1>6, <1>8, <1>9, <1>10, <1>11, <1>12, <1>13, <1>14, <1>15,
     <1>16, AllocStep DEF Holding, Owning

LEMMA DebugDeallocateStep ==
  ASSUME RaInv, NEW t \in Threads, DebugDeallocateMemory(t)
  PROVE  RaInv'
<1>1. /\ call[t].pc = "release" /\ debugMutex = NoThread /\ debugMutex' = t
      /\ UNCHANGED <<config, heaps, live, call>>
      /\ allocs[call[t].alloc].allocator = "debug"
      /\ allocs' = [allocs EXCEPT ![call[t].alloc].allocator = live[call[t].alloc]]
  BY DEF DebugDeallocateMemory
<1>2. PICK a \in AllocIds :
        /\ a = call[t].alloc /\ allocs[a] # NoAlloc /\ allocs[a] \in Alloc /\ call[t] \in Call
        /\ ~allocs[a].handedOut /\ allocs[a].maps = 0
        /\ \A u \in Threads \ {t} : call[u].pc \in Owning => call[u].alloc # a
  BY <1>1, MyAlloc DEF Owning
<1>3. PICK h \in HeapIds : h = allocs[a].heap /\ heaps[h] \in Heap
  BY <1>2, HeapOfAlloc
<1>4. AllocOK(a) /\ CallOK(t)
  BY DEF RaInv, CallInv, AllocInv
<1>5. live[a] = OwnerOf(h) /\ live[a] \in {"chain", "this"}
  BY <1>1, <1>2, <1>3, <1>4 DEF AllocOK, CameFrom, OwnerOf
<1>6. /\ allocs'[a] = [allocs[a] EXCEPT !.allocator = live[a]] /\ allocs'[a] \in Alloc
      /\ allocs'[a].heap = h /\ allocs'[a].allocator = live[a]
      /\ allocs'[a].handedOut = allocs[a].handedOut /\ allocs'[a].maps = allocs[a].maps
      /\ OtherAllocsKept(a) /\ allocs' \in [AllocIds -> Alloc \cup {NoAlloc}]
  BY <1>1, <1>2, <1>3, <1>5 DEF RaInv, TypeOK, Alloc, OtherAllocsKept
<1>7. allocs'[a] # NoAlloc
  BY <1>6, ResourceAllocatorAssumption DEF NoAlloc
<1>8. CallOK(t)' /\ OtherCallsKept(t)
  BY <1>1, <1>2, <1>4, <1>6, <1>7 DEF CallOK, Holding, Owning, Alloc, NoAlloc, OtherCallsKept
<1>9. TypeOK' /\ DebugOK(t)'
  BY <1>1, <1>2, <1>5, <1>6 DEF RaInv, TypeOK, DebugOK, IsDebug
<1>10. AllocOK(a)'
  BY <1>1, <1>5, <1>6 DEF AllocOK, CameFrom, OwnerOf, Own
<1>11. LiveOK(a)'
  BY <1>1, <1>2 DEF LiveOK
<1>12. SameBlocks(h) /\ OtherHeapsKept(h)
  BY <1>1, <1>3, SameHeaps
<1>13. QED
  BY <1>1, <1>2, <1>3, <1>6, <1>8, <1>9, <1>10, <1>11, <1>12, AllocStep DEF Holding, Owning

(* A step that maps or unmaps an allocation and locks its heap or not.     *)
LEMMA MapStep ==
  ASSUME RaInv, NEW t \in Threads, call[t] = Idle, NEW a \in AllocIds, allocs[a] # NoAlloc,
         allocs[a].handedOut, NEW maps \in Nat, allocs' = [allocs EXCEPT ![a].maps = maps],
         NEW heap \in Heap, heaps' = [heaps EXCEPT ![allocs[a].heap] = heap],
         heap.chain = heaps[allocs[a].heap].chain, heap.size = heaps[allocs[a].heap].size,
         heap.blocks = heaps[allocs[a].heap].blocks, heap.pooled = heaps[allocs[a].heap].pooled,
         UNCHANGED <<config, live, debugMutex, call>>
  PROVE  RaInv'
<1>1. PICK h \in HeapIds : h = allocs[a].heap /\ heaps[h] \in Heap /\ allocs[a] \in Alloc
  BY HeapOfAlloc
<1>2. /\ SameBlocks(h) /\ OtherHeapsKept(h) /\ heaps' \in [HeapIds -> Heap \cup {NoHeap}]
  BY <1>1 DEF SameBlocks, OtherHeapsKept, RaInv, TypeOK
<1>3. /\ allocs'[a] = [allocs[a] EXCEPT !.maps = maps] /\ allocs'[a] \in Alloc
      /\ allocs'[a].heap = h /\ allocs'[a].allocator = allocs[a].allocator
      /\ OtherAllocsKept(a) /\ allocs' \in [AllocIds -> Alloc \cup {NoAlloc}]
  BY <1>1 DEF RaInv, TypeOK, Alloc, OtherAllocsKept
<1>4. debugMutex # t /\ call[t].pc = "idle"
  BY NotReleasing DEF Idle
<1>5. TypeOK' /\ DebugOK(t)' /\ OtherCallsKept(t) /\ CallOK(t)'
  BY <1>2, <1>3, <1>4 DEF RaInv, TypeOK, DebugOK, OtherCallsKept, CallOK, Holding, Owning
<1>6. AllocOK(a)'
  <2>1. AllocOK(a) /\ heaps'[h].chain = heaps[h].chain
    BY <1>2 DEF RaInv, AllocInv, SameBlocks
  <2>2. QED
    BY <1>1, <1>3, <2>1 DEF AllocOK, CameFrom, OwnerOf, Own
<1>7. LiveOK(a)'
  <2>1. allocs'[a] # NoAlloc
    BY <1>3, ResourceAllocatorAssumption DEF NoAlloc
  <2>2. QED
    BY <1>3, <1>4, <2>1 DEF RaInv, LiveInv, LiveOK, IsDebug, NoAlloc, NoEntry
<1>8. \A u \in Threads \ {t} : call[u].pc \in Owning => call[u].alloc # a
  BY DEF RaInv, CallInv, CallOK
<1>9. IsDebug(a)' => IsDebug(a)
  BY <1>3 DEF IsDebug
<1>10. QED
  BY <1>1, <1>2, <1>3, <1>4, <1>5, <1>6, <1>7, <1>8, <1>9, AllocStep DEF Holding, Owning

LEMMA MapAndUnmapStep ==
  ASSUME RaInv, NEW t \in Threads, Map(t) \/ Unmap(t)
  PROVE  RaInv'
<1>1. call[t] = Idle /\ UNCHANGED <<config, live, debugMutex, call>>
  BY DEF Map, Unmap
<1>2. PICK a \in AllocIds :
        /\ allocs[a] # NoAlloc /\ allocs[a].handedOut
        /\ \/ /\ allocs' = [allocs EXCEPT ![a].maps = @ + 1]
              /\ heaps' = IF allocs[a].residency
                          THEN [heaps EXCEPT ![allocs[a].heap] = LockHeap(@)] ELSE heaps
           \/ /\ allocs' = [allocs EXCEPT ![a].maps = @ - 1] /\ allocs[a].maps > 0
              /\ heaps' = IF allocs[a].residency
                          THEN [heaps EXCEPT ![allocs[a].heap] = UnlockHeap(@)] ELSE heaps
  BY DEF Map, Unmap
<1>3. /\ allocs[a].heap \in HeapIds /\ heaps[allocs[a].heap] \in Heap /\ allocs[a].maps \in Nat
  BY <1>2, HeapOfAlloc DEF Alloc
<1>4. PICK maps \in Nat : allocs' = [allocs EXCEPT ![a].maps = maps]
  BY <1>2, <1>3
<1>5. PICK heap \in Heap :
        /\ heap \in {heaps[allocs[a].heap], LockHeap(heaps[allocs[a].heap]),
                     UnlockHeap(heaps[allocs[a].heap])}
        /\ heaps' = [heaps EXCEPT ![allocs[a].heap] = heap]
  <2>1. heaps = [heaps EXCEPT ![allocs[a].heap] = heaps[allocs[a].heap]]
    BY <1>3 DEF RaInv, TypeOK
  <2>2. /\ LockHeap(heaps[allocs[a].heap]) \in Heap
        /\ UnlockHeap(heaps[allocs[a].heap]) \in Heap
    BY <1>3, LockedHeap, UnlockedHeap
  <2>3. QED
    BY <1>2, <1>3, <2>1, <2>2
<1>6. /\ heap.chain = heaps[allocs[a].heap].chain /\ heap.size = heaps[allocs[a].heap].size
      /\ heap.blocks = heaps[allocs[a].heap].blocks /\ heap.pooled = heaps[allocs[a].heap].pooled
  BY <1>3, <1>5, LockedHeap, UnlockedHeap
<1>7. QED
  BY <1>1, <1>2, <1>4, <1>5, <1>6, MapStep

LEMMA EraseStep ==
  ASSUME RaInv, NEW t \in Threads, EraseLiveAllocation(t)
  PROVE  RaInv'
<1>1. /\ call[t].pc = "erase" /\ debugMutex' = NoThread /\ Return(t)
      /\ UNCHANGED <<config, heaps, allocs>>
      /\ live' = [live EXCEPT ![call[t].alloc] = NoEntry]
  BY DEF EraseLiveAllocation
<1>2. DebugOK(t)
  BY DEF RaInv, DebugInv
<1>3. PICK a \in AllocIds : a = call[t].alloc /\ ~IsDebug(a) /\ debugMutex = t
  BY <1>1, <1>2 DEF DebugOK
<1>4. /\ call' \in [Threads -> Call \cup {Idle}] /\ OtherCallsKept(t)
      /\ call'[t].pc = "idle" /\ CallOK(t)'
  BY <1>1, ReturnCall
<1>5. /\ live'[a] = NoEntry /\ live' \in [AllocIds -> {"chain", "this", NoEntry}]
      /\ \A b \in AllocIds \ {a} : live'[b] = live[b]
  BY <1>1, <1>3 DEF RaInv, TypeOK
<1>7. TypeOK'
  BY <1>1, <1>4, <1>5 DEF RaInv, TypeOK
<1>8. BlocksInv'
  <2> SUFFICES ASSUME NEW x \in HeapIds PROVE BlocksOK(x)'
    BY DEF BlocksInv
  <2>1. t \notin InFlight(x) /\ t \notin InFlight(x)'
    BY <1>1, <1>4, HoldsBlock DEF Holding
  <2>2. Users(x)' = Users(x)
    BY <1>1, <1>4, <2>1, HoldersChange
  <2>3. QED
    BY <1>1, <2>2, BlocksKept DEF RaInv, BlocksInv
<1>9. CallInv'
  <2> SUFFICES ASSUME NEW u \in Threads \ {t} PROVE CallOK(u)'
    BY <1>4 DEF CallInv
  <2>1. call'[u] = call[u] /\ ChainsKept
    BY <1>1, <1>4 DEF OtherCallsKept, ChainsKept
  <2>2. QED
    BY <1>1, <1>8, <2>1, CallKept
<1>10. OneOwner'
  BY <1>4 DEF RaInv, OneOwner, OtherCallsKept, Owning
<1>11. NoThread \notin Threads
  BY ResourceAllocatorAssumption DEF NoThread
<1>12. DebugInv'
  <2>1. ASSUME NEW u \in Threads PROVE DebugOK(u)'
    BY <1>1, <1>3, <1>4, <1>11 DEF RaInv, DebugInv, DebugOK, OtherCallsKept
  <2>2. QED
    BY <1>1, <2>1 DEF DebugInv
<1>13. AllocInv'
  <2> SUFFICES ASSUME NEW b \in AllocIds PROVE AllocOK(b)'
    BY DEF AllocInv
  <2>1. CASE b = a
    BY <1>1, <1>3, <2>1 DEF RaInv, AllocInv, AllocOK, IsDebug, CameFrom, OwnerOf, Own, NoAlloc
  <2>2. CASE b # a
    BY <1>1, <1>5, <2>2 DEF RaInv, AllocInv, AllocOK, CameFrom, OwnerOf, Own, NoAlloc
  <2>3. QED
    BY <2>1, <2>2
<1>14. LiveInv'
  <2> SUFFICES ASSUME NEW b \in AllocIds PROVE LiveOK(b)'
    BY DEF LiveInv
  <2>1. CASE b = a
    BY <1>5, <2>1 DEF LiveOK, NoEntry
  <2>2. CASE b # a
    BY <1>1, <1>3, <1>5, <2>2 DEF RaInv, LiveInv, LiveOK, IsDebug, NoAlloc, NoEntry
  <2>3. QED
    BY <2>1, <2>2
<1>15. QED
  BY <1>7, <1>8, <1>9, <1>10, <1>12, <1>13, <1>14 DEF RaInv

-----------------------------------------------------------------------------
(* A new allocation.                                                       *)
LEMMA AddAllocStep ==
  ASSUME RaInv, NEW t \in Threads, NEW h \in HeapIds, NEW a \in AllocIds, allocs[a] = NoAlloc,
         NEW new \in Alloc, new.heap = h, new.allocator # "debug",
         allocs' = [allocs EXCEPT ![a] = new], UNCHANGED <<config, live, debugMutex>>,
         heaps' \in [HeapIds -> Heap \cup {NoHeap}], OtherHeapsKept(h), BlocksOK(h)',
         new.allocator = OwnerOf(h)',
         heaps[h] # NoHeap => heaps'[h].chain = heaps[h].chain,
         call' \in [Threads -> Call \cup {Idle}], OtherCallsKept(t), CallOK(t)',
         call'[t].pc \in {"created", "idle"}, call'[t].pc = "created" => call'[t].alloc = a,
         call[t].pc \in Holding => call[t].heap = h, debugMutex # t
  PROVE  RaInv'
<1>1. /\ allocs'[a] = new /\ OtherAllocsKept(a) /\ allocs' \in [AllocIds -> Alloc \cup {NoAlloc}]
  BY DEF RaInv, TypeOK, OtherAllocsKept
<1>2. TypeOK' /\ DebugOK(t)'
  BY <1>1 DEF RaInv, TypeOK, DebugOK
<1>3. AllocOK(a)'
  BY <1>1 DEF AllocOK, CameFrom, OwnerOf
<1>4. ~IsDebug(a)
  BY DEF IsDebug
<1>5. LiveOK(a)'
  BY <1>4 DEF RaInv, LiveInv, LiveOK, OtherCallsKept, NoEntry
<1>6. ~IsDebug(a)'
  BY <1>1 DEF IsDebug
<1>7. ASSUME NEW x \in HeapIds \ {h} PROVE Taken(x, t, a) = 0
  <2>1. /\ t \notin InFlight(x) /\ t \notin InFlight(x)'
    BY HoldsBlock DEF Holding
  <2>2. a \notin AllocsIn(x) /\ a \notin AllocsIn(x)'
    BY <1>1, ResourceAllocatorAssumption DEF AllocsIn, NoAlloc
  <2>3. QED
    BY <2>1, <2>2 DEF Taken
<1>8. \A u \in Threads \ {t} : call[u].pc \in Owning => call[u].alloc # a
  BY DEF RaInv, CallInv, CallOK
<1>9. QED
  BY <1>1, <1>2, <1>3, <1>5, <1>6, <1>7, <1>8, StepKept DEF Owning

(* The allocation that a creation makes, and its call.                     *)
LEMMA CreatedAlloc ==
  ASSUME RaInv, NEW t \in Threads, call[t] \in Call, NEW h \in HeapIds,
         NEW allocator \in {"chain", "this"}, NewAllocation(t, h, allocator)
  PROVE  \E a \in AllocIds, new \in Alloc :
           /\ allocs[a] = NoAlloc /\ allocs' = [allocs EXCEPT ![a] = new]
           /\ new.heap = h /\ new.allocator = allocator /\ new.maps = 0 /\ ~new.handedOut
           /\ call' \in [Threads -> Call \cup {Idle}] /\ OtherCallsKept(t)
           /\ call'[t].pc = "created" /\ call'[t].alloc = a
           /\ call'[t].request = call[t].request
<1>1. PICK a \in AllocIds :
        /\ allocs[a] = NoAlloc
        /\ allocs' = [allocs EXCEPT ![a] = [heap |-> h, allocator |-> allocator, maps |-> 0,
                                            residency |-> config.residency, handedOut |-> FALSE]]
        /\ call' = [call EXCEPT ![t].pc = "created", ![t].alloc = a]
  BY DEF NewAllocation
<1>2. config.residency \in BOOLEAN
  BY ResourceAllocatorAssumption DEF RaInv, TypeOK, IsConfig
<1>3. PICK new \in Alloc : new = [heap |-> h, allocator |-> allocator, maps |-> 0,
                                  residency |-> config.residency, handedOut |-> FALSE]
  BY <1>2 DEF Alloc
<1>4. new.heap = h /\ new.allocator = allocator /\ new.maps = 0 /\ ~new.handedOut
  BY <1>3
<1>5. call' = [call EXCEPT ![t] = [call[t] EXCEPT !.pc = "created", !.alloc = a]]
  BY <1>1 DEF RaInv, TypeOK
<1>6. call'[t] = [call[t] EXCEPT !.pc = "created", !.alloc = a] /\ call'[t] \in Call
  BY <1>5 DEF RaInv, TypeOK, Call, Owning
<1>7. call' \in [Threads -> Call \cup {Idle}] /\ OtherCallsKept(t)
  BY <1>5, <1>6 DEF RaInv, TypeOK, OtherCallsKept
<1>8. call'[t].pc = "created" /\ call'[t].alloc = a /\ call'[t].request = call[t].request
  BY <1>6 DEF Call
<1>9. QED
  BY <1>1, <1>3, <1>4, <1>7, <1>8

(* The block that a call held becomes the block of an allocation.          *)
LEMMA PlacedStep ==
  ASSUME RaInv, NEW t \in Threads, UseWithin(t) \/ Placed(t)
  PROVE  RaInv'
<1>1. /\ call[t].pc \in {"place", "placing"} /\ NewAllocation(t, call[t].heap, "chain")
      /\ UNCHANGED <<config, live, debugMutex>>
      /\ \/ UNCHANGED heaps
         \/ heaps' = [heaps EXCEPT ![call[t].heap] = Unlocked(call[t].heap)]
  BY DEF UseWithin, Placed
<1>2. PICK h \in HeapIds : /\ h = call[t].heap /\ heaps[h] \in Heap /\ heaps[h] # NoHeap
                           /\ heaps[h].chain \in Chains /\ call[t] \in Call /\ t \in InFlight(h)
  BY <1>1, HeapOfCall DEF Holding
<1>3. PICK a \in AllocIds, new \in Alloc :
        /\ allocs[a] = NoAlloc /\ allocs' = [allocs EXCEPT ![a] = new]
        /\ new.heap = h /\ new.allocator = "chain" /\ new.maps = 0 /\ ~new.handedOut
        /\ call' \in [Threads -> Call \cup {Idle}] /\ OtherCallsKept(t)
        /\ call'[t].pc = "created" /\ call'[t].alloc = a
  BY <1>1, <1>2, CreatedAlloc
<1>4. heaps'[h] \in {heaps[h], UnlockHeap(heaps[h])} /\ OtherHeapsKept(h)
  BY <1>1, <1>2 DEF RaInv, TypeOK, OtherHeapsKept, Unlocked
<1>5. SameBlocks(h)
  BY <1>2, <1>4, UnlockedHeap DEF SameBlocks
<1>6. heaps' \in [HeapIds -> Heap \cup {NoHeap}]
  BY <1>1, <1>2, <1>5 DEF RaInv, TypeOK, SameBlocks
<1>7. allocs'[a] = new /\ OtherAllocsKept(a) /\ new # NoAlloc
  BY <1>3, ResourceAllocatorAssumption DEF RaInv, TypeOK, OtherAllocsKept, NoAlloc
<1>8. BlocksOK(h)'
  <2>1. t \notin InFlight(h)'
    BY <1>3, HoldsBlock DEF Holding
  <2>2. a \notin AllocsIn(h) /\ a \in AllocsIn(h)'
    BY <1>3, <1>7, ResourceAllocatorAssumption DEF AllocsIn, NoAlloc
  <2>3. Taken(h, t, a) = 0
    BY <1>2, <2>1, <2>2 DEF Taken
  <2>4. Users(h) \in Nat /\ Users(h)' = Users(h) + Taken(h, t, a)
    BY <1>3, <1>7, UsersChange
  <2>5. Users(h)' = Users(h) /\ BlocksOK(h)
    BY <2>3, <2>4 DEF RaInv, BlocksInv
  <2>6. QED
    BY <1>2, <1>5, <2>5, SameBlocksKept
<1>9. heaps'[h].chain \in Chains /\ heaps'[h].chain = heaps[h].chain /\ OwnerOf(h)' = "chain"
  BY <1>2, <1>5 DEF SameBlocks, OwnerOf, Own, Chains
<1>10. CallOK(t)'
  <2>1. t \in config.threads
    BY <1>1 DEF RaInv, CallInv, CallOK
  <2>2. QED
    BY <1>1, <1>3, <1>7, <1>9, <2>1 DEF CallOK, Holding, Owning, NoAlloc, Chains
<1>11. debugMutex # t
  BY <1>1, NotReleasing
<1>12. QED
  BY <1>1, <1>2, <1>3, <1>4, <1>6, <1>8, <1>9, <1>10, <1>11, AddAllocStep

(* A heap of its own for a new allocation.                                 *)
LEMMA OwnHeapStep ==
  ASSUME RaInv, NEW t \in Threads, HasFreeHeapId, NEW chain \in Own, NEW size \in Nat,
         heaps' = [heaps EXCEPT ![FreeHeapId] = NewHeap(chain, size, 1)],
         NEW a \in AllocIds, allocs[a] = NoAlloc, NEW new \in Alloc, new.heap = FreeHeapId,
         new.allocator = "this", allocs' = [allocs EXCEPT ![a] = new],
         UNCHANGED <<config, live, debugMutex>>,
         call' \in [Threads -> Call \cup {Idle}], OtherCallsKept(t),
         call[t].pc \in {"idle", "try"}, call'[t].pc \in {"created", "idle"},
         call'[t].pc # "idle" => t \in config.threads,
         call'[t].pc = "created" =>
           call'[t].alloc = a /\ ~new.handedOut /\ new.maps = 0 /\ chain = "committed"
  PROVE  RaInv'
<1>1. PICK h \in HeapIds : h = FreeHeapId /\ heaps[h] = NoHeap /\ Users(h) = 0
  BY NewHeapUnused
<1>2. /\ heaps'[h] = NewHeap(chain, size, 1) /\ heaps'[h] \in Heap /\ heaps'[h].blocks = 1
      /\ heaps'[h].pooled = FALSE /\ heaps'[h].chain = chain
  BY <1>1 DEF NewHeap, Heap, RaInv, TypeOK
<1>3. /\ heaps' \in [HeapIds -> Heap \cup {NoHeap}] /\ OtherHeapsKept(h)
  BY <1>1, <1>2 DEF RaInv, TypeOK, OtherHeapsKept
<1>4. allocs'[a] = new /\ OtherAllocsKept(a) /\ new # NoAlloc
  BY ResourceAllocatorAssumption DEF RaInv, TypeOK, OtherAllocsKept, NoAlloc, Alloc
<1>5. BlocksOK(h)'
  <2>1. t \notin InFlight(h) /\ t \notin InFlight(h)'
    BY HoldsBlock DEF Holding
  <2>2. a \notin AllocsIn(h) /\ a \in AllocsIn(h)'
    BY <1>1, <1>4, ResourceAllocatorAssumption DEF AllocsIn, NoAlloc
  <2>3. Taken(h, t, a) = 1
    BY <2>1, <2>2 DEF Taken
  <2>4. Users(h) \in Nat /\ Users(h)' = Users(h) + Taken(h, t, a)
    BY <1>4, UsersChange
  <2>5. Users(h)' = 1
    BY <1>1, <2>3, <2>4
  <2>6. QED
    BY <1>2, <2>5 DEF BlocksOK, Heap, NoHeap, Attempts, Chains, Own
<1>6. OwnerOf(h)' = "this"
  BY <1>2 DEF OwnerOf, Own
<1>7. CallOK(t)'
  BY <1>1, <1>2, <1>4 DEF CallOK, Holding, Owning, NoAlloc
<1>8. debugMutex # t
  BY NotReleasing
<1>9. QED
  BY <1>1, <1>3, <1>5, <1>6, <1>7, <1>8, AddAllocStep DEF Holding

LEMMA CommittedStep ==
  ASSUME RaInv, NEW t \in Threads, CreateCommittedResource(t)
  PROVE  RaInv'
<1>1. /\ call[t].pc = "try" /\ call[t].attempts # <<>> /\ HasFreeHeapId
      /\ heaps' = [heaps EXCEPT ![FreeHeapId] = NewHeap("committed", HeapSize(t), 1)]
      /\ NewAllocation(t, FreeHeapId, "this") /\ UNCHANGED <<config, live, debugMutex>>
  BY DEF CreateCommittedResource, IsTrying
<1>2. /\ call[t] \in Call /\ call[t].request \in Requests /\ t \in config.threads
  BY <1>1 DEF RaInv, TypeOK, Idle, CallInv, CallOK
<1>3. PICK size \in Nat : size = HeapSize(t)
  BY <1>1, <1>2, HeapSizeType
<1>4. PICK h \in HeapIds : h = FreeHeapId
  BY <1>1, NewHeapUnused
<1>5. PICK a \in AllocIds, new \in Alloc :
        /\ allocs[a] = NoAlloc /\ allocs' = [allocs EXCEPT ![a] = new]
        /\ new.heap = h /\ new.allocator = "this" /\ new.maps = 0 /\ ~new.handedOut
        /\ call' \in [Threads -> Call \cup {Idle}] /\ OtherCallsKept(t)
        /\ call'[t].pc = "created" /\ call'[t].alloc = a
  BY <1>1, <1>2, <1>4, CreatedAlloc
<1>6. PICK chain \in Own : chain = "committed"
  BY DEF Own
<1>7. QED
  BY <1>1, <1>2, <1>3, <1>4, <1>5, <1>6, OwnHeapStep

LEMMA ImportStep ==
  ASSUME RaInv, NEW t \in Threads, ImportResource(t)
  PROVE  RaInv'
<1>1. call[t] = Idle /\ HasFreeHeapId /\ UNCHANGED <<config, live, debugMutex, call>>
  BY DEF ImportResource
<1>2. PICK size \in config.imports, a \in AllocIds :
        /\ allocs[a] = NoAlloc
        /\ heaps' = [heaps EXCEPT ![FreeHeapId] = NewHeap("imported", size, 1)]
        /\ allocs' = [allocs EXCEPT ![a] = [heap |-> FreeHeapId, allocator |-> "this", maps |-> 0,
                                            residency |-> FALSE, handedOut |-> TRUE]]
  BY DEF ImportResource
<1>3. size \in Nat /\ FreeHeapId \in HeapIds
  BY <1>1, NewHeapUnused, ResourceAllocatorAssumption DEF RaInv, TypeOK, IsConfig
<1>4. PICK new \in Alloc : new = [heap |-> FreeHeapId, allocator |-> "this", maps |-> 0,
                                  residency |-> FALSE, handedOut |-> TRUE]
  BY <1>3 DEF Alloc
<1>5. new.heap = FreeHeapId /\ new.allocator = "this" /\ allocs' = [allocs EXCEPT ![a] = new]
  BY <1>2, <1>4
<1>6. PICK chain \in Own : chain = "imported"
  BY DEF Own
<1>7. /\ call' \in [Threads -> Call \cup {Idle}] /\ OtherCallsKept(t)
      /\ call[t].pc = "idle" /\ call'[t].pc = "idle"
  BY <1>1 DEF RaInv, TypeOK, OtherCallsKept, Idle
<1>8. QED
  BY <1>1, <1>2, <1>3, <1>4, <1>5, <1>6, <1>7, OwnHeapStep

-----------------------------------------------------------------------------
(* An allocation is deleted.                                               *)
LEMMA DeletedCall ==
  ASSUME RaInv, NEW t \in Threads, call[t].pc = "release", Deallocated(t),
         UNCHANGED <<config, live, debugMutex>>
  PROVE  /\ call' \in [Threads -> Call \cup {Idle}] /\ OtherCallsKept(t) /\ CallOK(t)'
         /\ allocs'[call[t].alloc] = NoAlloc /\ OtherAllocsKept(call[t].alloc)
         /\ allocs' \in [AllocIds -> Alloc \cup {NoAlloc}]
         /\ call'[t].pc \in {"idle", "erase"} /\ DebugOK(t)'
         /\ debugMutex = t => call'[t].alloc = call[t].alloc
<1>1. call[t] \in Call /\ call[t].alloc \in AllocIds
  BY MyAlloc DEF Owning
<1>2. /\ allocs'[call[t].alloc] = NoAlloc /\ OtherAllocsKept(call[t].alloc)
      /\ allocs' \in [AllocIds -> Alloc \cup {NoAlloc}]
  BY <1>1 DEF Deallocated, RaInv, TypeOK, OtherAllocsKept
<1>3. CASE debugMutex = t
  <2>1. /\ call' \in [Threads -> Call \cup {Idle}] /\ OtherCallsKept(t)
        /\ call'[t].pc = "erase" /\ call'[t].alloc = call[t].alloc
    BY <1>1, <1>3, StepCall DEF Deallocated
  <2>2. t \in config.threads
    BY DEF RaInv, CallInv, CallOK
  <2>3. CallOK(t)' /\ DebugOK(t)'
    BY <1>1, <1>2, <1>3, <2>1, <2>2 DEF CallOK, DebugOK, IsDebug, Holding, Owning, NoAlloc
  <2>4. QED
    BY <1>2, <2>1, <2>3
<1>4. CASE debugMutex # t
  <2>1. /\ call' \in [Threads -> Call \cup {Idle}] /\ OtherCallsKept(t)
        /\ call'[t].pc = "idle" /\ CallOK(t)'
    BY <1>4, ReturnCall DEF Deallocated
  <2>2. DebugOK(t)'
    BY <1>4, <2>1 DEF DebugOK
  <2>3. QED
    BY <1>2, <1>4, <2>1, <2>2
<1>5. QED
  BY <1>3, <1>4

(* The heap of a deleted allocation loses a user.                          *)
LEMMA DeletedUser ==
  ASSUME RaInv, NEW t \in Threads, call[t].pc = "release", Deallocated(t),
         UNCHANGED <<config, live, debugMutex>>
  PROVE  \A x \in HeapIds :
           Taken(x, t, call[t].alloc) = IF x = allocs[call[t].alloc].heap THEN -1 ELSE 0
<1> TAKE x \in HeapIds
<1>1. t \notin InFlight(x) /\ t \notin InFlight(x)'
  BY DeletedCall, HoldsBlock DEF Holding
<1>2. /\ call[t].alloc \notin AllocsIn(x)'
      /\ call[t].alloc \in AllocsIn(x) <=> allocs[call[t].alloc].heap = x
  BY DeletedCall, MyAlloc, ResourceAllocatorAssumption DEF AllocsIn, NoAlloc, Owning
<1>3. QED
  BY <1>1, <1>2 DEF Taken

LEMMA DeletedStep ==
  ASSUME RaInv, NEW t \in Threads, call[t].pc = "release", Deallocated(t),
         UNCHANGED <<config, live, debugMutex>>, NEW h \in HeapIds,
         h = allocs[call[t].alloc].heap, allocs[call[t].alloc].allocator # "debug",
         heaps' \in [HeapIds -> Heap \cup {NoHeap}], OtherHeapsKept(h), BlocksOK(h)',
         heaps'[h] # NoHeap => heaps'[h].chain = heaps[h].chain
  PROVE  RaInv'
<1>1. PICK a \in AllocIds :
        /\ a = call[t].alloc /\ allocs[a] # NoAlloc
        /\ \A u \in Threads \ {t} : call[u].pc \in Owning => call[u].alloc # a
  BY MyAlloc DEF Owning
<1>2. /\ call' \in [Threads -> Call \cup {Idle}] /\ OtherCallsKept(t) /\ CallOK(t)'
      /\ allocs'[a] = NoAlloc /\ OtherAllocsKept(a)
      /\ allocs' \in [AllocIds -> Alloc \cup {NoAlloc}]
      /\ call'[t].pc \in {"idle", "erase"} /\ DebugOK(t)'
      /\ debugMutex = t => call'[t].alloc = a
  BY <1>1, DeletedCall
<1>3. TypeOK'
  BY <1>2 DEF RaInv, TypeOK
<1>4. AllocOK(a)' /\ ~IsDebug(a)'
  BY <1>2 DEF AllocOK, IsDebug, NoAlloc
<1>5. LiveOK(a)'
  BY <1>1, <1>2 DEF RaInv, LiveInv, LiveOK, IsDebug, OtherCallsKept, NoEntry
<1>6. \A x \in HeapIds \ {h} : Taken(x, t, a) = 0
  BY <1>1, DeletedUser
<1>7. QED
  BY <1>1, <1>2, <1>3, <1>4, <1>5, <1>6, StepKept DEF Owning

(* The users of the heap of a deleted allocation.                          *)
LEMMA DeletedUsers ==
  ASSUME RaInv, NEW t \in Threads, call[t].pc = "release", Deallocated(t),
         UNCHANGED <<config, live, debugMutex>>, NEW h \in HeapIds,
         h = allocs[call[t].alloc].heap
  PROVE  Users(h) \in Nat /\ Users(h)' = Users(h) - 1
<1>1. Taken(h, t, call[t].alloc) = -1
  BY DeletedUser
<1>2. OtherCallsKept(t) /\ OtherAllocsKept(call[t].alloc)
  BY DeletedCall
<1>3. Users(h) \in Nat /\ Users(h)' = Users(h) + Taken(h, t, call[t].alloc)
  BY <1>2, UsersChange
<1>4. QED
  BY <1>1, <1>3

LEMMA DeallocateOfChainStep ==
  ASSUME RaInv, NEW t \in Threads, DeallocateMemoryOfChain(t)
  PROVE  RaInv'
<1>1. /\ call[t].pc = "release" /\ allocs[call[t].alloc].allocator = "chain" /\ Deallocated(t)
      /\ UNCHANGED <<config, live, debugMutex>>
      /\ heaps' = [heaps EXCEPT ![allocs[call[t].alloc].heap] =
                                    DeallocateBlock(allocs[call[t].alloc].heap)]
  BY DEF DeallocateMemoryOfChain
<1>2. PICK a \in AllocIds : a = call[t].alloc /\ allocs[a] # NoAlloc
  BY <1>1, MyAlloc DEF Owning
<1>3. PICK h \in HeapIds :
        /\ h = allocs[a].heap /\ heaps[h] \in Heap
        /\ heaps[h].blocks >= 1 /\ heaps[h].blocks = Users(h)
  BY <1>2, HeapOfAlloc
<1>4. heaps[h].chain \in Chains
  <2>1. AllocOK(a)
    BY DEF RaInv, AllocInv
  <2>2. OwnerOf(h) = "chain"
    BY <1>1, <1>2, <1>3, <2>1 DEF AllocOK, CameFrom
  <2>3. QED
    BY <1>3, <2>2 DEF OwnerOf, Heap, Own, Attempts
<1>5. Users(h)' = Users(h) - 1
  BY <1>1, <1>2, <1>3, DeletedUsers
<1>6. /\ BlocksOK(h)' /\ OtherHeapsKept(h) /\ heaps' \in [HeapIds -> Heap \cup {NoHeap}]
      /\ heaps'[h] # NoHeap => heaps'[h].chain = heaps[h].chain
  BY <1>1, <1>2, <1>3, <1>4, <1>5, BlockReturned
<1>7. QED
  BY <1>1, <1>2, <1>3, <1>6, DeletedStep

LEMMA DeallocateStep ==
  ASSUME RaInv, NEW t \in Threads, DeallocateMemory(t)
  PROVE  RaInv'
<1>1. /\ call[t].pc = "release" /\ allocs[call[t].alloc].allocator = "this" /\ Deallocated(t)
      /\ UNCHANGED <<config, live, debugMutex>>
      /\ heaps' = [heaps EXCEPT ![allocs[call[t].alloc].heap] = NoHeap]
  BY DEF DeallocateMemory
<1>2. PICK a \in AllocIds : a = call[t].alloc /\ allocs[a] # NoAlloc
  BY <1>1, MyAlloc DEF Owning
<1>3. PICK h \in HeapIds :
        /\ h = allocs[a].heap /\ heaps[h] \in Heap /\ heaps[h] # NoHeap
        /\ heaps[h].blocks = Users(h)
  BY <1>2, HeapOfAlloc
<1>4. heaps[h].blocks = 1
  <2>1. AllocOK(a) /\ BlocksOK(h)
    BY DEF RaInv, AllocInv, BlocksInv
  <2>2. OwnerOf(h) = "this"
    BY <1>1, <1>2, <1>3, <2>1 DEF AllocOK, CameFrom
  <2>3. heaps[h].chain \in Own
    BY <2>2 DEF OwnerOf
  <2>4. QED
    BY <1>3, <2>1, <2>3 DEF BlocksOK
<1>5. Users(h)' = 0
  <2>1. h = allocs[call[t].alloc].heap
    BY <1>2, <1>3
  <2>2. Users(h) \in Nat /\ Users(h)' = Users(h) - 1
    BY <1>1, <2>1, DeletedUsers
  <2>3. Users(h) = 1
    BY <1>3, <1>4
  <2>4. QED
    BY <2>2, <2>3
<1>6. /\ heaps'[h] = NoHeap /\ OtherHeapsKept(h) /\ heaps' \in [HeapIds -> Heap \cup {NoHeap}]
  BY <1>1, <1>2, <1>3 DEF RaInv, TypeOK, OtherHeapsKept
<1>7. BlocksOK(h)'
  BY <1>5, <1>6 DEF BlocksOK, NoHeap
<1>8. QED
  BY <1>1, <1>2, <1>3, <1>6, <1>7, DeletedStep

-----------------------------------------------------------------------------
(* ReleaseMemory takes heaps out of the pools, which nobody uses.          *)
LEMMA ReleasedHeaps ==
  ASSUME RaInv, NEW t, ReleaseMemory(t)
  PROVE  /\ UNCHANGED <<config, allocs, live, debugMutex, mStats, call>>
         /\ \E hs \in SUBSET {h \in HeapIds : heaps[h] # NoHeap /\ heaps[h].pooled} :
              heaps' = [h \in HeapIds |-> IF h \in hs THEN NoHeap ELSE heaps[h]]
<1>1. PICK hs \in SUBSET Pooled(ToSet(ChainOrder)) :
        heaps' = [h \in HeapIds |-> IF h \in hs THEN NoHeap ELSE heaps[h]]
  BY DEF ReleaseMemory
<1>2. ToSet(ChainOrder) \subseteq Chains
  BY ResourceAllocatorAssumption DEF ToSet
<1>3. \A h \in hs : heaps[h].chain \in Chains /\ heaps[h].pooled /\ h \in HeapIds
  BY <1>2 DEF Pooled
<1>4. hs \in SUBSET {h \in HeapIds : heaps[h] # NoHeap /\ heaps[h].pooled}
  BY <1>3 DEF NoHeap, Chains
<1>5. QED
  BY <1>1, <1>4 DEF ReleaseMemory

LEMMA ReleaseMemoryStep ==
  ASSUME RaInv, NEW t \in Threads, ReleaseMemory(t)
  PROVE  RaInv'
<1>1. UNCHANGED <<config, allocs, live, debugMutex, call>>
  BY ReleasedHeaps
<1>2. PICK hs \in SUBSET {h \in HeapIds : heaps[h] # NoHeap /\ heaps[h].pooled} :
        heaps' = [h \in HeapIds |-> IF h \in hs THEN NoHeap ELSE heaps[h]]
  BY ReleasedHeaps
<1>3. heaps' \in [HeapIds -> Heap \cup {NoHeap}] /\ ChainsKept
  BY <1>2 DEF RaInv, TypeOK, ChainsKept
<1>4. BlocksInv'
  <2> SUFFICES ASSUME NEW x \in HeapIds PROVE BlocksOK(x)'
    BY DEF BlocksInv
  <2>1. Users(x)' = Users(x) /\ BlocksOK(x)
    BY <1>1, HoldersChange DEF OtherCallsKept, InFlight, RaInv, BlocksInv
  <2>2. CASE x \in hs
    <3>1. heaps[x] # NoHeap /\ heaps[x].pooled /\ heaps'[x] = NoHeap
      BY <1>2, <2>2
    <3>2. Users(x) = 0
      BY <2>1, <3>1 DEF BlocksOK
    <3>3. QED
      BY <2>1, <3>1, <3>2 DEF BlocksOK, NoHeap
  <2>3. CASE x \notin hs
    BY <1>2, <2>1, <2>3, BlocksKept
  <2>4. QED
    BY <2>2, <2>3
<1>5. CallInv'
  <2> SUFFICES ASSUME NEW u \in Threads PROVE CallOK(u)'
    BY DEF CallInv
  <2>1. QED
    BY <1>1, <1>3, <1>4, CallKept
<1>6. AllocInv'
  <2> SUFFICES ASSUME NEW b \in AllocIds PROVE AllocOK(b)'
    BY DEF AllocInv
  <2>1. QED
    BY <1>1, <1>3, <1>4, AllocKept
<1>7. TypeOK' /\ OneOwner'
  BY <1>1, <1>3 DEF RaInv, TypeOK, OneOwner
<1>8. DebugInv' /\ LiveInv'
  BY <1>1 DEF RaInv, DebugInv, DebugOK, LiveInv, LiveOK, IsDebug, NoAlloc, NoEntry
<1>9. QED
  BY <1>4, <1>5, <1>6, <1>7, <1>8 DEF RaInv

LEMMA InitRaInv == Init => RaInv
<1> SUFFICES ASSUME Init PROVE RaInv
  OBVIOUS
<1>1. \A t \in Threads : call[t] = Idle /\ call[t].pc = "idle"
  BY DEF Init, Idle
<1>2. TypeOK /\ CallInv /\ OneOwner
  BY <1>1 DEF Init, TypeOK, CallInv, CallOK, OneOwner, Holding, Owning
<1>3. DebugInv
  BY <1>1, ResourceAllocatorAssumption DEF Init, DebugInv, DebugOK, NoThread
<1>4. AllocInv /\ LiveInv
  BY DEF Init, AllocInv, AllocOK, LiveInv, LiveOK
<1>5. BlocksInv
  <2> SUFFICES ASSUME NEW h \in HeapIds PROVE BlocksOK(h)
    BY DEF BlocksInv
  <2>1. InFlight(h) = {}
    BY <1>1 DEF InFlight
  <2>2. AllocsIn(h) = {}
    BY ResourceAllocatorAssumption DEF Init, AllocsIn, NoAlloc
  <2>3. Users(h) = 0
    BY <2>1, <2>2, FS_EmptySet DEF Users
  <2>4. QED
    BY <2>3 DEF Init, BlocksOK
<1>6. QED
  BY <1>2, <1>3, <1>4, <1>5 DEF RaInv

LEMMA NextRaInv == RaInv /\ [Next]_vars => RaInv'
<1> SUFFICES ASSUME RaInv, [Next]_vars PROVE RaInv'
  OBVIOUS
<1>1. ASSUME NEW t \in Threads, Continue(t) PROVE RaInv'
  <2>1. CASE TryAllocateMemory(t) \/ TryAllocateFails(t) \/ UseWithin(t) \/ LockForPlacing(t)
    BY <2>1, TryAllocateStep, TryFailsStep, PlacedStep, LockForPlacingStep
  <2>2. CASE Placed(t) \/ PlaceFails(t) \/ DeallocateFailed(t) \/ CreateCommittedResource(t)
    BY <2>2, PlacedStep, PlaceFailsStep, DeallocateFailedStep, CommittedStep
  <2>3. CASE CreateFails(t) \/ NameFails(t) \/ AddLiveAllocation(t) \/ HandOut(t) \/ Discard(t)
    BY <2>3, CreateFailsStep, AddLiveStep, HandOutStep, DiscardStep
  <2>4. CASE DebugDeallocateMemory(t) \/ DeallocateMemoryOfChain(t) \/ DeallocateMemory(t)
             \/ EraseLiveAllocation(t)
    BY <2>4, DebugDeallocateStep, DeallocateOfChainStep, DeallocateStep, EraseStep
  <2>5. QED
    BY <1>1, <2>1, <2>2, <2>3, <2>4 DEF Continue
<1>2. ASSUME NEW t \in Threads, Client(t) PROVE RaInv'
  <2>1. CASE CreateResource(t) \/ ImportResource(t) \/ Release(t) \/ ReleaseMemory(t)
    BY <2>1, CreateStep, ImportStep, ReleaseStep, ReleaseMemoryStep
  <2>2. CASE Map(t) \/ MapFails(t) \/ Unmap(t)
    BY <2>2, MapAndUnmapStep, MapFailsStep
  <2>3. QED
    BY <1>2, <2>1, <2>2 DEF Client
<1>3. CASE Evict
  BY <1>3, EvictStep
<1>4. CASE UNCHANGED vars
  <2>1. UNCHANGED <<config, heaps, allocs, live, debugMutex, call>>
    BY <1>4 DEF vars
  <2>2. TypeOK' /\ CallInv' /\ OneOwner'
    BY <2>1 DEF RaInv, TypeOK, CallInv, CallOK, OneOwner, NoAlloc
  <2>3. DebugInv' /\ AllocInv' /\ LiveInv'
    BY <2>1 DEF RaInv, DebugInv, DebugOK, AllocInv, AllocOK, CameFrom, OwnerOf, LiveInv, LiveOK,
                IsDebug, NoAlloc, NoEntry
  <2>4. BlocksInv'
    BY <2>1 DEF RaInv, BlocksInv, BlocksOK, Users, AllocsIn, InFlight, NoHeap
  <2>5. QED
    BY <2>2, <2>3, <2>4 DEF RaInv
<1>5. QED
  BY <1>1, <1>2, <1>3, <1>4 DEF Next

-----------------------------------------------------------------------------
(* In every state each call knows what it works on, no two own the same    *)
(* allocation, and blocks, heaps and entries of the debug allocator agree. *)
THEOREM Structure == Spec => []RaInv
BY InitRaInv, NextRaInv, PTL DEF Spec

(* Every block of a heap belongs to one allocation or to the call that is  *)
(* about to place a resource in it, whichever attempts of CreateResource   *)
(* failed before, and however the threads interleave.                      *)
THEOREM NoBlockLeaks == Spec => []BlocksMatchAllocations
<1>1. RaInv => BlocksMatchAllocations
  BY DEF RaInv, BlocksInv, BlocksOK, BlocksMatchAllocations, Users, AllocsIn, IsFree
<1>2. QED
  BY <1>1, Structure, PTL

(* The debug allocator's table of live allocations has the entries that    *)
(* are looked for, with the right allocator, although addresses are reused *)
(* before their entries are erased.                                        *)
THEOREM DebugTableStaysExact == Spec => []DebugTableExact
<1>1. RaInv => DebugTableExact
  <2> SUFFICES ASSUME RaInv, NEW a \in AllocIds
               PROVE  /\ allocs[a] # NoAlloc /\ allocs[a].allocator = "debug" =>
                           live[a] = IF heaps[allocs[a].heap].chain = "committed"
                                     THEN "this" ELSE "chain"
                      /\ live[a] # NoEntry =>
                           \/ \E t \in Threads :
                                /\ call[t].pc \in {"release", "erase"}
                                /\ call[t].alloc = a /\ debugMutex = t
                           \/ (allocs[a] # NoAlloc /\ allocs[a].allocator = "debug")
    BY DEF DebugTableExact
  <2>1. AllocOK(a) /\ LiveOK(a)
    BY DEF RaInv, AllocInv, LiveInv
  <2>2. allocs[a] # NoAlloc /\ allocs[a].allocator = "debug" =>
          live[a] = IF heaps[allocs[a].heap].chain = "committed" THEN "this" ELSE "chain"
    BY <2>1 DEF AllocOK, CameFrom, OwnerOf, Own
  <2>3. debugMutex \in Threads => call[debugMutex].pc \in {"release", "erase"}
    BY DEF RaInv, DebugInv, DebugOK
  <2>4. QED
    BY <2>1, <2>2, <2>3 DEF LiveOK, IsDebug
<1>2. QED
  BY <1>1, Structure, PTL

-----------------------------------------------------------------------------
(* What most steps leave alone: what is mapped of a heap, who is placing a *)
(* resource in it, the locks of the heaps, and the allocator's own heaps.  *)
MapsKept == \A x \in HeapIds, a \in AllocIds : Mapped(x, a)' = Mapped(x, a)
PlacingKept == \A x \in HeapIds : Placing(x)' = Placing(x)
LocksKept ==
    \A x \in HeapIds : heaps'[x] # NoHeap =>
      \/ /\ heaps[x] # NoHeap /\ heaps'[x].locks = heaps[x].locks
         /\ heaps'[x].resident = heaps[x].resident
      \/ Users(x) = 0 /\ heaps'[x].locks = 0
OwnKept ==
    \A x \in HeapIds :
      /\ heaps'[x].chain \in Own <=> heaps[x].chain \in Own
      /\ heaps[x].chain \in Own => heaps'[x].size = heaps[x].size
LocksQuiet == UNCHANGED config /\ MapsKept /\ PlacingKept /\ LocksKept
StatsQuiet == UNCHANGED mStats /\ OwnKept
Quiet == LocksQuiet /\ StatsQuiet

LEMMA NotPlacing ==
  ASSUME NEW t, OtherCallsKept(t), UNCHANGED config, call[t].pc # "placing",
         call'[t].pc # "placing"
  PROVE  PlacingKept
BY DEF PlacingKept, Placing, OtherCallsKept

LEMMA SameAllocsMaps == ASSUME UNCHANGED allocs PROVE MapsKept
BY DEF MapsKept, Mapped

(* An allocation that is not mapped, before and after.                     *)
LEMMA UnmappedMaps ==
  ASSUME TypeOK, TypeOK', NEW a \in AllocIds, OtherAllocsKept(a),
         allocs[a] = NoAlloc \/ allocs[a].maps = 0,
         allocs'[a] = NoAlloc \/ allocs'[a].maps = 0
  PROVE  MapsKept
<1> SUFFICES ASSUME NEW x \in HeapIds, NEW b \in AllocIds PROVE Mapped(x, b)' = Mapped(x, b)
  BY DEF MapsKept
<1>1. CASE b # a
  BY <1>1 DEF Mapped, OtherAllocsKept
<1>2. CASE b = a
  BY <1>2, ResourceAllocatorAssumption DEF Mapped, NoAlloc
<1>3. QED
  BY <1>1, <1>2

LEMMA SameHeapsQuiet ==
  ASSUME UNCHANGED heaps
  PROVE  LocksKept /\ OwnKept
BY DEF LocksKept, OwnKept, NoHeap, Own

(* The steps that change calls only.                                       *)
LEMMA CallsQuiet ==
  ASSUME RaInv, NEW t \in Threads,
         CreateResource(t) \/ TryAllocateFails(t) \/ CreateFails(t) \/ NameFails(t)
           \/ Discard(t) \/ EraseLiveAllocation(t)
  PROVE  Quiet
<1>1. UNCHANGED <<config, heaps, allocs, mStats>>
  BY DEF CreateResource, TryAllocateFails, CreateFails, NameFails, Discard, EraseLiveAllocation
<1>2. OtherCallsKept(t) /\ call[t].pc # "placing" /\ call'[t].pc # "placing"
  <2>1. CASE CreateResource(t)
    <3>1. PICK r \in config.requests :
            call' = [call EXCEPT ![t] = NewCall("try", r, r.attempts, "none")]
      BY <2>1 DEF CreateResource
    <3>2. call'[t] = NewCall("try", r, r.attempts, "none") /\ OtherCallsKept(t)
      BY <3>1 DEF RaInv, TypeOK, OtherCallsKept
    <3>3. QED
      BY <2>1, <3>2 DEF CreateResource, NewCall, Idle
  <2>2. CASE TryAllocateFails(t)
    <3>1. call[t].pc = "try" /\ call[t].attempts # <<>> /\ NextAttempt(t)
      BY <2>2 DEF TryAllocateFails, IsTrying
    <3>2. call[t] \in Call /\ call[t].request \in Requests /\ t \in config.threads
      BY <3>1 DEF RaInv, TypeOK, Idle, CallInv, CallOK
    <3>3. QED
      BY <1>1, <3>1, <3>2, NextAttemptCall
  <2>3. CASE CreateFails(t) \/ EraseLiveAllocation(t)
    <3>1. call[t].pc \in {"try", "erase"} /\ Return(t)
      BY <2>3 DEF CreateFails, IsTrying, EraseLiveAllocation
    <3>2. QED
      BY <3>1, ReturnCall
  <2>4. CASE NameFails(t) \/ Discard(t)
    <3>1. call[t].pc \in {"created", "return"} /\ Step(t, "release")
      BY <2>4 DEF NameFails, Discard, HasCreated
    <3>2. call[t] \in Call
      BY <3>1 DEF RaInv, TypeOK, Idle
    <3>3. OtherCallsKept(t) /\ call'[t].pc = "release"
      BY <3>1, <3>2, StepCall DEF Owning
    <3>4. QED
      BY <3>1, <3>3
  <2>5. QED
    BY <2>1, <2>2, <2>3, <2>4
<1>3. QED
  BY <1>1, <1>2, NotPlacing, SameAllocsMaps, SameHeapsQuiet DEF Quiet, LocksQuiet, StatsQuiet

(* The steps that change an allocation that is not mapped.                 *)
LEMMA AllocsQuiet ==
  ASSUME RaInv, RaInv', NEW t \in Threads,
         AddLiveAllocation(t) \/ HandOut(t) \/ Release(t) \/ DebugDeallocateMemory(t)
           \/ UseWithin(t)
  PROVE  Quiet
<1>1. UNCHANGED <<config, heaps, mStats>> /\ TypeOK /\ TypeOK'
  BY DEF AddLiveAllocation, HandOut, Release, DebugDeallocateMemory, UseWithin, RaInv
<1>2. CASE AddLiveAllocation(t) \/ HandOut(t) \/ DebugDeallocateMemory(t)
  <2>1. /\ call[t].pc \in Owning
        /\ Step(t, "return") \/ Return(t) \/ UNCHANGED call
    BY <1>2 DEF AddLiveAllocation, HandOut, HasCreated, DebugDeallocateMemory, Owning
  <2>2. PICK a \in AllocIds : /\ a = call[t].alloc /\ allocs[a] # NoAlloc /\ allocs[a] \in Alloc
                              /\ allocs[a].maps = 0 /\ call[t] \in Call
    BY <2>1, MyAlloc
  <2>3. OtherCallsKept(t) /\ call'[t].pc # "placing" /\ call[t].pc # "placing"
    <3>1. CASE Step(t, "return")
      <4>1. OtherCallsKept(t) /\ call'[t].pc = "return"
        BY <2>2, <3>1, StepCall DEF Owning
      <4>2. QED
        BY <2>1, <4>1 DEF Owning
    <3>2. CASE Return(t)
      BY <2>1, <3>2, ReturnCall DEF Owning
    <3>3. CASE UNCHANGED call
      BY <2>1, <3>3 DEF Owning, OtherCallsKept
    <3>4. QED
      BY <2>1, <3>1, <3>2, <3>3
  <2>4. allocs'[a].maps = 0 /\ OtherAllocsKept(a)
    <3>1. \/ allocs' = [allocs EXCEPT ![a].allocator = "debug"]
          \/ allocs' = [allocs EXCEPT ![a].allocator = live[a]]
          \/ allocs' = [allocs EXCEPT ![a].handedOut = TRUE]
      BY <1>2, <2>2 DEF AddLiveAllocation, HandOut, DebugDeallocateMemory
    <3>2. QED
      BY <1>1, <2>2, <3>1 DEF TypeOK, Alloc, OtherAllocsKept
  <2>5. QED
    BY <1>1, <2>2, <2>3, <2>4, NotPlacing, UnmappedMaps, SameHeapsQuiet DEF Quiet, LocksQuiet, StatsQuiet
<1>3. CASE Release(t)
  <2>1. PICK a \in AllocIds :
          /\ allocs[a] # NoAlloc /\ allocs[a].maps = 0
          /\ allocs' = [allocs EXCEPT ![a].handedOut = FALSE]
          /\ call' = [call EXCEPT ![t] = NewCall("release", NoRequest, <<>>, a)]
    BY <1>3 DEF Release
  <2>2. call[t].pc # "placing" /\ call'[t].pc = "release" /\ OtherCallsKept(t)
    BY <1>1, <1>3, <2>1 DEF Release, Idle, NewCall, TypeOK, OtherCallsKept
  <2>3. allocs'[a].maps = 0 /\ OtherAllocsKept(a)
    BY <1>1, <2>1 DEF TypeOK, Alloc, OtherAllocsKept
  <2>4. QED
    BY <1>1, <2>1, <2>2, <2>3, NotPlacing, UnmappedMaps, SameHeapsQuiet DEF Quiet, LocksQuiet, StatsQuiet
<1>4. CASE UseWithin(t)
  <2>1. call[t].pc = "place" /\ NewAllocation(t, call[t].heap, "chain")
    BY <1>4 DEF UseWithin
  <2>2. PICK h \in HeapIds : h = call[t].heap /\ call[t] \in Call
    BY <2>1, HeapOfCall DEF Holding
  <2>3. PICK a \in AllocIds, new \in Alloc :
          /\ allocs[a] = NoAlloc /\ allocs' = [allocs EXCEPT ![a] = new] /\ new.maps = 0
          /\ OtherCallsKept(t) /\ call'[t].pc = "created"
    BY <2>1, <2>2, CreatedAlloc
  <2>4. allocs'[a].maps = 0 /\ OtherAllocsKept(a)
    BY <1>1, <2>3 DEF TypeOK, OtherAllocsKept
  <2>5. QED
    BY <1>1, <2>1, <2>3, <2>4, NotPlacing, UnmappedMaps, SameHeapsQuiet DEF Quiet, LocksQuiet, StatsQuiet
<1>5. QED
  BY <1>2, <1>3, <1>4

(* A new or a reused heap is unlocked or keeps its locks.                  *)
LEMMA TryAllocateQuiet ==
  ASSUME RaInv, RaInv', NEW t \in Threads, TryAllocateMemory(t)
  PROVE  Quiet
<1>1. /\ IsTrying(t, Chains) /\ UNCHANGED <<config, allocs, mStats>>
      /\ \/ \E h \in HeapIds :
              /\ heaps[h].chain = Head(call[t].attempts)
              /\ heaps' = [heaps EXCEPT ![h].blocks = @ + 1, ![h].pooled = FALSE]
              /\ Place(t, h)
         \/ /\ HasFreeHeapId
            /\ heaps' = [heaps EXCEPT ![FreeHeapId] =
                                        NewHeap(Head(call[t].attempts), HeapSize(t), 1)]
            /\ Place(t, FreeHeapId)
  BY DEF TryAllocateMemory
<1>2. call[t].pc = "try" /\ Head(call[t].attempts) \in Chains
  BY <1>1 DEF IsTrying
<1>3. call[t] \in Call
  BY <1>2 DEF RaInv, TypeOK, Idle
<1>4. PICK h \in HeapIds :
        /\ Place(t, h) /\ OtherHeapsKept(h) /\ heaps'[h].chain \in Chains
        /\ heaps[h].chain \notin Own
        /\ \/ /\ heaps[h] # NoHeap /\ heaps'[h].locks = heaps[h].locks
              /\ heaps'[h].resident = heaps[h].resident
           \/ Users(h) = 0 /\ heaps'[h].locks = 0
  <2>1. ASSUME NEW h \in HeapIds, heaps[h].chain = Head(call[t].attempts),
               heaps' = [heaps EXCEPT ![h].blocks = @ + 1, ![h].pooled = FALSE]
        PROVE  /\ OtherHeapsKept(h) /\ heaps'[h].chain \in Chains /\ heaps[h].chain \notin Own
               /\ heaps[h] # NoHeap /\ heaps'[h].locks = heaps[h].locks
               /\ heaps'[h].resident = heaps[h].resident
    <3>1. heaps[h] # NoHeap /\ heaps[h] \in Heap /\ heaps[h].chain \notin Own
      BY <1>2, <2>1 DEF RaInv, TypeOK, NoHeap, Chains, Own
    <3>2. heaps' = [heaps EXCEPT ![h] = [heaps[h] EXCEPT !.blocks = heaps[h].blocks + 1,
                                                          !.pooled = FALSE]]
      BY <2>1, <3>1 DEF RaInv, TypeOK
    <3>3. /\ heaps'[h].chain = heaps[h].chain /\ heaps'[h].locks = heaps[h].locks
          /\ heaps'[h].resident = heaps[h].resident /\ OtherHeapsKept(h)
      BY <3>1, <3>2 DEF RaInv, TypeOK, Heap, OtherHeapsKept
    <3>4. QED
      BY <1>2, <2>1, <3>1, <3>3
  <2>2. ASSUME HasFreeHeapId,
               heaps' = [heaps EXCEPT ![FreeHeapId] =
                                        NewHeap(Head(call[t].attempts), HeapSize(t), 1)]
        PROVE  /\ FreeHeapId \in HeapIds /\ OtherHeapsKept(FreeHeapId)
               /\ heaps'[FreeHeapId].chain \in Chains /\ heaps[FreeHeapId].chain \notin Own
               /\ Users(FreeHeapId) = 0 /\ heaps'[FreeHeapId].locks = 0
    <3>1. FreeHeapId \in HeapIds /\ heaps[FreeHeapId] = NoHeap /\ Users(FreeHeapId) = 0
      BY <2>2, NewHeapUnused
    <3>2. /\ heaps'[FreeHeapId] = NewHeap(Head(call[t].attempts), HeapSize(t), 1)
          /\ OtherHeapsKept(FreeHeapId)
      BY <2>2, <3>1 DEF RaInv, TypeOK, OtherHeapsKept
    <3>3. QED
      BY <1>2, <3>1, <3>2 DEF NewHeap, NoHeap, Own
  <2>3. QED
    BY <1>1, <2>1, <2>2
<1>5. OtherCallsKept(t) /\ call'[t].pc = "place"
  BY <1>3, <1>4, PlaceCall
<1>6. LocksKept
  BY <1>4 DEF LocksKept, OtherHeapsKept
<1>7. OwnKept
  <2>1. heaps'[h].chain \notin Own
    BY <1>4 DEF Chains, Own
  <2>2. QED
    BY <1>4, <2>1 DEF OwnKept, OtherHeapsKept, Own
<1>8. PlacingKept /\ MapsKept
  BY <1>1, <1>2, <1>5, NotPlacing, SameAllocsMaps
<1>9. QED
  BY <1>1, <1>6, <1>7, <1>8 DEF Quiet, LocksQuiet, StatsQuiet

(* A chain that takes a block back leaves the locks of the heap.           *)
LEMMA BlockReturnedQuiet ==
  ASSUME RaInv, NEW h \in HeapIds, heaps[h] \in Heap, heaps[h].chain \in Chains,
         heaps[h].blocks >= 1, heaps[h].blocks = Users(h), Users(h)' = Users(h) - 1,
         heaps' = [heaps EXCEPT ![h] = DeallocateBlock(h)]
  PROVE  LocksKept /\ OwnKept
<1>1. /\ OtherHeapsKept(h)
      /\ heaps'[h] # NoHeap =>
           /\ heaps'[h].chain = heaps[h].chain /\ heaps'[h].locks = heaps[h].locks
           /\ heaps'[h].resident = heaps[h].resident
  BY BlockReturned
<1>2. heaps[h] # NoHeap /\ heaps[h].chain \notin Own /\ heaps'[h].chain \notin Own
  BY <1>1 DEF NoHeap, Chains, Own
<1>3. LocksKept
  BY <1>1, <1>2 DEF LocksKept, OtherHeapsKept
<1>4. OwnKept
  BY <1>1, <1>2 DEF OwnKept, OtherHeapsKept, Own
<1>5. QED
  BY <1>3, <1>4

LEMMA DeallocateFailedQuiet ==
  ASSUME RaInv, NEW t \in Threads, DeallocateFailed(t)
  PROVE  Quiet
<1>1. /\ call[t].pc = "failed" /\ NextAttempt(t) /\ UNCHANGED <<config, allocs, mStats>>
      /\ heaps' = [heaps EXCEPT ![call[t].heap] = DeallocateBlock(call[t].heap)]
  BY DEF DeallocateFailed
<1>2. PICK h \in HeapIds :
        /\ h = call[t].heap /\ heaps[h] \in Heap /\ heaps[h].chain \in Chains
        /\ heaps[h].blocks >= 1 /\ heaps[h].blocks = Users(h) /\ t \in InFlight(h)
  BY <1>1, HeapOfCall DEF Holding
<1>3. /\ call[t] \in Call /\ call[t].request \in Requests /\ t \in config.threads
      /\ call[t].attempts # <<>>
  BY <1>1 DEF RaInv, TypeOK, Idle, CallInv, CallOK, Holding
<1>4. OtherCallsKept(t) /\ call'[t].pc = "try"
  BY <1>1, <1>3, NextAttemptCall
<1>5. Users(h)' = Users(h) - 1
  <2>1. t \notin InFlight(h)'
    BY <1>4, HoldsBlock DEF Holding
  <2>2. QED
    BY <1>1, <1>2, <1>4, <2>1, HoldersChange
<1>6. LocksKept /\ OwnKept
  BY <1>1, <1>2, <1>5, BlockReturnedQuiet
<1>7. PlacingKept /\ MapsKept
  BY <1>1, <1>4, NotPlacing, SameAllocsMaps
<1>8. QED
  BY <1>1, <1>6, <1>7 DEF Quiet, LocksQuiet, StatsQuiet

(* A deleted allocation was not mapped.                                    *)
LEMMA DeletedMaps ==
  ASSUME RaInv, RaInv', NEW t \in Threads, call[t].pc = "release", Deallocated(t),
         UNCHANGED <<config, live, debugMutex>>
  PROVE  MapsKept /\ PlacingKept
<1>1. PICK a \in AllocIds : a = call[t].alloc /\ allocs[a].maps = 0
  BY MyAlloc DEF Owning
<1>2. /\ OtherCallsKept(t) /\ call'[t].pc \in {"idle", "erase"}
      /\ allocs'[a] = NoAlloc /\ OtherAllocsKept(a)
  BY <1>1, DeletedCall
<1>3. TypeOK /\ TypeOK'
  BY DEF RaInv
<1>4. QED
  BY <1>1, <1>2, <1>3, NotPlacing, UnmappedMaps

LEMMA DeallocateOfChainQuiet ==
  ASSUME RaInv, RaInv', NEW t \in Threads, DeallocateMemoryOfChain(t)
  PROVE  Quiet
<1>1. /\ call[t].pc = "release" /\ allocs[call[t].alloc].allocator = "chain" /\ Deallocated(t)
      /\ UNCHANGED <<config, live, debugMutex, mStats>>
      /\ heaps' = [heaps EXCEPT ![allocs[call[t].alloc].heap] =
                                    DeallocateBlock(allocs[call[t].alloc].heap)]
  BY DEF DeallocateMemoryOfChain
<1>2. PICK a \in AllocIds : a = call[t].alloc /\ allocs[a] # NoAlloc
  BY <1>1, MyAlloc DEF Owning
<1>3. PICK h \in HeapIds :
        /\ h = allocs[a].heap /\ heaps[h] \in Heap
        /\ heaps[h].blocks >= 1 /\ heaps[h].blocks = Users(h)
  BY <1>2, HeapOfAlloc
<1>4. heaps[h].chain \in Chains
  <2>1. AllocOK(a)
    BY DEF RaInv, AllocInv
  <2>2. OwnerOf(h) = "chain"
    BY <1>1, <1>2, <1>3, <2>1 DEF AllocOK, CameFrom
  <2>3. QED
    BY <1>3, <2>2 DEF OwnerOf, Heap, Own, Attempts
<1>5. Users(h)' = Users(h) - 1
  BY <1>1, <1>2, <1>3, DeletedUsers
<1>6. LocksKept /\ OwnKept
  BY <1>1, <1>2, <1>3, <1>4, <1>5, BlockReturnedQuiet
<1>7. MapsKept /\ PlacingKept
  BY <1>1, DeletedMaps
<1>8. QED
  BY <1>1, <1>6, <1>7 DEF Quiet, LocksQuiet, StatsQuiet

(* No heap of the allocator's own is in a pool.                            *)
LEMMA ReleaseMemoryQuiet ==
  ASSUME RaInv, NEW t \in Threads, ReleaseMemory(t)
  PROVE  Quiet
<1>1. UNCHANGED <<config, allocs, mStats, call>>
  BY ReleasedHeaps
<1>2. PICK hs \in SUBSET {h \in HeapIds : heaps[h] # NoHeap /\ heaps[h].pooled} :
        heaps' = [h \in HeapIds |-> IF h \in hs THEN NoHeap ELSE heaps[h]]
  BY ReleasedHeaps
<1>3. \A h \in hs : heaps[h].chain \notin Own
  <2> SUFFICES ASSUME NEW h \in hs PROVE heaps[h].chain \notin Own
    OBVIOUS
  <2>1. h \in HeapIds /\ heaps[h] # NoHeap /\ heaps[h].pooled /\ BlocksOK(h)
    BY <1>2 DEF RaInv, BlocksInv
  <2>2. QED
    BY <2>1 DEF BlocksOK
<1>4. LocksKept
  BY <1>2 DEF LocksKept
<1>5. OwnKept
  BY <1>2, <1>3 DEF OwnKept, NoHeap, Own
<1>6. MapsKept /\ PlacingKept
  BY <1>1, SameAllocsMaps DEF PlacingKept, Placing
<1>7. QED
  BY <1>1, <1>4, <1>5, <1>6 DEF Quiet, LocksQuiet, StatsQuiet

-----------------------------------------------------------------------------
(* What is mapped of a heap, and who is placing a resource in it.          *)
LEMMA MapLocksType ==
  ASSUME TypeOK, NEW x \in HeapIds
  PROVE  /\ MapLocks(x) \in Nat /\ \A a \in AllocIds : Mapped(x, a) <= MapLocks(x)
         /\ IsFiniteSet(Placing(x)) /\ Cardinality(Placing(x)) \in Nat
<1>1. ASSUME NEW a \in AllocIds PROVE Mapped(x, a) \in Nat
  BY ResourceAllocatorAssumption DEF Mapped, TypeOK, Alloc, NoAlloc
<1>2. PICK f : f = MapsOf(x)
  OBVIOUS
<1>3. \A a \in AllocIds : f[a] = Mapped(x, a) /\ f[a] \in Nat
  BY <1>1, <1>2 DEF MapsOf
<1>4. IsFiniteSet(AllocIds)
  BY ResourceAllocatorAssumption
<1>5. SumOver(f, AllocIds) \in Nat /\ \A a \in AllocIds : f[a] <= SumOver(f, AllocIds)
  BY <1>3, <1>4, SumNat
<1>6. IsFiniteSet(Placing(x)) /\ Cardinality(Placing(x)) \in Nat
  BY ResourceAllocatorAssumption, FS_Subset, FS_CardinalityType DEF Placing
<1>7. QED
  BY <1>2, <1>3, <1>5, <1>6 DEF MapLocks

(* A heap without users is neither mapped nor being placed in.             *)
LEMMA UnusedHeapLocks ==
  ASSUME TypeOK, NEW x \in HeapIds, Users(x) = 0
  PROVE  MapLocks(x) = 0 /\ Placing(x) = {} /\ Cardinality(Placing(x)) = 0
<1>1. IsFiniteSet(AllocsIn(x)) /\ IsFiniteSet(InFlight(x))
  BY ResourceAllocatorAssumption, FS_Subset DEF AllocsIn, InFlight
<1>2. /\ Cardinality(AllocsIn(x)) \in Nat /\ Cardinality(InFlight(x)) \in Nat
      /\ Cardinality(AllocsIn(x)) = 0 <=> AllocsIn(x) = {}
      /\ Cardinality(InFlight(x)) = 0 <=> InFlight(x) = {}
  BY <1>1, FS_CardinalityType, FS_EmptySet
<1>3. AllocsIn(x) = {} /\ InFlight(x) = {}
  BY <1>2 DEF Users
<1>4. Placing(x) = {}
  BY <1>3 DEF Placing, InFlight
<1>5. \A a \in AllocIds : Mapped(x, a) = 0
  BY <1>3 DEF AllocsIn, Mapped
<1>6. PICK f : f = MapsOf(x)
  OBVIOUS
<1>7. \A a \in AllocIds : f[a] = 0
  BY <1>5, <1>6 DEF MapsOf
<1>8. SumOver(f, AllocIds) = 0
  BY <1>7, SumZero, ResourceAllocatorAssumption
<1>9. QED
  BY <1>4, <1>6, <1>8, FS_EmptySet DEF MapLocks

LEMMA MapLocksKept ==
  ASSUME MapsKept, NEW x \in HeapIds
  PROVE  MapLocks(x)' = MapLocks(x)
<1>1. MapsOf(x)' = MapsOf(x)
  BY DEF MapsOf, MapsKept
<1>2. QED
  BY <1>1 DEF MapLocks

LEMMA QuietLocks ==
  ASSUME RaInv, LocksInv, LocksQuiet
  PROVE  LocksInv'
<1> SUFFICES ASSUME NEW x \in HeapIds, heaps'[x] # NoHeap PROVE LocksOK(x)'
  BY DEF LocksInv, LocksOK, NoHeap
<1>1. TypeOK /\ LocksOK(x)
  BY DEF RaInv, LocksInv
<1>2. MapLocks(x)' = MapLocks(x) /\ Placing(x)' = Placing(x)
  BY MapLocksKept DEF LocksQuiet, PlacingKept
<1>3. CASE /\ heaps[x] # NoHeap /\ heaps'[x].locks = heaps[x].locks
           /\ heaps'[x].resident = heaps[x].resident
  BY <1>1, <1>2, <1>3 DEF LocksOK, LocksQuiet, NoHeap
<1>4. CASE Users(x) = 0 /\ heaps'[x].locks = 0
  <2>1. MapLocks(x) = 0 /\ Cardinality(Placing(x)) = 0
    BY <1>1, <1>4, UnusedHeapLocks
  <2>2. QED
    BY <1>2, <1>4, <2>1 DEF LocksOK
<1>5. QED
  BY <1>3, <1>4 DEF LocksQuiet, LocksKept

(* A heap with as many locks as it needs; one with fewer is the only       *)
(* concern of the thread whose lock failed.                                *)
Covered(h) == heaps[h].locks >= MapLocks(h) + Cardinality(Placing(h))

LEMMA CoveredForOthers ==
  ASSUME RaInv, LocksInv, FailingLocksAreSerial, NEW t \in Threads, t \in config.threads,
         call[t].pc # "placing", NEW h \in HeapIds, heaps[h] # NoHeap
  PROVE  Covered(h)
<1>1. TypeOK /\ LocksOK(h) /\ CallInv
  BY DEF RaInv, LocksInv
<1>2. CASE config.lockFails
  <2>1. Placing(h) = {}
    <3>1. \A u \in config.threads : u = t
      BY <1>1, <1>2 DEF FailingLocksAreSerial, TypeOK
    <3>2. \A u \in Threads : call[u].pc = "placing" => u \in config.threads
      BY <1>1 DEF CallInv, CallOK
    <3>3. QED
      BY <3>1, <3>2 DEF Placing
  <2>2. Cardinality(Placing(h)) = 0
    BY <2>1, FS_EmptySet
  <2>3. QED
    BY <1>1, <2>2 DEF LocksOK, Covered
<1>3. CASE ~config.lockFails
  BY <1>1, <1>3 DEF LocksOK, Covered
<1>4. QED
  BY <1>2, <1>3

(* A step on one heap.                                                     *)
LEMMA LocksStep ==
  ASSUME RaInv, LocksInv, UNCHANGED config, NEW h \in HeapIds, OtherHeapsKept(h), LocksOK(h)',
         \A x \in HeapIds \ {h} : MapLocks(x)' = MapLocks(x) /\ Placing(x)' = Placing(x)
  PROVE  LocksInv'
<1> SUFFICES ASSUME NEW x \in HeapIds \ {h} PROVE LocksOK(x)'
  BY DEF LocksInv
<1>1. LocksOK(x) /\ heaps'[x] = heaps[x]
  BY DEF LocksInv, OtherHeapsKept
<1>2. QED
  BY <1>1 DEF LocksOK, NoHeap

(* How the threads that place a resource in a heap change with one call.   *)
LEMMA PlacingChange ==
  ASSUME RaInv, UNCHANGED config, NEW t, OtherCallsKept(t), NEW x \in HeapIds
  PROVE  /\ Cardinality(Placing(x)) \in Nat /\ Cardinality(Placing(x))' \in Nat
         /\ Cardinality(Placing(x))' =
              Cardinality(Placing(x)) + (IF t \in Placing(x)' THEN 1 ELSE 0)
                                      - (IF t \in Placing(x) THEN 1 ELSE 0)
<1>1. IsFiniteSet(Placing(x))
  BY MapLocksType DEF RaInv
<1>2. Placing(x)' \ {t} = Placing(x) \ {t}
  BY DEF Placing, OtherCallsKept
<1>3. QED
  BY <1>1, <1>2, DifferInOne

LEMMA LockForPlacingLocks ==
  ASSUME RaInv, LocksInv, FailingLocksAreSerial, NEW t \in Threads, LockForPlacing(t)
  PROVE  LocksInv'
<1>1. /\ call[t].pc = "place" /\ Step(t, "placing") /\ UNCHANGED <<config, allocs>>
  BY DEF LockForPlacing
<1>2. PICK h \in HeapIds : /\ h = call[t].heap /\ heaps[h] \in Heap /\ heaps[h] # NoHeap
                           /\ call[t] \in Call
  BY <1>1, HeapOfCall DEF Holding
<1>3. OtherCallsKept(t) /\ call'[t].pc = "placing" /\ call'[t].heap = h
  BY <1>1, <1>2, StepCall DEF Holding
<1>4. \A x \in HeapIds : MapLocks(x)' = MapLocks(x)
  BY <1>1, SameAllocsMaps, MapLocksKept
<1>5. \A x \in HeapIds : t \notin Placing(x) /\ (t \in Placing(x)' <=> config.residency /\ x = h)
  BY <1>1, <1>3 DEF Placing
<1>6. \A x \in HeapIds \ {h} : Placing(x)' = Placing(x)
  BY <1>1, <1>3, <1>5 DEF Placing, OtherCallsKept
<1>7. t \in config.threads
  BY <1>1 DEF RaInv, CallInv, CallOK
<1>8. Covered(h) /\ LocksOK(h)
  BY <1>1, <1>2, <1>7, CoveredForOthers DEF LocksInv
<1>9. /\ MapLocks(h) \in Nat /\ Cardinality(Placing(h)) \in Nat
      /\ Cardinality(Placing(h))' = Cardinality(Placing(h)) + (IF config.residency THEN 1 ELSE 0)
  BY <1>1, <1>3, <1>5, PlacingChange, MapLocksType DEF RaInv
<1>10. OtherHeapsKept(h) /\ LocksOK(h)'
  <2>1. CASE ~config.residency
    <3>1. UNCHANGED heaps
      BY <2>1 DEF LockForPlacing
    <3>2. QED
      BY <1>1, <1>4, <1>8, <1>9, <2>1, <3>1 DEF OtherHeapsKept, LocksOK, NoHeap
  <2>2. CASE config.residency /\ UNCHANGED heaps /\ CanLockFail(heaps[call[t].heap])
    <3>1. config.lockFails /\ heaps[h].locks = 0
      BY <1>2, <2>2 DEF CanLockFail
    <3>2. MapLocks(h) = 0
      BY <1>8, <1>9, <3>1 DEF Covered
    <3>3. QED
      BY <1>1, <1>4, <2>2, <3>1, <3>2 DEF OtherHeapsKept, LocksOK
  <2>3. CASE config.residency /\ heaps' = [heaps EXCEPT ![call[t].heap] = LockHeap(@)]
    <3>1. heaps'[h] = LockHeap(heaps[h]) /\ OtherHeapsKept(h)
      BY <1>2, <2>3 DEF RaInv, TypeOK, OtherHeapsKept
    <3>2. heaps'[h].locks = heaps[h].locks + 1 /\ heaps'[h].resident /\ heaps[h].locks \in Nat
      BY <1>2, <3>1, LockedHeap DEF Heap
    <3>3. heaps'[h].locks >= MapLocks(h)' + Cardinality(Placing(h))'
      BY <1>4, <1>8, <1>9, <2>3, <3>2 DEF Covered
    <3>4. QED
      BY <3>1, <3>2, <3>3 DEF LocksOK
  <2>4. QED
    BY <2>1, <2>2, <2>3 DEF LockForPlacing
<1>11. QED
  BY <1>1, <1>4, <1>6, <1>10, LocksStep

(* The scoped lock ends: it takes away its own lock, or none is left.      *)
LEMMA PlacedLocks ==
  ASSUME RaInv, RaInv', LocksInv, NEW t \in Threads, Placed(t) \/ PlaceFails(t)
  PROVE  LocksInv'
<1>1. /\ call[t].pc = "placing" /\ UNCHANGED config
      /\ heaps' = [heaps EXCEPT ![call[t].heap] = Unlocked(call[t].heap)]
  BY DEF Placed, PlaceFails
<1>2. PICK h \in HeapIds : /\ h = call[t].heap /\ heaps[h] \in Heap /\ heaps[h] # NoHeap
                           /\ call[t] \in Call
  BY <1>1, HeapOfCall DEF Holding
<1>3. OtherCallsKept(t) /\ call'[t].pc \in {"created", "failed"} /\ MapsKept
  <2>1. CASE Placed(t)
    <3>1. PICK a \in AllocIds, new \in Alloc :
            /\ allocs[a] = NoAlloc /\ allocs' = [allocs EXCEPT ![a] = new] /\ new.maps = 0
            /\ OtherCallsKept(t) /\ call'[t].pc = "created"
      BY <1>2, <2>1, CreatedAlloc DEF Placed
    <3>2. allocs'[a].maps = 0 /\ OtherAllocsKept(a) /\ TypeOK /\ TypeOK'
      BY <3>1 DEF RaInv, TypeOK, OtherAllocsKept
    <3>3. QED
      BY <3>1, <3>2, UnmappedMaps
  <2>2. CASE PlaceFails(t)
    <3>1. Step(t, "failed") /\ UNCHANGED allocs
      BY <2>2 DEF PlaceFails
    <3>2. OtherCallsKept(t) /\ call'[t].pc = "failed"
      BY <1>2, <3>1, StepCall DEF Holding
    <3>3. QED
      BY <3>1, <3>2, SameAllocsMaps
  <2>3. QED
    BY <2>1, <2>2
<1>4. \A x \in HeapIds : MapLocks(x)' = MapLocks(x)
  BY <1>3, MapLocksKept
<1>5. \A x \in HeapIds : t \notin Placing(x)' /\ (t \in Placing(x) <=> config.residency /\ x = h)
  BY <1>1, <1>2, <1>3 DEF Placing
<1>6. \A x \in HeapIds \ {h} : Placing(x)' = Placing(x)
  BY <1>1, <1>3, <1>5 DEF Placing, OtherCallsKept
<1>7. /\ MapLocks(h) \in Nat /\ Cardinality(Placing(h)) \in Nat /\ Cardinality(Placing(h))' \in Nat
      /\ Cardinality(Placing(h))' = Cardinality(Placing(h)) - (IF config.residency THEN 1 ELSE 0)
  BY <1>1, <1>3, <1>5, PlacingChange, MapLocksType DEF RaInv
<1>8. heaps'[h] = Unlocked(h) /\ OtherHeapsKept(h) /\ LocksOK(h)
  BY <1>1, <1>2 DEF RaInv, TypeOK, OtherHeapsKept, LocksInv
<1>9. LocksOK(h)'
  <2>1. CASE ~config.residency
    BY <1>1, <1>4, <1>7, <1>8, <2>1 DEF LocksOK, Unlocked, NoHeap
  <2>2. CASE config.residency
    <3>1. /\ heaps'[h].locks = (IF heaps[h].locks > 0 THEN heaps[h].locks - 1 ELSE 0)
          /\ heaps'[h].resident = heaps[h].resident /\ heaps[h].locks \in Nat
      BY <1>2, <1>8, <2>2, UnlockedHeap DEF Unlocked, Heap
    <3>2. CASE Covered(h)
      <4>1. heaps'[h].locks >= MapLocks(h)' + Cardinality(Placing(h))'
        BY <1>4, <1>7, <2>2, <3>1, <3>2 DEF Covered
      <4>2. heaps'[h].locks > 0 => heaps'[h].resident
        BY <1>2, <1>8, <3>1 DEF LocksOK
      <4>3. QED
        BY <4>1, <4>2 DEF LocksOK
    <3>3. CASE config.lockFails /\ heaps[h].locks = 0 /\ MapLocks(h) = 0
      BY <1>1, <1>4, <3>1, <3>3 DEF LocksOK
    <3>4. QED
      BY <1>2, <1>8, <3>2, <3>3 DEF LocksOK, Covered
  <2>3. QED
    BY <2>1, <2>2
<1>10. QED
  BY <1>1, <1>4, <1>6, <1>8, <1>9, LocksStep

(* What is mapped of the heaps when one allocation is mapped or unmapped.  *)
LEMMA MapLocksChange ==
  ASSUME RaInv, RaInv', NEW a \in AllocIds, allocs[a] # NoAlloc, NEW maps \in Nat,
         allocs' = [allocs EXCEPT ![a].maps = maps], NEW x \in HeapIds
  PROVE  /\ MapLocks(x) \in Nat /\ MapLocks(x)' \in Int
         /\ MapLocks(x)' = IF x = allocs[a].heap /\ allocs[a].residency
                           THEN MapLocks(x) + maps - allocs[a].maps ELSE MapLocks(x)
<1>1. /\ allocs[a] \in Alloc /\ allocs'[a].maps = maps /\ allocs'[a].heap = allocs[a].heap
      /\ allocs'[a].residency = allocs[a].residency /\ OtherAllocsKept(a)
  BY DEF RaInv, TypeOK, Alloc, OtherAllocsKept
<1>2. PICK f : f = MapsOf(x)
  OBVIOUS
<1>3. PICK g : g = MapsOf(x)'
  OBVIOUS
<1>4. \A b \in AllocIds : f[b] = Mapped(x, b) /\ g[b] = Mapped(x, b)'
  BY <1>2, <1>3 DEF MapsOf
<1>5. \A b \in AllocIds : Mapped(x, b) \in Int
  BY ResourceAllocatorAssumption DEF Mapped, RaInv, TypeOK, Alloc, NoAlloc
<1>6. \A b \in AllocIds \ {a} : Mapped(x, b)' = Mapped(x, b)
  BY <1>1 DEF Mapped, OtherAllocsKept
<1>7. Mapped(x, a)' = IF allocs[a].heap = x /\ allocs[a].residency THEN maps ELSE 0
  BY <1>1 DEF Mapped
<1>8. /\ IsFiniteSet(AllocIds) /\ \A b \in AllocIds : f[b] \in Int /\ g[b] \in Int
      /\ \A b \in AllocIds \ {a} : g[b] = f[b]
  BY <1>4, <1>5, <1>6, <1>7, ResourceAllocatorAssumption
<1>9. /\ SumOver(f, AllocIds) \in Int /\ SumOver(g, AllocIds) \in Int
      /\ SumOver(g, AllocIds) = SumOver(f, AllocIds) + g[a] - f[a]
  BY <1>8, SumChange
<1>10. MapLocks(x) = SumOver(f, AllocIds) /\ MapLocks(x)' = SumOver(g, AllocIds)
  BY <1>2, <1>3 DEF MapLocks
<1>11. MapLocks(x)' = MapLocks(x) + Mapped(x, a)' - Mapped(x, a)
  BY <1>4, <1>9, <1>10
<1>12. MapLocks(x) \in Nat
  BY MapLocksType DEF RaInv
<1>13. Mapped(x, a) = IF allocs[a].heap = x /\ allocs[a].residency THEN allocs[a].maps ELSE 0
  BY DEF Mapped
<1>14. allocs[a].maps \in Nat
  BY <1>1 DEF Alloc
<1>15. QED
  BY <1>7, <1>9, <1>10, <1>11, <1>12, <1>13, <1>14

(* Locks are added and taken away with what is mapped.                     *)
LEMMA MapLocksStep ==
  ASSUME RaInv, RaInv', LocksInv, FailingLocksAreSerial, NEW t \in Threads, Map(t) \/ Unmap(t)
  PROVE  LocksInv'
<1>1. call[t] = Idle /\ t \in config.threads /\ UNCHANGED <<config, call>>
  BY DEF Map, Unmap
<1>2. PICK a \in AllocIds :
        /\ allocs[a] # NoAlloc
        /\ \/ /\ allocs' = [allocs EXCEPT ![a].maps = @ + 1]
              /\ heaps' = IF allocs[a].residency
                          THEN [heaps EXCEPT ![allocs[a].heap] = LockHeap(@)] ELSE heaps
           \/ /\ allocs' = [allocs EXCEPT ![a].maps = @ - 1] /\ allocs[a].maps > 0
              /\ heaps' = IF allocs[a].residency
                          THEN [heaps EXCEPT ![allocs[a].heap] = UnlockHeap(@)] ELSE heaps
  BY DEF Map, Unmap
<1>3. PICK h \in HeapIds :
        /\ h = allocs[a].heap /\ heaps[h] \in Heap /\ heaps[h] # NoHeap /\ allocs[a] \in Alloc
        /\ allocs[a].maps \in Nat /\ heaps[h].locks \in Nat
  BY <1>2, HeapOfAlloc DEF Alloc, Heap
<1>4. PICK maps \in Nat :
        /\ allocs' = [allocs EXCEPT ![a].maps = maps]
        /\ \/ /\ maps = allocs[a].maps + 1
              /\ heaps' = IF allocs[a].residency
                          THEN [heaps EXCEPT ![h] = LockHeap(@)] ELSE heaps
           \/ /\ maps = allocs[a].maps - 1 /\ allocs[a].maps > 0
              /\ heaps' = IF allocs[a].residency
                          THEN [heaps EXCEPT ![h] = UnlockHeap(@)] ELSE heaps
  <2>1. CASE allocs' = [allocs EXCEPT ![a].maps = @ + 1]
             /\ heaps' = IF allocs[a].residency
                         THEN [heaps EXCEPT ![h] = LockHeap(@)] ELSE heaps
    <3>1. PICK n \in Nat : n = allocs[a].maps + 1
      BY <1>3
    <3>2. allocs' = [allocs EXCEPT ![a].maps = n]
      BY <2>1, <3>1
    <3>3. QED
      BY <2>1, <3>1, <3>2
  <2>2. CASE /\ allocs' = [allocs EXCEPT ![a].maps = @ - 1] /\ allocs[a].maps > 0
             /\ heaps' = IF allocs[a].residency
                         THEN [heaps EXCEPT ![h] = UnlockHeap(@)] ELSE heaps
    <3>1. PICK n \in Nat : n = allocs[a].maps - 1
      BY <1>3, <2>2
    <3>2. allocs' = [allocs EXCEPT ![a].maps = n]
      BY <2>2, <3>1
    <3>3. QED
      BY <2>2, <3>1, <3>2
  <2>3. QED
    BY <1>2, <1>3, <2>1, <2>2
<1>5. \A x \in HeapIds :
        /\ MapLocks(x) \in Nat
        /\ MapLocks(x)' = IF x = h /\ allocs[a].residency
                          THEN MapLocks(x) + maps - allocs[a].maps ELSE MapLocks(x)
  BY <1>2, <1>3, <1>4, MapLocksChange
<1>6. \A x \in HeapIds : Placing(x)' = Placing(x)
  BY <1>1 DEF Placing
<1>7. Covered(h) /\ LocksOK(h) /\ Cardinality(Placing(h)) \in Nat /\ Mapped(h, a) <= MapLocks(h)
  BY <1>1, <1>3, CoveredForOthers, MapLocksType DEF Idle, LocksInv, RaInv
<1>8. OtherHeapsKept(h) /\ LocksOK(h)'
  <2>1. CASE ~allocs[a].residency
    <3>1. UNCHANGED heaps
      BY <1>4, <2>1
    <3>2. MapLocks(h)' = MapLocks(h) /\ Placing(h)' = Placing(h)
      BY <1>5, <1>6, <2>1
    <3>3. QED
      BY <1>1, <1>7, <3>1, <3>2 DEF OtherHeapsKept, LocksOK, NoHeap
  <2>2. CASE allocs[a].residency /\ maps = allocs[a].maps + 1
             /\ heaps' = [heaps EXCEPT ![h] = LockHeap(@)]
    <3>1. heaps'[h] = LockHeap(heaps[h]) /\ OtherHeapsKept(h)
      BY <2>2 DEF RaInv, TypeOK, OtherHeapsKept
    <3>2. heaps'[h].locks = heaps[h].locks + 1 /\ heaps'[h].resident
      BY <1>3, <3>1, LockedHeap
    <3>3. MapLocks(h)' = MapLocks(h) + 1 /\ MapLocks(h) \in Nat /\ Placing(h)' = Placing(h)
      BY <1>3, <1>5, <1>6, <2>2
    <3>4. heaps'[h].locks >= MapLocks(h)' + Cardinality(Placing(h)')
      BY <1>3, <1>7, <3>2, <3>3 DEF Covered
    <3>5. QED
      BY <3>1, <3>2, <3>4 DEF LocksOK
  <2>3. CASE allocs[a].residency /\ maps = allocs[a].maps - 1 /\ allocs[a].maps > 0
             /\ heaps' = [heaps EXCEPT ![h] = UnlockHeap(@)]
    <3>1. heaps'[h] = UnlockHeap(heaps[h]) /\ OtherHeapsKept(h)
      BY <2>3 DEF RaInv, TypeOK, OtherHeapsKept
    <3>2. /\ heaps'[h].locks = (IF heaps[h].locks > 0 THEN heaps[h].locks - 1 ELSE 0)
          /\ heaps'[h].resident = heaps[h].resident
      BY <1>3, <3>1, UnlockedHeap
    <3>3. MapLocks(h)' = MapLocks(h) - 1 /\ MapLocks(h) \in Nat /\ Placing(h)' = Placing(h)
      BY <1>3, <1>5, <1>6, <2>3
    <3>4. MapLocks(h) > 0
      BY <1>3, <1>7, <2>3, <3>3 DEF Mapped
    <3>5. heaps'[h].locks >= MapLocks(h)' + Cardinality(Placing(h)')
      BY <1>3, <1>7, <3>2, <3>3, <3>4 DEF Covered
    <3>6. heaps'[h].locks > 0 => heaps'[h].resident
      BY <1>3, <1>7, <3>2 DEF LocksOK
    <3>7. QED
      BY <3>1, <3>5, <3>6 DEF LocksOK
  <2>4. QED
    BY <1>4, <2>1, <2>2, <2>3
<1>9. \A x \in HeapIds \ {h} : MapLocks(x)' = MapLocks(x) /\ Placing(x)' = Placing(x)
  BY <1>5, <1>6
<1>10. QED
  BY <1>1, <1>8, <1>9, LocksStep

(* The lock of a Map that failed stays: there are more than are needed.    *)
LEMMA MapFailsLocks ==
  ASSUME RaInv, LocksInv, FailingLocksAreSerial, NEW t \in Threads, MapFails(t)
  PROVE  LocksInv'
<1>1. call[t] = Idle /\ t \in config.threads /\ UNCHANGED <<config, allocs, call>>
  BY DEF MapFails
<1>2. PICK a \in AllocIds :
        /\ allocs[a] # NoAlloc
        /\ heaps' = [heaps EXCEPT ![allocs[a].heap] = LockHeap(heaps[allocs[a].heap])]
  BY DEF MapFails
<1>3. PICK h \in HeapIds : /\ h = allocs[a].heap /\ heaps[h] \in Heap /\ heaps[h] # NoHeap
                           /\ heaps[h].locks \in Nat
  BY <1>2, HeapOfAlloc DEF Heap
<1>4. heaps'[h] = LockHeap(heaps[h]) /\ OtherHeapsKept(h)
  BY <1>2, <1>3 DEF RaInv, TypeOK, OtherHeapsKept
<1>5. heaps'[h].locks = heaps[h].locks + 1 /\ heaps'[h].resident
  BY <1>3, <1>4, LockedHeap
<1>6. \A x \in HeapIds : MapLocks(x)' = MapLocks(x) /\ Placing(x)' = Placing(x)
  BY <1>1, SameAllocsMaps, MapLocksKept DEF Placing
<1>7. Covered(h) /\ MapLocks(h) \in Nat /\ Cardinality(Placing(h)) \in Nat
  BY <1>1, <1>3, CoveredForOthers, MapLocksType DEF Idle, RaInv
<1>8. MapLocks(h)' = MapLocks(h) /\ Placing(h)' = Placing(h)
  BY <1>6
<1>9. heaps'[h].locks >= MapLocks(h)' + Cardinality(Placing(h)')
  BY <1>3, <1>5, <1>7, <1>8 DEF Covered
<1>10. LocksOK(h)'
  BY <1>5, <1>9 DEF LocksOK
<1>11. QED
  BY <1>1, <1>4, <1>6, <1>10, LocksStep

LEMMA EvictLocks ==
  ASSUME RaInv, LocksInv, Evict
  PROVE  LocksInv'
<1>1. PICK h \in HeapIds : /\ heaps[h] # NoHeap /\ heaps[h].locks = 0
                           /\ heaps' = [heaps EXCEPT ![h].resident = FALSE]
  BY DEF Evict
<1>2. UNCHANGED <<config, allocs, call>>
  BY DEF Evict
<1>3. heaps[h] \in Heap
  BY <1>1 DEF RaInv, TypeOK
<1>4. heaps'[h].locks = 0 /\ OtherHeapsKept(h)
  BY <1>1, <1>3 DEF RaInv, TypeOK, Heap, OtherHeapsKept
<1>5. \A x \in HeapIds : MapLocks(x)' = MapLocks(x) /\ Placing(x)' = Placing(x)
  BY <1>2, SameAllocsMaps, MapLocksKept DEF Placing
<1>6. LocksOK(h)
  BY DEF LocksInv
<1>7. LocksOK(h)'
  BY <1>1, <1>2, <1>4, <1>5, <1>6 DEF LocksOK
<1>8. QED
  BY <1>2, <1>4, <1>5, <1>7, LocksStep

(* A heap of the allocator's own comes without locks and goes unmapped.    *)
LEMMA OwnHeapLocks ==
  ASSUME RaInv, RaInv', NEW t \in Threads,
         CreateCommittedResource(t) \/ ImportResource(t) \/ DeallocateMemory(t)
  PROVE  LocksQuiet
<1>1. CASE CreateCommittedResource(t)
  <2>1. /\ call[t].pc = "try" /\ HasFreeHeapId /\ UNCHANGED config
        /\ heaps' = [heaps EXCEPT ![FreeHeapId] = NewHeap("committed", HeapSize(t), 1)]
        /\ NewAllocation(t, FreeHeapId, "this")
    BY <1>1 DEF CreateCommittedResource, IsTrying
  <2>2. call[t] \in Call
    BY <2>1 DEF RaInv, TypeOK, Idle
  <2>3. PICK h \in HeapIds : h = FreeHeapId /\ Users(h) = 0
    BY <2>1, NewHeapUnused
  <2>4. PICK a \in AllocIds, new \in Alloc :
          /\ allocs[a] = NoAlloc /\ allocs' = [allocs EXCEPT ![a] = new] /\ new.maps = 0
          /\ OtherCallsKept(t) /\ call'[t].pc = "created"
    BY <2>1, <2>2, <2>3, CreatedAlloc
  <2>5. allocs'[a].maps = 0 /\ OtherAllocsKept(a) /\ TypeOK /\ TypeOK'
    BY <2>4 DEF RaInv, TypeOK, OtherAllocsKept
  <2>6. heaps'[h].locks = 0 /\ OtherHeapsKept(h)
    BY <2>1, <2>3 DEF RaInv, TypeOK, OtherHeapsKept, NewHeap
  <2>7. LocksKept
    BY <2>3, <2>6 DEF LocksKept, OtherHeapsKept
  <2>8. QED
    BY <2>1, <2>4, <2>5, <2>7, UnmappedMaps, NotPlacing DEF LocksQuiet
<1>2. CASE ImportResource(t)
  <2>1. HasFreeHeapId /\ UNCHANGED <<config, call>>
    BY <1>2 DEF ImportResource
  <2>2. PICK size \in config.imports, a \in AllocIds :
          /\ allocs[a] = NoAlloc
          /\ heaps' = [heaps EXCEPT ![FreeHeapId] = NewHeap("imported", size, 1)]
          /\ allocs' = [allocs EXCEPT ![a] = [heap |-> FreeHeapId, allocator |-> "this",
                                              maps |-> 0, residency |-> FALSE,
                                              handedOut |-> TRUE]]
    BY <1>2 DEF ImportResource
  <2>3. PICK h \in HeapIds : h = FreeHeapId /\ Users(h) = 0
    BY <2>1, NewHeapUnused
  <2>4. allocs'[a].maps = 0 /\ OtherAllocsKept(a) /\ TypeOK /\ TypeOK'
    BY <2>2 DEF RaInv, TypeOK, OtherAllocsKept
  <2>5. heaps'[h].locks = 0 /\ OtherHeapsKept(h)
    BY <2>2, <2>3 DEF RaInv, TypeOK, OtherHeapsKept, NewHeap
  <2>6. LocksKept
    BY <2>3, <2>5 DEF LocksKept, OtherHeapsKept
  <2>7. PlacingKept
    BY <2>1 DEF PlacingKept, Placing
  <2>8. QED
    BY <2>1, <2>2, <2>4, <2>6, <2>7, UnmappedMaps DEF LocksQuiet
<1>3. CASE DeallocateMemory(t)
  <2>1. /\ call[t].pc = "release" /\ Deallocated(t) /\ UNCHANGED <<config, live, debugMutex>>
        /\ heaps' = [heaps EXCEPT ![allocs[call[t].alloc].heap] = NoHeap]
    BY <1>3 DEF DeallocateMemory
  <2>2. PICK a \in AllocIds : a = call[t].alloc /\ allocs[a] # NoAlloc
    BY <2>1, MyAlloc DEF Owning
  <2>3. PICK h \in HeapIds : h = allocs[a].heap
    BY <2>2, HeapOfAlloc
  <2>4. heaps'[h] = NoHeap /\ OtherHeapsKept(h)
    BY <2>1, <2>2, <2>3 DEF RaInv, TypeOK, OtherHeapsKept
  <2>5. LocksKept
    BY <2>4 DEF LocksKept, OtherHeapsKept
  <2>6. QED
    BY <2>1, <2>5, DeletedMaps DEF LocksQuiet
<1>4. QED
  BY <1>1, <1>2, <1>3

LEMMA InitLocks == Init => LocksInv
BY DEF Init, LocksInv, LocksOK

LEMMA NextLocks ==
  ASSUME FailingLocksAreSerial, RaInv, RaInv', LocksInv, [Next]_vars
  PROVE  LocksInv'
<1>1. ASSUME NEW t \in Threads, Continue(t) PROVE LocksInv'
  <2>1. CASE TryAllocateMemory(t) \/ TryAllocateFails(t) \/ UseWithin(t)
    BY <2>1, TryAllocateQuiet, CallsQuiet, AllocsQuiet, QuietLocks DEF Quiet
  <2>2. CASE LockForPlacing(t) \/ Placed(t) \/ PlaceFails(t)
    BY <2>2, LockForPlacingLocks, PlacedLocks
  <2>3. CASE DeallocateFailed(t) \/ DeallocateMemoryOfChain(t)
    BY <2>3, DeallocateFailedQuiet, DeallocateOfChainQuiet, QuietLocks DEF Quiet
  <2>4. CASE CreateCommittedResource(t) \/ DeallocateMemory(t)
    BY <2>4, OwnHeapLocks, QuietLocks
  <2>5. CASE CreateFails(t) \/ NameFails(t) \/ Discard(t) \/ EraseLiveAllocation(t)
    BY <2>5, CallsQuiet, QuietLocks DEF Quiet
  <2>6. CASE AddLiveAllocation(t) \/ HandOut(t) \/ DebugDeallocateMemory(t)
    BY <2>6, AllocsQuiet, QuietLocks DEF Quiet
  <2>7. QED
    BY <1>1, <2>1, <2>2, <2>3, <2>4, <2>5, <2>6 DEF Continue
<1>2. ASSUME NEW t \in Threads, Client(t) PROVE LocksInv'
  <2>1. CASE CreateResource(t) \/ Release(t)
    BY <2>1, CallsQuiet, AllocsQuiet, QuietLocks DEF Quiet
  <2>2. CASE ImportResource(t) \/ ReleaseMemory(t)
    BY <2>2, OwnHeapLocks, ReleaseMemoryQuiet, QuietLocks DEF Quiet
  <2>3. CASE Map(t) \/ MapFails(t) \/ Unmap(t)
    BY <2>3, MapLocksStep, MapFailsLocks
  <2>4. QED
    BY <1>2, <2>1, <2>2, <2>3 DEF Client
<1>3. CASE Evict
  BY <1>3, EvictLocks
<1>4. CASE UNCHANGED vars
  <2>1. UNCHANGED <<config, heaps, allocs, call>>
    BY <1>4 DEF vars
  <2>2. LocksQuiet
    BY <2>1, SameAllocsMaps, SameHeapsQuiet DEF LocksQuiet, PlacingKept, Placing
  <2>3. QED
    BY <2>2, QuietLocks
<1>5. QED
  BY <1>1, <1>2, <1>3, <1>4 DEF Next

(* The heap of a mapped allocation stays locked and resident until it is   *)
(* unmapped, however Map, Unmap, Evict and the scoped locks of             *)
(* CreatePlacedResource interleave, as long as no ScopedResidencyLock of   *)
(* another thread fails.                                                   *)
THEOREM MappedHeapsStayResident ==
  FailingLocksAreSerial => (Spec => []MappedStaysResident)
<1> SUFFICES ASSUME FailingLocksAreSerial PROVE Spec => []MappedStaysResident
  OBVIOUS
<1>1. RaInv /\ LocksInv => MappedStaysResident
  <2> SUFFICES ASSUME RaInv, LocksInv, NEW a \in AllocIds, allocs[a] # NoAlloc,
                      allocs[a].maps > 0, allocs[a].residency
               PROVE  heaps[allocs[a].heap].resident /\ heaps[allocs[a].heap].locks > 0
    BY DEF MappedStaysResident
  <2>1. PICK h \in HeapIds :
          h = allocs[a].heap /\ heaps[h] \in Heap /\ heaps[h] # NoHeap /\ allocs[a] \in Alloc
    BY HeapOfAlloc
  <2>2. /\ MapLocks(h) \in Nat /\ Mapped(h, a) <= MapLocks(h)
        /\ Cardinality(Placing(h)) \in Nat
    BY MapLocksType DEF RaInv
  <2>3. allocs[a].maps \in Nat /\ heaps[h].locks \in Nat
    BY <2>1 DEF Alloc, Heap
  <2>4. MapLocks(h) > 0
    BY <2>1, <2>2, <2>3 DEF Mapped
  <2>5. LocksOK(h)
    BY DEF LocksInv
  <2>6. heaps[h].locks > 0
    BY <2>1, <2>2, <2>3, <2>4, <2>5 DEF LocksOK
  <2>7. QED
    BY <2>1, <2>5, <2>6 DEF LocksOK
<1>2. RaInv /\ RaInv' /\ LocksInv /\ [Next]_vars => LocksInv'
  BY NextLocks
<1>3. QED
  BY <1>1, <1>2, InitLocks, Structure, PTL DEF Spec


-----------------------------------------------------------------------------
(* The allocator's own heaps, and the statistics that stand for them.      *)
OwnHeaps == {h \in HeapIds : heaps[h].chain \in Own}
Sizes == [h \in HeapIds |-> heaps[h].size]
StatsInv == mStats = [usage |-> SumOver(Sizes, OwnHeaps), count |-> Cardinality(OwnHeaps)]

LEMMA OwnType ==
  ASSUME TypeOK
  PROVE  /\ IsFiniteSet(OwnHeaps) /\ OwnHeaps \subseteq HeapIds
         /\ \A h \in OwnHeaps : Sizes[h] = heaps[h].size /\ Sizes[h] \in Int
BY ResourceAllocatorAssumption, FS_Subset DEF TypeOK, OwnHeaps, Own, Sizes, NoHeap, Heap

LEMMA StatsInvExact == RaInv /\ StatsInv => StatsExact
<1> SUFFICES ASSUME RaInv, StatsInv PROVE StatsExact
  OBVIOUS
<1>1. PICK own : own = OwnHeaps
  OBVIOUS
<1>2. PICK f : f = Sizes
  OBVIOUS
<1>3. IsFiniteSet(own) /\ \A h \in own : f[h] = heaps[h].size
  BY <1>1, <1>2, OwnType DEF RaInv
<1>4. Bytes(own) = SumOver(f, own)
  BY <1>3, SumOfSizes DEF Bytes
<1>5. own = {h \in HeapIds : heaps[h].chain \in {"committed", "imported"}}
  BY <1>1 DEF OwnHeaps, Own
<1>6. QED
  BY <1>1, <1>2, <1>4, <1>5 DEF StatsInv, StatsExact

LEMMA QuietStats ==
  ASSUME RaInv, RaInv', StatsInv, StatsQuiet
  PROVE  StatsInv'
<1>1. OwnHeaps' = OwnHeaps /\ IsFiniteSet(OwnHeaps)
  BY OwnType DEF OwnHeaps, StatsQuiet, OwnKept, RaInv
<1>2. PICK f : f = Sizes
  OBVIOUS
<1>3. PICK g : g = Sizes'
  OBVIOUS
<1>4. PICK own : own = OwnHeaps
  OBVIOUS
<1>5. \A h \in own : f[h] = g[h]
  BY <1>2, <1>3, <1>4 DEF Sizes, OwnHeaps, StatsQuiet, OwnKept
<1>6. SumOver(f, own) = SumOver(g, own)
  BY <1>1, <1>4, <1>5, SumSame
<1>7. QED
  BY <1>1, <1>2, <1>3, <1>4, <1>6 DEF StatsInv, StatsQuiet

(* A heap that was locked, unlocked or evicted.                            *)
LEMMA LockedOwn ==
  ASSUME NEW h \in HeapIds, OtherHeapsKept(h), heaps'[h].chain = heaps[h].chain,
         heaps'[h].size = heaps[h].size
  PROVE  OwnKept
BY DEF OwnKept, OtherHeapsKept, Own

LEMMA LockForPlacingStats ==
  ASSUME RaInv, NEW t \in Threads, LockForPlacing(t) \/ Placed(t) \/ PlaceFails(t)
  PROVE  StatsQuiet
<1>1. /\ call[t].pc \in {"place", "placing"} /\ UNCHANGED <<config, mStats>>
      /\ \/ UNCHANGED heaps
         \/ heaps' = [heaps EXCEPT ![call[t].heap] = LockHeap(heaps[call[t].heap])]
         \/ heaps' = [heaps EXCEPT ![call[t].heap] = Unlocked(call[t].heap)]
  BY DEF LockForPlacing, Placed, PlaceFails
<1>2. PICK h \in HeapIds : h = call[t].heap /\ heaps[h] \in Heap
  BY <1>1, HeapOfCall DEF Holding
<1>3. heaps'[h] \in {heaps[h], LockHeap(heaps[h]), UnlockHeap(heaps[h])} /\ OtherHeapsKept(h)
  BY <1>1, <1>2 DEF RaInv, TypeOK, OtherHeapsKept, Unlocked
<1>4. heaps'[h].chain = heaps[h].chain /\ heaps'[h].size = heaps[h].size
  BY <1>2, <1>3, LockedHeap, UnlockedHeap
<1>5. QED
  BY <1>1, <1>3, <1>4, LockedOwn DEF StatsQuiet

LEMMA MapStats ==
  ASSUME RaInv, NEW t \in Threads, Map(t) \/ Unmap(t) \/ MapFails(t)
  PROVE  StatsQuiet
<1>1. UNCHANGED mStats
  BY DEF Map, Unmap, MapFails
<1>2. PICK a \in AllocIds :
        /\ allocs[a] # NoAlloc
        /\ \/ UNCHANGED heaps
           \/ heaps' = [heaps EXCEPT ![allocs[a].heap] = LockHeap(heaps[allocs[a].heap])]
           \/ heaps' = [heaps EXCEPT ![allocs[a].heap] = UnlockHeap(heaps[allocs[a].heap])]
  BY DEF Map, Unmap, MapFails
<1>3. PICK h \in HeapIds : h = allocs[a].heap /\ heaps[h] \in Heap
  BY <1>2, HeapOfAlloc
<1>4. heaps'[h] \in {heaps[h], LockHeap(heaps[h]), UnlockHeap(heaps[h])} /\ OtherHeapsKept(h)
  BY <1>2, <1>3 DEF RaInv, TypeOK, OtherHeapsKept
<1>5. heaps'[h].chain = heaps[h].chain /\ heaps'[h].size = heaps[h].size
  BY <1>3, <1>4, LockedHeap, UnlockedHeap
<1>6. QED
  BY <1>1, <1>4, <1>5, LockedOwn DEF StatsQuiet

LEMMA EvictStats ==
  ASSUME RaInv, Evict
  PROVE  StatsQuiet
<1>1. PICK h \in HeapIds : heaps[h] # NoHeap /\ heaps' = [heaps EXCEPT ![h].resident = FALSE]
  BY DEF Evict
<1>2. UNCHANGED mStats /\ heaps[h] \in Heap
  BY <1>1 DEF Evict, RaInv, TypeOK
<1>3. heaps'[h].chain = heaps[h].chain /\ heaps'[h].size = heaps[h].size /\ OtherHeapsKept(h)
  BY <1>1, <1>2 DEF RaInv, TypeOK, Heap, OtherHeapsKept
<1>4. QED
  BY <1>2, <1>3, LockedOwn DEF StatsQuiet

(* A heap of the allocator's own is created and counted.                   *)
LEMMA OwnAdded ==
  ASSUME RaInv, RaInv', StatsInv, HasFreeHeapId, NEW size \in Nat, NEW chain \in Own,
         heaps' = [heaps EXCEPT ![FreeHeapId] = NewHeap(chain, size, 1)], CountUsed(size)
  PROVE  StatsInv'
<1>1. PICK h \in HeapIds : h = FreeHeapId /\ heaps[h] = NoHeap
  BY DEF HasFreeHeapId, FreeHeapId, IsFree
<1>2. heaps'[h].chain = chain /\ heaps'[h].size = size /\ OtherHeapsKept(h)
  BY <1>1 DEF RaInv, TypeOK, NewHeap, OtherHeapsKept
<1>3. h \notin OwnHeaps /\ OwnHeaps' = OwnHeaps \cup {h}
  BY <1>1, <1>2 DEF OwnHeaps, Own, NoHeap, OtherHeapsKept
<1>4. PICK f : f = Sizes
  OBVIOUS
<1>5. PICK g : g = Sizes'
  OBVIOUS
<1>6. PICK own : own = OwnHeaps
  OBVIOUS
<1>7. IsFiniteSet(own) /\ h \notin own /\ \A x \in own : f[x] \in Int
  BY <1>3, <1>4, <1>6, OwnType DEF RaInv
<1>8. g[h] = size /\ \A x \in own : f[x] = g[x]
  BY <1>1, <1>2, <1>4, <1>5, <1>6, <1>7 DEF Sizes, OwnHeaps, OtherHeapsKept
<1>9. SumOver(g, own \cup {h}) = SumOver(g, own) + size
  BY <1>7, <1>8, SumAdd
<1>10. SumOver(f, own) = SumOver(g, own)
  BY <1>7, <1>8, SumSame
<1>11. Cardinality(own \cup {h}) = Cardinality(own) + 1
  BY <1>7, FS_AddElement
<1>12. QED
  BY <1>3, <1>4, <1>5, <1>6, <1>9, <1>10, <1>11 DEF StatsInv, CountUsed

(* A heap of the allocator's own is released and no longer counted.        *)
LEMMA OwnRemoved ==
  ASSUME RaInv, RaInv', StatsInv, NEW t \in Threads, DeallocateMemory(t)
  PROVE  StatsInv'
<1>1. /\ call[t].pc = "release" /\ allocs[call[t].alloc].allocator = "this"
      /\ heaps' = [heaps EXCEPT ![allocs[call[t].alloc].heap] = NoHeap]
      /\ mStats' = [usage |-> mStats.usage - GetSize(call[t].alloc), count |-> mStats.count - 1]
  BY DEF DeallocateMemory
<1>2. PICK a \in AllocIds : a = call[t].alloc /\ allocs[a] # NoAlloc
  BY <1>1, MyAlloc DEF Owning
<1>3. PICK h \in HeapIds : h = allocs[a].heap /\ heaps[h] \in Heap
  BY <1>2, HeapOfAlloc
<1>4. h \in OwnHeaps
  <2>1. AllocOK(a)
    BY DEF RaInv, AllocInv
  <2>2. OwnerOf(h) = "this"
    BY <1>1, <1>2, <1>3, <2>1 DEF AllocOK, CameFrom
  <2>3. QED
    BY <2>2 DEF OwnerOf, OwnHeaps
<1>5. heaps'[h] = NoHeap /\ OtherHeapsKept(h)
  BY <1>1, <1>2, <1>3 DEF RaInv, TypeOK, OtherHeapsKept
<1>6. OwnHeaps' = OwnHeaps \ {h}
  BY <1>5 DEF OwnHeaps, Own, NoHeap, OtherHeapsKept
<1>7. PICK f : f = Sizes
  OBVIOUS
<1>8. PICK g : g = Sizes'
  OBVIOUS
<1>9. PICK own : own = OwnHeaps
  OBVIOUS
<1>10. IsFiniteSet(own) /\ h \in own /\ \A x \in own : f[x] \in Int
  BY <1>4, <1>7, <1>9, OwnType DEF RaInv
<1>11. PICK rest : rest = own \ {h}
  OBVIOUS
<1>12. IsFiniteSet(rest) /\ Cardinality(rest) = Cardinality(own) - 1
  BY <1>10, <1>11, FS_RemoveElement
<1>13. f[h] = GetSize(a) /\ \A x \in rest : f[x] = g[x]
  BY <1>3, <1>5, <1>7, <1>8, <1>9, <1>11 DEF Sizes, GetSize, OwnHeaps, OtherHeapsKept
<1>14. SumOver(f, own) = f[h] + SumOver(f, rest)
  BY <1>10, <1>11, SumRemove
<1>15. SumOver(f, rest) = SumOver(g, rest)
  BY <1>12, <1>13, SumSame
<1>16. SumOver(f, rest) \in Int /\ f[h] \in Int
  BY <1>10, <1>11, <1>12, SumType
<1>17. SumOver(g, rest) = SumOver(f, own) - GetSize(a)
  BY <1>13, <1>14, <1>15, <1>16
<1>18. QED
  BY <1>1, <1>2, <1>6, <1>7, <1>8, <1>9, <1>11, <1>12, <1>17 DEF StatsInv

LEMMA InitStats == Init => StatsInv
<1> SUFFICES ASSUME Init PROVE StatsInv
  OBVIOUS
<1>1. OwnHeaps = {}
  BY DEF Init, OwnHeaps, Own, NoHeap
<1>2. QED
  BY <1>1, SumEmpty, FS_EmptySet DEF Init, StatsInv

LEMMA NextStats ==
  ASSUME RaInv, RaInv', StatsInv, [Next]_vars
  PROVE  StatsInv'
<1>1. ASSUME NEW t \in Threads, Continue(t) PROVE StatsInv'
  <2>1. CASE TryAllocateMemory(t) \/ TryAllocateFails(t) \/ UseWithin(t)
    BY <2>1, TryAllocateQuiet, CallsQuiet, AllocsQuiet, QuietStats DEF Quiet
  <2>2. CASE LockForPlacing(t) \/ Placed(t) \/ PlaceFails(t)
    BY <2>2, LockForPlacingStats, QuietStats
  <2>3. CASE DeallocateFailed(t) \/ DeallocateMemoryOfChain(t)
    BY <2>3, DeallocateFailedQuiet, DeallocateOfChainQuiet, QuietStats DEF Quiet
  <2>4. CASE CreateCommittedResource(t)
    <3>1. /\ IsTrying(t, {"committed"}) /\ HasFreeHeapId /\ CountUsed(HeapSize(t))
          /\ heaps' = [heaps EXCEPT ![FreeHeapId] = NewHeap("committed", HeapSize(t), 1)]
      BY <2>4 DEF CreateCommittedResource
    <3>2. HeapSize(t) \in Nat
      <4>1. call[t].pc = "try" /\ call[t].attempts # <<>>
        BY <3>1 DEF IsTrying
      <4>2. call[t] \in Call /\ call[t].request \in Requests
        BY <4>1 DEF RaInv, TypeOK, Idle, CallInv, CallOK
      <4>3. QED
        BY <4>1, <4>2, HeapSizeType
    <3>3. "committed" \in Own
      BY DEF Own
    <3>4. QED
      BY <3>1, <3>2, <3>3, OwnAdded
  <2>5. CASE DeallocateMemory(t)
    BY <2>5, OwnRemoved
  <2>6. CASE CreateFails(t) \/ NameFails(t) \/ Discard(t) \/ EraseLiveAllocation(t)
    BY <2>6, CallsQuiet, QuietStats DEF Quiet
  <2>7. CASE AddLiveAllocation(t) \/ HandOut(t) \/ DebugDeallocateMemory(t)
    BY <2>7, AllocsQuiet, QuietStats DEF Quiet
  <2>8. QED
    BY <1>1, <2>1, <2>2, <2>3, <2>4, <2>5, <2>6, <2>7 DEF Continue
<1>2. ASSUME NEW t \in Threads, Client(t) PROVE StatsInv'
  <2>1. CASE CreateResource(t) \/ Release(t) \/ ReleaseMemory(t)
    BY <2>1, CallsQuiet, AllocsQuiet, ReleaseMemoryQuiet, QuietStats DEF Quiet
  <2>2. CASE ImportResource(t)
    <3>1. HasFreeHeapId
      BY <2>2 DEF ImportResource
    <3>2. PICK size \in config.imports :
            /\ heaps' = [heaps EXCEPT ![FreeHeapId] = NewHeap("imported", size, 1)]
            /\ CountUsed(size)
      BY <2>2 DEF ImportResource
    <3>3. size \in Nat /\ "imported" \in Own
      BY ResourceAllocatorAssumption DEF RaInv, TypeOK, IsConfig, Own
    <3>4. QED
      BY <3>1, <3>2, <3>3, OwnAdded
  <2>3. CASE Map(t) \/ MapFails(t) \/ Unmap(t)
    BY <2>3, MapStats, QuietStats
  <2>4. QED
    BY <1>2, <2>1, <2>2, <2>3 DEF Client
<1>3. CASE Evict
  BY <1>3, EvictStats, QuietStats
<1>4. CASE UNCHANGED vars
  <2>1. UNCHANGED <<heaps, mStats>>
    BY <1>4 DEF vars
  <2>2. StatsQuiet
    BY <2>1, SameHeapsQuiet DEF StatsQuiet
  <2>3. QED
    BY <2>2, QuietStats
<1>5. QED
  BY <1>1, <1>2, <1>3, <1>4 DEF Next

(* The statistics of the allocator are exactly those of the committed and  *)
(* imported heaps that exist, whichever threads create, import and release *)
(* them at the same time.                                                  *)
THEOREM StatsStayExact == Spec => []StatsExact
<1>1. RaInv /\ RaInv' /\ StatsInv /\ [Next]_vars => StatsInv'
  BY NextStats
<1>2. QED
  BY <1>1, StatsInvExact, InitStats, Structure, PTL DEF Spec
=============================================================================
