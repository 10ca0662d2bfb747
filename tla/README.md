# GPGMM in TLA+

GPGMM is a GPU memory management library. It hands out GPU memory through a
chain of allocators and, on D3D12, decides which heaps are resident in video
memory. This directory models the parts that carry that logic, checks them with
TLC on small instances and proves what matters most with TLAPS.

File names below are relative to `src/src/gpgmm/`.

## The system

### Components, their state and their operations

| component | state | operations | what makes it correct |
|---|---|---|---|
| `d3d12/ResidencyManagerD3D12` | one LRU list of heaps per memory segment, the budget info of each segment, statistics, a fence, one mutex | `LockHeap`, `UnlockHeap`, `ExecuteCommandLists`, `EnsureInBudget`, `SetVideoMemoryReservation`, `QueryVideoMemoryInfo`, `GetStats`; inside them `EvictInternal` and `MakeResident` | what the GPU uses and what is locked is resident; D3D12's residency counts, the lists and the statistics agree; the mutex is always released |
| `d3d12/HeapD3D12` | residency status, lock count, last used fence value, list link | `CreateHeap`, `~Heap` | a heap is in at most one list, and in none once it is gone |
| `d3d12/FenceD3D12` | current, last signaled, completed value | `WaitFor`, `Signal`, `IsCompleted` | nobody waits for a value that is never signaled |
| `d3d12/ResidencyListD3D12` | heaps of a command list | `Add`, `Reset` | input of `ExecuteCommandLists` |
| budget worker (`BudgetUpdateTask`, `common/WorkerThread`) | the two OS events, the last error, the posted thread | start, apply a notification, fail, stop | a lasting budget is applied; the destructor returns and the thread never outlives the manager |
| `common/BlockAllocator` | - | `TryAllocateBlock`, `DeallocateBlock` | blocks in use do not overlap |
| `common/SlabBlockAllocator` | free list that grows one block at a time | the same | no block is lost or shared; refuses only when full |
| `common/BuddyBlockAllocator` | binary tree of blocks, a free list per level | the same | tree and lists agree; free buddies are merged |
| `common/SlabMemoryAllocator`, `SlabCacheAllocator` | per block size: caches of slabs of each size, a free and a full list each, a pre-fetch in flight; the references of the cache entry | `TryAllocateMemory`, `DeallocateMemory`, the worker's `AllocateMemoryTask`, the destructors | a slab is in the list it should be in; no slab memory is leaked or freed early; entry and blocks live equally long |
| `utils/StableList`, `common/MemoryCache`, `common/WorkerThread` | list with holes; reference counted entries; a posted task and its event | as used by the slab allocator | - |
| `common/BuddyMemoryAllocator` | a buddy block allocator, an indexed pool of memory | `TryAllocateMemory`, `DeallocateMemory` | memory lives as long as its blocks; a failed sub-allocation gives its block back |
| `common/SegmentedMemoryAllocator`, `PooledMemoryAllocator`, `LIFOMemoryPool`, `IndexedMemoryPool` | sorted segments, pools of free memory, statistics | allocate, deallocate, `ReleaseMemory` | statistics equal the pools; a pool holds memory of one size; memory is in one place |
| `common/DedicatedMemoryAllocator`, `ConditionalMemoryAllocator`, `MemoryAllocator`, `MemoryAllocation`, `Memory` | statistics, sub-allocation counts | stages of the chain | what is handed out is large enough; counts agree |
| `d3d12/ResourceAllocatorD3D12`, `CapsD3D12`, `UtilsD3D12` | the allocators per heap type, the adapter's capabilities, counters, one mutex | `CreateAllocator`, `CreateResource` (create and import), `ReleaseMemory`, `GetStats` | heaps suit the resources placed in them; a failed attempt leaves nothing behind; every call returns |
| `d3d12/ResourceHeapAllocator`, `BufferAllocator`, `ResourceAllocation`, `DebugResourceAllocator` | heaps, residency locks of maps, table of live allocations | allocate, `Map`, `Unmap`, release | a mapped heap stays resident; the table is exact |
| `vk/ResourceAllocatorVk`, `DeviceMemoryAllocatorVk` | two chains per memory type, the count of device memories | create and destroy buffers and images | nothing leaks on a failure; memory has a suitable type; the count is exact |
| `common/EventTraceWriter`, `TraceEvent` | a buffer per thread, the events of threads that ended, one mutex | add, flush, end of a thread, end of the process | every event is written once and in its order |
| logging, JSON, machine vision wrappers | - | - | not modelled, see below |

### How they interact

A request enters at `ResourceAllocator` and travels down a chain of
`MemoryAllocator`s, each of which owns the next: slab cache, buddy, pooled or
segmented, and last the allocator that creates a D3D12 heap. The slab cache posts
a task to a worker thread to create the memory of the next slab ahead of time; the
task's event is waited for under the slab allocator's mutex. Creating a heap may
first ask the `ResidencyManager` to make room, then inserts the heap in an LRU
list. Mapping a resource locks its heap, submitting command lists goes through
`ExecuteCommandLists`. The residency manager calls the D3D12 device (`Evict`,
`MakeResident`), the command queue (`ExecuteCommandLists`, `Signal`) and the OS
(`QueryVideoMemoryInfo`), and the GPU completes fence values on its own.

### What is hard

* Threads: one mutex protects the manager, but `~Heap` unlinks without it, D3D12
  makes a new heap resident without it, and the GPU and the OS run all the time. The
  pre-fetch runs beside allocations, without the mutex of the allocator that posted it.
* Failure in the middle: the device is out of memory after the lists were already
  changed; memory for a slab cannot be created after the slab was pushed.
* Waiting: the manager waits for the GPU with its mutex held, its destructor for a
  detached thread; the resource allocator and the debug allocator take each other's
  mutexes.
* Long legal call sequences: locks, submissions and evictions of one heap in any
  order; splits and merges of buddies; slabs that move between lists with holes.
* Unsigned arithmetic on budgets, reservations and sizes.

`PROJECT.json` lists the hazards one by one, at the line where each bites, with
the properties that cover it.

## Modules

| module | models |
|---|---|
| `ResidencyManager` | the residency manager, the heaps and the fence; device, queue, GPU and OS as external actors |
| `BlockAllocator` | the abstract specification of a block allocator: the set of byte ranges in use |
| `SlabBlockAllocator` | `SlabBlockAllocator.cpp`, refining `BlockAllocator` |
| `BuddyBlockAllocator` | `BuddyBlockAllocator.cpp`, refining `BlockAllocator` |
| `SlabMemoryAllocator` | one entry of `SlabCacheAllocator` with its `SlabMemoryAllocator`, `StableList`s and pre-fetch |
| `MemoryChain` | a chain of memory allocators from the conditional allocator down to heaps: buddy and dedicated allocators on fixed or segmented pools; composes `BuddyBlockAllocator` |
| `ResourcePlan` | what the D3D12 resource allocator decides from descriptors, capabilities and resource before it allocates |
| `ResourceAllocator` | threads that carry such plans out, import, map, release and trim, with the debug allocator |
| `ResourceAllocatorVk` | the Vulkan resource allocator and its device memory count |
| `BudgetWorker` | the worker thread that applies OS budgets, over the life of the residency manager |
| `EventTraceWriter` | the buffers, flushes and end of the event trace |
| `MC...` | the instances TLC checks |
| `SlabBlockAllocator_proofs` | theorems and proofs about the slab's block allocator |
| `MemoryChain_proofs` | about `BuddyBlockAllocator`, and about the chain built on it |
| `ResidencyManager_proofs` | about the residency manager: what holds for every client and device, and what holds in orderly use |
| `SlabMemoryAllocator_proofs`, `ResourceAllocator_proofs`, `ResourceAllocatorVk_proofs` | about the modules of these names |
| `Threads_proofs` | about `BudgetWorker`, and about `EventTraceWriter` |
| `SetSums` | sums over finite sets, for proofs about counters, and the smallest element of a set of numbers |

An operator whose name has a suffix after an underscore (`EvictStops_NotAtCurrent`)
is a plausible mistake in the code, kept beside the definition it would replace.
Each property of a passing run is violated when one of them takes that place, so
no property holds by the shape of the model alone.

### ResidencyManager

The variables are the members of the classes: `cache[s]` is the LRU list of a
segment, `info[s]` its `DXGI_QUERY_VIDEO_MEMORY_INFO`, `stats` is `mStats`;
`status`, `locks` and `lastUsed` are the heaps' `mState`, `mResidencyLock` and
`mLastUsedFenceValue`. `resident[h]` is D3D12's own residency count and
`gpuUse[h]` the last submission that references the heap: these two are what the
safety properties are about, and the manager never reads them.

Every operation of the manager runs under `mMutex`, so `op` is the one frame in
progress and `op = Idle` means the mutex is free. An operation is cut into steps
wherever something that does not take the mutex may run in between, and where a
call may fail: `ExecuteCommandLists` scans its list heap by heap (`ScanHeap`,
`ScanDone`), `EvictInternal` is `EvictBegin`, for each heap `EvictPicks` (the head of the
list and its last use) and `EvictHead` (once `Fence::WaitFor` has returned), and
`EvictEnd` (the call of `ID3D12Device::Evict`), `MakeResident` is
`PageIn` or `PageInFails`, after which it evicts more and retries, and `Submit` or
`FinishLock` ends the operation. `OpFails` is a failing call of the device, the
fence or the OS.

`Heap::CreateHeap` is up to three steps: `EnsureInBudget` takes and releases the mutex,
`CreatePageable` is D3D12's creation of the heap, beside whatever operation of
another thread is in progress (`op.late` remembers the heaps created since
`EvictInternal` queried the usage), and `InsertCreated` inserts it, under the mutex
again. `DestroyHeap` takes no mutex either. It may unlink any heap that no call of the
client itself uses, while another thread's operation is in progress: between
`EvictPicks` and `EvictHead` the heap picked is held by a raw pointer (`op.head`), and if
that very heap is destroyed, what `RemoveFromList` does to the list through the links of
a node that is gone is one of `Unlinkings`. The two assignments of one unlinking
are a single step: two threads that unlink neighbours at the same moment, which tears
the links of the list, are outside the model.

`Behaviours` says what clients and the device may do, so that what the code
guarantees to well-behaved clients and what it guarantees to all are told apart.
`destroyAnytime` is the destruction of heaps during another thread's operation, and
`destroyCandidate` that of the heap `EvictInternal` waits for; no theorem or passing run
has the latter, because the code does not survive it (see below).
Budgets are in bytes of a small instance, percentages are integers, and usage minus
reservation is taken modulo `Word` as the code's unsigned integers do.

### Block allocators

`SlabBlockAllocator` keeps the code's lazily built free list: a block is linked
behind the head only when its predecessor is taken. `BuddyBlockAllocator` names a
block by its path in the binary tree; `state` says which blocks exist and whether
they are free, split or allocated, and `freeLists` are the lists the code keeps
redundantly. Both are shown to implement `BlockAllocator`, with the set of blocks in
use as the refinement mapping.

### SlabMemoryAllocator

A `StableList` is a sequence of slab numbers with holes; `slabs[s]` is the table of
slabs of one size. `TryAllocateMemory` is the whole call: choosing the slab size
(`ChooseSlab`, `ComputeSlabSize`, `LimitGrowth`), pushing a slab, getting its memory
from the slab, the pre-fetch or the next allocator (`GetOrCreateMemory`), starting
the next pre-fetch (`PrefetchSize`) and moving a full slab. The wait for the
pre-fetch is a guard: the call holds the mutex, so nothing but the worker could
run. Blocks inside a slab are only counted; they are `SlabBlockAllocator`'s.
`outstanding[s]`, the memory taken from the next allocator, is external.

### MemoryChain

`ConditionalMemoryAllocator` sends small requests to the chain buddy - pool - heap and
large ones to dedicated - pool - heap. `state` and `freeLists` are the variables of
`BuddyBlockAllocator`, which the module extends and whose actions it uses as they are
(`TryAllocateBlock`, `DeallocateBlock`);
`usedPool` is the indexed pool of the buddy allocator, `segments[c]` the pool of a
chain (a fixed pool is a single segment), `memory` the memory objects with their
sub-allocation counts, `stats` the counters each allocator keeps. A sub-allocation is
two steps: its block (`TrySubAllocate`), and its memory (`GetMemory`, or `FailMemory`
when it cannot be had), since creating memory may fail at the heap, at the pool's
validation or because the request forbids it. `GetStats` adds up as the code does,
`ReleaseMemory` walks the segments with the code's unsigned subtraction. The specification
is `ChainSpec`; `Spec` is a buddy system of its own.

### ResourcePlan and ResourceAllocator

`ResourcePlan` is the deciding half of `CreateResourceAllocator` and
`CreateResourceInternal`, as functions: `Caps`, normalised descriptors, the size and
alignment of a resource (small alignment from tile counts), the heap type and flags,
and `attempts`, the allocators that will be tried and in which order. Its two actions
create an allocator and plan one resource after another.

`ResourceAllocator` carries plans out. A thread's `call` is the frame of its call;
`mMutex` and `debugMutex` are owned by threads, and a call is cut at every call of
another locked component or of the device, each of which may fail. Of the memory
chains it keeps the promise that `MemoryChain` and `SlabMemoryAllocator` are checked
for: a block of a heap with room, of a pooled heap or of a new one, or nothing. Of the
residency manager it keeps that an unlocked heap may be evicted at any time and that
locking makes it resident or fails. Which pooled heaps `ReleaseMemory` gives up is left
open, since a segmented pool may stop early or release too much. `NameFails` is a
debug name that the device refuses: the allocation is released while `mMutex` is still
held, as it is by `Discard`, when the caller gave no out pointer. The requests of the
instance are plans that `ResourcePlan` computes (`MCResourceAllocator`), so the two halves
meet.

### ResourceAllocatorVk

The same for Vulkan: a call creates the resource, tries the chains of the memory type
found, binds, and cleans up on each failure. The `DeviceMemoryAllocator` at the end of a
chain has no mutex, so its counter is read and written in two steps
(`AllocateMemory` and `CountMemory`, `DeallocateMemory` and `UncountMemory`). What may come between
is decided by the mutexes above it (`KeepsOut`): the pool's, if there is one, keeps
everybody out; the sub-allocator's keeps out other clients, but not the `Workers` that
pre-fetch the memory of a slab. A pre-fetch is posted by an allocation (`PostPrefetch`), and
taken or deallocated by a later one or by the destructor of the slab allocator
(`TakePrefetched`, `DiscardPrefetched`, `DropSlabAllocator`).

### BudgetWorker and EventTraceWriter

`BudgetWorker` follows the manager from `CreateResidencyManager` through its destructor
and the worker from its registration to its end. The two Windows events are booleans
that a wait resets; the notification has priority, as in `WaitForMultipleObjects`.
HRESULTs are integers, so that the conversion of a failure to `bool` and back is what it
is in the code.

In `EventTraceWriter` a flush is a frame that holds `mMutex`, takes the buffers one at a
time in any order and then writes; adding to a buffer takes only the buffer's own
mutex. A thread id may be used again after its thread ended. `enqueued` and `written` are
history variables. `Selected`, the loop that leaves out ignored events, is a recursive
function, which can be proved about.

## Runs

| run | shows |
|---|---|
| `residency_core` | no failures, clients unlock when the GPU is done: everything that is submitted or locked is resident, the device's counts, the statistics and the lists agree, page-in stays within the budget and usage that `EvictInternal` read, whatever heaps are created for other threads meanwhile, and the LRU order is kept |
| `residency_adverse` | every behaviour at once but `destroyCandidate`, budgets pushed by the OS, failing calls, a restricted budget, nested locks: lists, locks and waits hold for everyone and every operation ends |
| `slab_block`, `buddy_block` | block allocators: structure, no lost or shared block, refuse only when full, refinement |
| `slab_memory` | slabs, lists, memory and entry agree through any mix of allocations, frees, pre-fetches and failures |
| `memory_chain` | blocks, memory, pools and statistics agree through any mix of requests of both chains, releases and failures |
| `resource_plan` | for every adapter, descriptor and resource of the instance, heaps suit resources and small alignment fits |
| `resource_allocator` | threads that create, import, map, unmap, release and trim, with every failure: no block is left behind, counters and debug table are exact, mapped heaps stay resident, every call returns where the two deadlocks below are not met |
| `resource_vk` | the same for Vulkan, beside a worker that pre-fetches: no leak, suitable memory, and an exact count with pools, or without them for one client and no pre-fetch |
| `budget_worker` | the worker against a budget that changes at any time and calls that fail: budgets are applied, the destructor returns, nothing is used after it |
| `event_trace` | no event is lost, repeated or reordered |
| `residency_mixed_lists` | expected to be violated, see below |

Two further configurations of the residency manager pass but take longer:
`residency_push.cfg`, with two segments, pushed budgets and a descriptor heap, and
`residency_adverse_mixed.cfg`, the safety properties of `residency_adverse` with three heaps in
two segments, whose lists mix the two.

Bounds. Three heaps of sizes 1 and 2 with an OS budget of 3 and a reservation of
up to 2 make evictions of one and of two heaps, page-ins that need several
evictions, and a budget used up by heaps of the current submission. Two
submissions are enough for a heap to be in flight while an older use of it is
complete. Lists of up to two entries include duplicates. `residency_adverse` has two
heaps of one segment with two locks each, hence nested locking, and a small `Word`, so
sums wrap there. Five
blocks of a slab cover first, middle and last; a buddy range of eight bytes has
four levels, so splits and merges cascade. Slabs of two and of four blocks with
at most three slabs of a size and seven blocks reach growth, both list moves, holes
at the front and in the middle, and pre-fetches of both sizes; `MaxListSize` is
needed because the code's lists of slabs grow without bound (see the hazard at
`StableList.h:165`).

`memory_chain` has a buddy range of two memories of two levels each, so a memory is
shared by blocks and two are in use; three memory objects at a time, requests on both
sides of every size that is compared, and segments of three sizes. Its `Word` of 16
lets `ReleaseMemory` wrap. `resource_plan` takes the cross product of buffers around 4
bytes and 64KB, textures around the 4KB tiles and 64KB for every bits-per-unit and
sample count, and adapters and descriptors of every kind but coherent UMA (see below).
`resource_allocator` has two threads, two heaps of two blocks and two addresses, so that
an address is used again and a heap is shared; its `Configs` keep apart what need not
be combined, and leave out committed resources where they would be released under
`mMutex`, and two threads where they have both committed resources and the debug
allocator. `resource_vk` has three device memories against a limit of the same order, one
worker, and requests of two sizes, so that a pre-fetch is taken, discarded or outlived;
an unprotected count drifts without end, and `CountsBounded` follows it to -1.
Three budgets let one change twice before it is applied; three events of each of two
thread ids let a thread end, start again and be flushed in between.

Fairness. `OpTerminates` assumes that a thread that holds the mutex keeps running
(weak fairness of the manager's own steps) and that the GPU completes what was
submitted (weak fairness of `GpuCompletes`). It does not assume that `MakeResident`
ever succeeds, nor that any client acts. `EveryCallReturns` assumes strong fairness of
each thread's next step: a mutex that is released again and again is eventually given
to a thread that waits for it. `BudgetIsSeen` and `DestructorReturns` assume weak fairness
of the worker thread and of the thread that destroys the manager, which is what an OS
scheduler gives; nothing is assumed of the OS budget, which may change for ever.

## Where the code does not do what it says

`residency_mixed_lists` is a run that TLC must find violated; `PROJECT.json` quotes the
comment that states the property. The other configurations of this table are beside
it and are checked in the same way (`tlc -config X.cfg M`); each checks what is named,
and TLC finds it violated.

| configuration | module, property | what happens |
|---|---|---|
| `residency_mixed_lists` | `MCResidencyManager`, `InFlightIsResident` | a list that needs heaps of both segments paged in is submitted with the non-local ones evicted (`ResidencyManagerD3D12.cpp:758`) |
| `residency_unlock_in_flight` | `InFlightIsResident` | a heap locked while it was submitted may be evicted after `UnlockHeap` although the GPU still uses it (`:711`) |
| `residency_lock_not_resident` | `LockedIsResident` | locking a heap created with `CREATE_NOT_RESIDENT` leaves it not resident (`HeapD3D12.cpp:108`) |
| `residency_retry_after_oom` | `InFlightIsResident` | submitting again after `E_OUTOFMEMORY` succeeds without the heaps being resident (`:755`) |
| `residency_destroy_race` | `LRUWellFormed`, `EvictsLiveHeaps` | a heap destroyed by another thread while `EvictInternal` waits for its last use is unlinked although it is gone, and one destroyed later is still handed to `ID3D12Device::Evict` (`HeapD3D12.cpp:147`, `ResidencyManagerD3D12.cpp:649`) |
| `slab_prefetch_null` | `MCSlabMemoryAllocator`, `NeverFreesNull` | a failed pre-fetch makes the slab allocator deallocate a null pointer (`SlabMemoryAllocator.cpp:291`) |
| `fixed_pool_dedicated` | `MCMemoryChain`, `LargeEnough` | a fixed pool behind the dedicated allocator takes memory of any size and hands it out for larger requests (`PooledMemoryAllocator.cpp:45`) |
| `segmented_release` | `MCMemoryChain`, `ReleasesEnough` | `ReleaseMemory` stops early, or wraps, because it subtracts and compares (`SegmentedMemoryAllocator.cpp:187`) |
| `within_state` | `MCResourcePlan`, `WithinSharesState` | on a coherent UMA adapter a small buffer shares a resource that is in another state than the one asked for (`ResourceAllocatorD3D12.cpp:925`) |
| `resource_self_deadlock` | `MCResourceAllocator`, `EveryCallReturns` | a committed resource, also one that is the last attempt of a placed one, that is created without an out pointer, or that the device refuses to name, is released under `mMutex` and locks it twice (`ResourceAllocatorD3D12.cpp:892`, `:878`) |
| `resource_lock_order` | `MCResourceAllocator`, `EveryCallReturns` | with the debug allocator, creating and releasing committed resources take the two mutexes in opposite orders (`DebugResourceAllocatorD3D12.cpp:79`) |
| `resource_scoped_lock` | `MCResourceAllocator`, `MappedStaysResident` | a scoped lock that failed still unlocks, which takes away the lock of a mapped allocation (`ResourceAllocatorD3D12.cpp:1294`) |
| `vk_on_demand_race` | `MCResourceAllocatorVk`, `CountsExact` | without pools nothing protects the count of device memories from another client, nor, even with a single client, from the worker that pre-fetches a slab (`DeviceMemoryAllocatorVk.cpp:64`, `SlabMemoryAllocator.cpp:357`) |
| `vk_empty_requirements` | `MCResourceAllocatorVk`, `NothingLeaks` | a resource whose requirements have size zero is not destroyed (`ResourceAllocatorVk.cpp:64`) |
| `budget_registration_fails` | `MCBudgetWorker`, `FailureIsNoticed` | a failed registration or update of the budget worker is converted to `bool` and never noticed (`ResidencyManagerD3D12.cpp:143`) |
| `trace_overwritten` | `MCEventTraceWriter`, `NeverOverwrittenEmpty` | a flush whose events are all ignored overwrites the trace with an empty one (`EventTraceWriter.cpp:192`) |

The passing runs state the same properties without the behaviour concerned, which
shows that nothing else breaks them. `WithinSharesState` is in no passing run: on an
adapter where the code may not change the heap type it only repeats the guard.

Smaller observations made while modelling, which no property states: the memory count
limit of the Vulkan allocator is per chain and one too low; `FindMemoryTypeIndex` keeps
the last candidate where its comment says the first; `MaxResourceHeapSize` is only
compared with the preferred size; `ResourceAllocator::ReleaseMemory` asks every chain for
the whole amount; `ConditionalMemoryAllocator::ReleaseMemory` releases nothing; a failing
`Map` leaves its lock; every flush replaces the trace file, so only the last one remains.

## Proofs

`SlabBlockAllocator_proofs`, for every number and size of blocks. The inductive
invariant `IInv` adds to `BlocksAccountedFor` that the free list has no duplicates and
where the first block never handed out is: it is the last entry of the list
whenever one exists, which is why an empty list means a full slab. From it follow
`NoBlockLostOrShared`, `FailsOnlyWhenFull`, `TypeCorrect`, and `Refinement`: every
step is a step of `BlockAllocator` or changes no block in use, because blocks of
different indices share no byte.

`ResidencyManager_proofs`, for any set of heaps, sizes, budgets and bounds and for
every behaviour of clients, device and OS, failures included, but for one that
`CandidateLives` excludes: the destruction of the very heap whose last use
`EvictInternal` is waiting for, after which the lists may hold anything
(`residency_destroy_race`). Heaps created, and other heaps destroyed, in the middle of a call are
not excluded. The inductive
invariant `StructInv` consists of

* `Shape`: the types of what the argument needs;
* `LRUWellFormed`: the lists hold live and unlocked heaps of their own segment,
  none twice;
* `OpInv`: what the frame of the operation in progress may refer to - the heap
  being locked is live, unlocked and in no list, heaps unlinked by the eviction
  in progress are unlocked, and the heap it waits for stays at the head of its list and was
  not used by the current submission. Without it `FinishLock` could lock a listed heap;
* `FenceInv`: no heap was last used later than the current fence value;
* `LocksInv`: only live heaps are locked.

It gives `ListsWellFormed`, `WaitsAreSignaled` (the wait under the mutex is for a
value that was signaled, since the loop stops at the current one) and `LocksHold`
(no step lowers the residency count of a locked heap: victims are unlocked).
`TypeCorrect` adds the types of the info (`InfoInv`) and of the sizes in the frame: the
reservation is a percentage of the budget, so the budget left is not negative, and the
amount to evict is only computed when the usage exceeds the budget.

Its second part relates what the manager believes to what D3D12 counts. It
assumes `Orderly`: no mixed residency lists, no failing calls, no heap created
`CREATE_NOT_RESIDENT`. Each part excludes a case in which the code does not
keep the two in step, and a configuration of the table above shows it
(`residency_mixed_lists`, `residency_retry_after_oom`, `residency_lock_not_resident`).
Everything else stays arbitrary: heaps, sizes, budgets, the order of calls, the
GPU's progress, heaps created and destroyed in the middle of a call (`destroyCandidate`
is excluded, as above). `SyncInv` follows one
operation through its frame. Its core is `CountSync`: D3D12 counts a heap exactly
once if it is listed, locked or among the victims of the eviction in progress,
unless it is one the operation has still to page in (`Missing`). To keep that,
one needs to know what is still to be paged in (`PageInSync`), what has been scanned
(`ScanSync`), that victims are none of these (`VictimSync`), and that status and list
agree (`StatusSync`). `CreatedSync` says that D3D12 counts a heap it has created, and that is not
inserted yet, once. It gives `CountsAgree` and `LockedStaysResident`; with `FlightSync`
(a submission in flight protects its heaps by a lock or by the fence value an eviction
waits for) `GpuUsesResidentHeaps`, where clients do not unlock heaps in flight
(`residency_unlock_in_flight` shows why); with `OrderSync` (heaps of the current
submission are at the end of their list) `NothingPassedOver`, where every
submission has a queue to signal.

Two results are about the sizes, and assume `FitsInWord`: the number of heaps and the sum of
their sizes fit in the integers of the code. `StatsStayExact` needs `StatInv`: `mStats` is
the count and the size of the locked heaps, and what is resident for the manager is
locked or listed. `PageInStaysWithinBudget` needs `BudgetInv`: the size passed to
`EvictInternal` is that of the heaps to page in, and in the loop what is still to be
evicted covers what is left of the excess over the budget. The usage is computed on
unsigned integers after the reservation was subtracted; heaps to page in are not
resident yet, so the true sum fits, and a wrap-around can only overstate it (`WrapsUp`). What
is compared with the budget is the usage as `EvictInternal` read it: D3D12 may make a new
heap of another thread resident after that, and such heaps (`op.late`) are not counted,
since neither the code nor a comment promises that they are. This
theorem excludes descriptor heaps (`ResourceHeapsOnly`), which D3D12 may count
twice, so that evicting one makes no room, and submissions without a queue, after which a
list's head may be of the current submission while the rest is not.

`MemoryChain_proofs`, first part: the buddy system, for every size of the range. `TreeInv` is `FreeListsExact`,
`FullBinaryTree`, the first half of `FullyMerged`, the types, and that a block of one byte
is not split. A request and a release change a whole path of the tree
in one call; `SplitStates` and `MergeStates` say what becomes of the blocks along it,
from `BelowLeaf` (nothing exists below a leaf) and `AboveIsSplit` (all above a block
that exists is split). That a range with nothing in use is one block again is not an
invariant of its own: of a split block of the largest level both halves would be
free. `TreeStaysWellFormed`, `FailsOnlyWhenNothingFits` (an offset is a multiple of the
block's size, so the head of a list is as good as any other entry) and `Refinement`
follow; the last because a block that is no part of another shares no byte with it
(`NotPartOf`). The powers of two these need are derived from the number of subsets of a
set (`PowerDoubles`, `PowerAdds`).

`MemoryChain_proofs`, second part: the chain, for every size of the range and of the
memory, fixed or segmented pools, any requests, releases and failures. `ChainInv` has
three parts, in the middle of a sub-allocation too. `BlocksInv`: the buddy system
keeps `TreeInv`, and its blocks are the clients' and the one of the call in progress; what
the first part shows of a single call is used again, which gives `TreeInChain`.
`MemoriesInv`: the memory objects that exist are parted into the used pool, the two
chains' free pools and the dedicated allocations (`PlacesInv`); segments are sorted, no
pool has an object twice and each holds only memory linked to its segment (`ListsInv`), so
no object is in two pools; and memory in use goes back to a segment that is still there
(`HomesInv`). That a list stays sorted is shown of the code's search: what is before
the range `FindSegment` still looks at is smaller, what is behind it is larger, and each
turn makes it shorter. `RefsCountBlocks` is the rest of `BlocksMatchMemory`; it is not
inductive without the others, since the block of the call in progress has no reference yet and
memory outside the used pool must have none (`UnreferencedInv`). They give
`MemoryIsInOnePlace`, `BlocksAndMemoryMatch` and `ChainTypeCorrect`. `StatisticsAreExact`
needs `StatInv`, what each allocator's `mStats` counts, of which `GetStats` adds up only some:
the heap's count covers all memory, the pools' what is in use. Nothing is assumed but
`MemoryChainAssumption`; of it `MemorySize + MemoryAlignment < Word` says that aligning the
size of the memory the buddy system asks for does not wrap, as `ValidateRequest` demands of
every request.

That sizes agree (`UniformInv`: memory is as large as the segment it is linked to) gives
`PoolsStayUniform` and `DedicatedIsLargeEnough`. It assumes `DedicatedIsUniform`: the
dedicated chain's pool is segmented, and a large request has the alignment of that pool. A
segment is chosen by the pool's alignment while the heap aligns memory by the request's,
so with another alignment memory of two sizes gets into one segment.
`ResourceAllocatorD3D12.cpp:1152` sets the alignment of every request to a dedicated
allocator to that allocator's own, and `fixed_pool_dedicated` shows what a fixed pool does. The chain of the buddy
system needs no such assumption, since its memory has one size.

`SlabMemoryAllocator_proofs`, for every block size, slab sizes, limit, growth factor and
threshold, for any requests and failures, and without regard to the bounds of the
instance. `IInv` has one part per piece of state. `CachesInv`: for each slab size, the
items of both lists are slabs of that size or holes, a free list does not end in a
hole (`FreeList.back()` is used as a slab), no slab holds more blocks than it has, a slab
has memory exactly while a block of it is in use, and a slab is at its `IndexInList` in
the list it belongs to and nowhere else (`IsHome`). That both lists, the index and the
use count agree is what makes `MoveSlab`, which writes a hole at the index it finds in
the slab, hit the right place. `OutstandingInv`: the memory taken from the next
allocator is that of the slabs that have some and that of the pre-fetch. `RefsInv`: the
references of the entry are the blocks in use and the one that keeps it alive. They give
`SlabsAreWhereTheySay`, `MemoryIsAccountedFor` and `EntriesLiveWhileUsed`; the last needs
that an entry that goes waits for its pre-fetch and gives the memory back.

`PrefetchesPayOff` follows from `SteadyInv`: while every request is for a whole block, has
the full budget and succeeds, and nothing is freed, all slabs are full but perhaps the
last one, and the pre-fetched slab has the size that `ComputeSlabSize` will ask for when
that one is full too (`Due`). The two sizes are computed at different places from
different counts of full slabs; that they agree needs that a request of the whole
block never doubles the size (`SizeForBlock`). Success matters: a slab is pushed before its memory is
created, so a failed creation leaves an empty slab in the free list, whose size the
next request may take instead of the pre-fetched one.

`Threads_proofs`, first part: the budget worker, for every set of budgets. `LifeInv`: the
manager owns an event from the moment the worker exists until it has seen it signaled, and
signaling is the worker's last step. It gives `WorkerNeverOutlivesManager`.

`Threads_proofs`, second part: the event trace, for any threads, phases and number of
events. `TraceInv` has `OrderInv` as its core: of the events a thread added, those that are
not ignored are, in order, in what was written, then in what the flush in progress has
merged, then in what ended threads left, then in the thread's buffer. Every step takes
events from one of these places to the end of the one before it. A flush takes the
buffers after it took what ended threads left, so this needs that nothing is
left behind until it has written (`WriterInv`): a thread that ends waits for `mMutex`. It
also needs that the events of another thread make no difference (`BuffersInv`), that the mask
does not change once an event was added (`NotStarted`), and, for the last flush, that the
destructor finds neither a buffer nor a thread in `EnqueueTraceEvent`.
`EventsStayInOrder` and `TraceTypeCorrect` follow. What `Selected` does with a
concatenation is shown by the smallest sequence that would be an exception
(`AllSequences`).

`ResourceAllocatorVk_proofs`, for any threads, requests, memory types and limits.
`VkInv` says of each call in progress which resource and which memory it works on
(`CallInv`), that no two create the same resource (`OneCreator`), and that the blocks of
a memory are those of its bound resources and of the calls that hold one
(`BlocksInv`). `PrefetchInv` adds that a pre-fetch belongs to a slab allocator that a bound resource
or a call of a client still refers to, so that none is left when the allocator is
destroyed. `FailuresLeaveNothing` assumes `RequestsHaveSize`, see
`vk_empty_requirements`; `BoundMemorySuits` assumes nothing. `CountsStayExact` is about
`ProtectedCountsExact`, whose condition `IsExclusive` holds with pools, for any
clients and workers, and without them for one client and no pre-fetch; the rest is
`vk_on_demand_race`. `CountInv` says by how much the count lags between the two halves of
an update, and that at most one call is there.

`ResourceAllocator_proofs`, for any threads, heaps, addresses, requests and chains.
`RaInv` has the same plan: `CallInv`, `OneOwner` and `BlocksInv`, and for the debug
allocator `DebugInv` (whoever holds its mutex has taken the allocation from it and
will erase the entry), `AllocInv` (the entry, or the allocation itself, names the
allocator that the heap came from) and `LiveInv` (no entry is left over). The
interesting case is an address that is used again while the old entry is still to
be erased. It gives `NoBlockLeaks` and `DebugTableStaysExact`. `MappedHeapsStayResident`
needs `LocksInv`, that the locks of a heap cover its maps and the placements in
progress, and assumes `FailingLocksAreSerial`, see `resource_scoped_lock`.
`StatsStayExact` needs sums over the heaps.

`SetSums` proves of the library's `MapThenSumSet`, which recurses over the subsets of a
set, that it can be unfolded, that an element or a disjoint set can be added, and that a
larger set has no smaller sum. What would be induction over data is written as a
smallest counterexample, from the theorem that `<` on the naturals is well-founded.

Only model-checked:

* liveness (`OpTerminates`, `EveryCallReturns`, `BudgetIsSeen`, `DestructorReturns`), which
  is outside the prover's reach;
* the properties of `ResourcePlan`.

The theorems rest on the named assumptions about constants (`ResidencyAssumption`,
`BuddyAssumption`, `ResourceAllocatorAssumption` and so on), which TLC evaluates in the
runs, and on the hypotheses named above, which the instances of the passing runs
that check the same property satisfy and the configurations named do not.

## Not modelled

Logging and JSON format output. `SizeClass` is a table of constants. The machine vision
wrappers add no state. `StableList`'s chunks and iterators and `MemoryCache`'s hash set are
storage. Torn reads are not modelled: `GetStats` of the residency manager walks the lists,
and `ReleaseMemory` of a fixed pool changes it, without a mutex, and both are single
steps. A second `StartupEventTrace` changes the writer's configuration without a mutex; it
is called once in the model. A trace file that cannot be opened loses its events
(`EventTraceWriter.cpp:209` does not look); in the model a file can be written. Detached threads that still run while the process's static
objects are destroyed are outside the model.

## Plan

What is left to be proved is `ResourcePlan`. Its properties are about one pass through a
case distinction over finite tables, which the run enumerates; a proof would say little
more.
