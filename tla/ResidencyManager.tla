------------------------- MODULE ResidencyManager -------------------------
(***************************************************************************)
(* The D3D12 residency manager (ResidencyManagerD3D12.cpp) with the heaps  *)
(* (HeapD3D12.cpp) and the fence (FenceD3D12.cpp) it works on.             *)
(*                                                                         *)
(* Every operation of the manager runs under its mutex mMutex, so at most  *)
(* one operation is in progress: op is its frame, and op.pc = "idle" means *)
(* that the mutex is free.  An operation is cut into steps where something *)
(* that does not take the mutex can run in between: the GPU finishing a    *)
(* submission, the OS changing a budget, a client creating or destroying a *)
(* heap: D3D12 creates a heap, and ~Heap unlinks it, without the mutex.    *)
(*                                                                         *)
(* The D3D12 device, the OS budget and the GPU are external.  resident is  *)
(* D3D12's residency count of a heap, gpuUse the fence value of the last   *)
(* submission that references it.                                          *)
(***************************************************************************)
EXTENDS Integers, Sequences, FiniteSets, FiniteSetsExt, Functions

CONSTANTS
    Heaps,            \* the heaps clients may create
    NoHeap,           \* not a heap: op.heap of an operation on no single heap
    HeapSize,         \* [Heaps -> bytes]
    HeapSegment,      \* [Heaps -> Segments]
    IsUMA,            \* mIsUMA
    NotificationsDisabled,  \* mIsBudgetChangeEventsDisabled
    MaxBudgetInBytes, \* descriptor.MaxBudgetInBytes: 0 when not restricted
    EvictSizeInBytes, \* mEvictSizeInBytes
    MaxPct, MinPct,   \* mMaxPctOfVideoMemoryToBudget, mMinPctOfBudgetToReserve, in percent
    Word,             \* 2^w for the unsigned integers of the code
    OsBudgets,        \* budgets the OS may give a segment
    Reservations,     \* values given to SetVideoMemoryReservation
    HeapKind,         \* [Heaps -> AllKinds]: how clients create each heap
    Behaviours,       \* what clients and the device do, a subset of AllBehaviours
    MaxFence,         \* bound: submissions
    MaxLocks,         \* bound: locks held on one heap
    MaxList,          \* bound: entries of a residency list
    MaxCount          \* bound: no call fails once D3D12 counts a heap that often

Local == "local"
NonLocal == "nonlocal"
Segments == {Local, NonLocal}

AllKinds ==
    {"resident",      \* a resource heap without CREATE_NOT_RESIDENT
     "notResident",   \* a resource heap with CREATE_NOT_RESIDENT
     "unknown"}       \* a pageable that is not a resource heap (a descriptor heap)

AllBehaviours ==
    {"mixedLists",      \* a residency list may name heaps of both segments
     "unlockInFlight",  \* a heap is unlocked before the GPU is done with it
     "destroyAnytime",  \* a heap is destroyed while another thread holds mMutex
     "destroyCandidate",  \* so is the very heap that EvictInternal waits for
     "noQueue",         \* ExecuteCommandLists without a queue (playback)
     "outOfMemory",     \* ID3D12Device::MakeResident fails
     "failures"}        \* Evict, SetEventOnCompletion, Signal or the OS query fails

ASSUME ResidencyAssumption ==
    /\ NoHeap \notin Heaps
    /\ IsFiniteSet(Heaps)
    /\ HeapSize \in [Heaps -> Nat \ {0}]
    /\ HeapSegment \in [Heaps -> Segments]
    /\ IsUMA \in BOOLEAN
    /\ NotificationsDisabled \in BOOLEAN
    /\ {MaxBudgetInBytes, EvictSizeInBytes, MaxFence, MaxLocks, MaxList, MaxCount}
           \subseteq Nat
    /\ MaxPct \in 0..100 /\ MinPct \in 0..100
    /\ Word \in Nat \ {0}
    /\ OsBudgets \subseteq Nat \ {0} /\ Reservations \subseteq Nat
    /\ HeapKind \in [Heaps -> AllKinds]
    /\ Behaviours \subseteq AllBehaviours

VARIABLES
    life,          \* life[h]: "absent", "ensured" and "created" (within CreateHeap), "live"
    status,        \* status[h]: Heap::mState
    locks,         \* locks[h]: Heap::mResidencyLock
    lastUsed,      \* lastUsed[h]: Heap::mLastUsedFenceValue
    cache,         \* cache[s]: the LRU list of segment s, head (first to evict) first
    info,          \* info[s]: the DXGI_QUERY_VIDEO_MEMORY_INFO of segment s
    stats,         \* mStats
    currentFence,  \* Fence::mCurrentFence; mLastSignaledFence is one less
    op,            \* the operation that holds mMutex
    completed,     \* external: the completed value of the D3D12 fence
    resident,      \* external: D3D12's residency count of each heap
    gpuUse,        \* external: last submission that references the heap
    osBudget       \* external: the budget the OS reports

heapVars == <<life, status, locks, lastUsed>>
device == <<completed, resident, gpuUse, osBudget>>
vars == <<heapVars, cache, info, stats, currentFence, op, device>>

---------------------------------------------------------------------------
(* Heaps and the LRU list.                                                 *)

LastSignaledFence == currentFence - 1

IsInList(h) == \E i \in DOMAIN cache[HeapSegment[h]] : cache[HeapSegment[h]][i] = h

IsResidencyLocked(h) == locks[h] > 0

(* LinkNode::RemoveFromList: the sequence without its entry h, if any.     *)
Unlinked(s, h) ==
    IF \E i \in DOMAIN s : s[i] = h
    THEN LET i == CHOOSE i \in DOMAIN s : s[i] = h
         IN  [k \in 1..(Len(s) - 1) |-> IF k < i THEN s[k] ELSE s[k + 1]]
    ELSE s

(* Mutant: LockHeap leaves the heap in the list.                           *)
RemoveFromList_Kept(h) == cache

RemoveFromList(h) == [cache EXCEPT ![HeapSegment[h]] = Unlinked(@, h)]

(* Mutants: the heap is not inserted, or inserted at the head.             *)
InsertHeap_Lost(c, h) == c
InsertHeap_AtHead(c, h) == [c EXCEPT ![HeapSegment[h]] = <<h>> \o @]

(* InsertHeapInternal appends to the tail of the heap's segment.           *)
InsertHeap(c, h) == [c EXCEPT ![HeapSegment[h]] = Append(@, h)]

(* Mutant: the fence counts as completed before the GPU is done.           *)
IsCompleted_Always(fenceValue) == TRUE

(* Fence::IsCompleted; WaitFor blocks until it holds.                      *)
IsCompleted(fenceValue) == fenceValue <= completed

(* The heaps D3D12 must not be asked to page out: a submission that uses   *)
(* them has not completed.                                                 *)
InFlight(h) == gpuUse[h] > completed

---------------------------------------------------------------------------
(* Video memory info.                                                      *)

Min2(a, b) == IF a <= b THEN a ELSE b

(* The CurrentUsage the OS reports for a segment when D3D12's residency    *)
(* counts are r.                                                           *)
UsageOf(r, s) ==
    MapThenSumSet(LAMBDA h : HeapSize[h], {h \in Heaps : r[h] > 0 /\ HeapSegment[h] = s})

OsUsage(s) == UsageOf(resident, s)

(* The same without the heaps D3D12 created since EvictInternal's query.   *)
UsageAtQuery(s) == UsageOf([h \in Heaps |-> IF h \in op.late THEN 0 ELSE resident[h]], s)

(* UpdateMemorySegmentInternal on the info i of segment s.  The            *)
(* subtraction of the reservation is on unsigned integers.                 *)
Refreshed(i, s, usage) ==
    IF IsUMA /\ s = NonLocal THEN i
    ELSE LET reservation == Min2((osBudget[s] * MinPct) \div 100, i.AvailableForReservation)
         IN [i EXCEPT
               !.CurrentReservation = reservation,
               !.CurrentUsage = (usage - reservation) % Word,
               !.Budget = IF MaxBudgetInBytes > 0 THEN @
                          ELSE ((osBudget[s] - reservation) * MaxPct) \div 100]

UpdateMemorySegment(s) == [info EXCEPT ![s] = Refreshed(@, s, OsUsage(s))]

UpdateMemorySegments == [s \in Segments |-> Refreshed(info[s], s, OsUsage(s))]

(* GetStats: locked heaps are counted in mStats, the others by a walk of   *)
(* the two lists.                                                          *)
GetStats ==
    LET tracked == {h \in Heaps : IsInList(h) /\ status[h] = "RESIDENT"}
    IN [count |-> (stats.count + Cardinality(tracked)) % Word,
        usage |-> (stats.usage + MapThenSumSet(LAMBDA h : HeapSize[h], tracked)) % Word]

---------------------------------------------------------------------------
(* The frame of the operation in progress.  head and fence are the locals  *)
(* heap and lastUsedFenceValue of EvictInternal; next is the link that     *)
(* heap had when it was destroyed; late is a history variable: the heaps   *)
(* created since EvictInternal queried the usage.                          *)

Idle ==
    [kind |-> "none", pc |-> "idle", heap |-> NoHeap, list |-> <<>>, refs |-> {},
     used |-> {}, pageIn |-> [s \in Segments |-> {}], size |-> [s \in Segments |-> 0],
     queue |-> FALSE, seg |-> Local, bytes |-> 0, retry |-> FALSE,
     need |-> 0, evicted |-> 0, victims |-> {}, head |-> NoHeap, fence |-> 0,
     next |-> NoHeap, late |-> {}]

(* Mutant: the size to make resident is not passed on.                     *)
MakeResident_NoSize(o, s) == [o EXCEPT !.pc = "evict", !.seg = s, !.bytes = 0, !.retry = FALSE]

(* MakeResident begins with EvictInternal of the size to make resident.    *)
MakeResident(o, s) == [o EXCEPT !.pc = "evict", !.seg = s, !.bytes = o.size[s], !.retry = FALSE]

Init ==
    /\ life = [h \in Heaps |-> "absent"]
    /\ status = [h \in Heaps |-> "UNKNOWN"]
    /\ locks = [h \in Heaps |-> 0]
    /\ lastUsed = [h \in Heaps |-> 0]
    /\ cache = [s \in Segments |-> <<>>]
    /\ osBudget \in {b \in [Segments -> OsBudgets \cup {0}] :
                       \A s \in Segments : b[s] = 0 <=> IsUMA /\ s = NonLocal}
    /\ info = [s \in Segments |->
                 LET zero == [Budget |-> 0, CurrentUsage |-> 0,
                              AvailableForReservation |-> 0, CurrentReservation |-> 0]
                     first == Refreshed(zero, s, 0)
                 IN  IF MaxBudgetInBytes > 0 /\ ~(IsUMA /\ s = NonLocal)
                     THEN [first EXCEPT !.Budget = first.CurrentUsage + MaxBudgetInBytes]
                     ELSE first]
    /\ stats = [count |-> 0, usage |-> 0]
    /\ currentFence = 1
    /\ op = Idle
    /\ completed = 0
    /\ resident = [h \in Heaps |-> 0]
    /\ gpuUse = [h \in Heaps |-> 0]

---------------------------------------------------------------------------
(* Heap::CreateHeap.  With HEAP_FLAG_ALWAYS_IN_BUDGET it first calls       *)
(* EnsureInBudget, which takes and releases mMutex.  D3D12 then creates    *)
(* the heap without the mutex, which InsertHeap takes again.               *)

StatusAtCreation(kind) ==
    CASE kind = "resident" -> "RESIDENT"
      [] kind = "notResident" -> "PENDING"
      [] kind = "unknown" -> "UNKNOWN"

CountAtCreation(kind) ==
    CASE kind = "resident" -> {1}
      [] kind = "notResident" -> {0}
      [] kind = "unknown" -> {0, 1}

EnsureInBudget(h) ==
    /\ op = Idle
    /\ life[h] = "absent"
    /\ op' = [Idle EXCEPT !.kind = "ensure", !.pc = "evict", !.heap = h,
                          !.seg = HeapSegment[h], !.bytes = HeapSize[h]]
    /\ UNCHANGED <<heapVars, cache, info, stats, currentFence, device>>

(* createHeapFn, beside whatever operation is in progress.  A heap of kind *)
(* "notResident" that is always in budget is refused after the budget was  *)
(* ensured.  UNKNOWN heaps are not inserted.  A heap is not taken for a    *)
(* new one while the operation still names it.                             *)
CreatePageable(h) ==
    /\ life[h] \in {"absent", "ensured"} /\ h \notin op.victims \cup {op.heap, op.head, op.next}
    /\ IF life[h] = "ensured" /\ HeapKind[h] = "notResident"
       THEN /\ life' = [life EXCEPT ![h] = "absent"]
            /\ UNCHANGED <<status, lastUsed, resident, op>>
       ELSE /\ life' = [life EXCEPT ![h] = IF HeapKind[h] = "unknown"
                                           THEN "live" ELSE "created"]
            /\ status' = [status EXCEPT ![h] = StatusAtCreation(HeapKind[h])]
            /\ lastUsed' = [lastUsed EXCEPT ![h] = 0]
            /\ \E count \in CountAtCreation(HeapKind[h]) :
                  resident' = [resident EXCEPT ![h] = count]
            /\ op' = IF op.pc \in {"loop", "wait", "device"}
                     THEN [op EXCEPT !.late = @ \cup {h}] ELSE op
    /\ UNCHANGED <<locks, cache, info, stats, currentFence, completed, gpuUse, osBudget>>

(* The end of CreateHeap: ResidencyManager::InsertHeap.                    *)
InsertCreated(h) ==
    /\ op = Idle
    /\ life[h] = "created"
    /\ life' = [life EXCEPT ![h] = "live"]
    /\ cache' = InsertHeap(cache, h)
    /\ UNCHANGED <<status, locks, lastUsed, info, stats, currentFence, op, device>>

(* A client destroys a heap that is not locked, that the GPU is done with  *)
(* and that no call of its own is using.  Another thread's EvictInternal   *)
(* may be about to evict it.                                               *)
MayDestroy(h) ==
    \/ op = Idle
    \/ "destroyAnytime" \in Behaviours /\ h \notin op.refs \cup {op.heap, op.head}
    \/ "destroyCandidate" \in Behaviours /\ h = op.head /\ h \notin op.refs

(* The heap linked behind the head of the list.                            *)
BehindHead(s) == IF Len(cache[s]) > 1 THEN cache[s][2] ELSE NoHeap

(* ~Heap unlinks the heap without taking mMutex.                           *)
DestroyHeap(h) ==
    /\ life[h] = "live"
    /\ ~IsResidencyLocked(h)
    /\ ~InFlight(h)
    /\ MayDestroy(h)
    /\ cache' = RemoveFromList(h)
    /\ life' = [life EXCEPT ![h] = "absent"]
    /\ status' = [status EXCEPT ![h] = "UNKNOWN"]
    /\ lastUsed' = [lastUsed EXCEPT ![h] = 0]
    /\ resident' = [resident EXCEPT ![h] = 0]
    /\ op' = IF h = op.head THEN [op EXCEPT !.next = BehindHead(op.seg)] ELSE op
    /\ UNCHANGED <<locks, info, stats, currentFence, completed, gpuUse, osBudget>>

---------------------------------------------------------------------------
(* LockHeap and UnlockHeap.                                                *)

(* Mutant: the count is forgotten.                                         *)
AddStats_UsageOnly(sign, h) == [stats EXCEPT !.usage = (@ + sign * HeapSize[h]) % Word]

AddStats(sign, h) ==
    [count |-> (stats.count + sign) % Word, usage |-> (stats.usage + sign * HeapSize[h]) % Word]

(* Mutant: an evicted heap is taken for resident.                          *)
MustPageIn_Never(h) == FALSE

(* A heap that is neither listed nor locked is made resident first.        *)
MustPageIn(h) == ~IsInList(h) /\ ~IsResidencyLocked(h)

LockHeap(h) ==
    /\ op = Idle
    /\ life[h] = "live"
    /\ locks[h] < MaxLocks
    /\ IF MustPageIn(h)
       THEN /\ op' = MakeResident([Idle EXCEPT
                         !.kind = "lock", !.heap = h,
                         !.pageIn = [@ EXCEPT ![HeapSegment[h]] = {h}],
                         !.size = [@ EXCEPT ![HeapSegment[h]] = HeapSize[h]]],
                       HeapSegment[h])
            /\ UNCHANGED <<locks, cache, stats>>
       ELSE /\ locks' = [locks EXCEPT ![h] = @ + 1]
            /\ cache' = RemoveFromList(h)
            /\ stats' = IF IsInList(h) /\ status[h] = "RESIDENT" THEN AddStats(1, h) ELSE stats
            /\ UNCHANGED op
    /\ UNCHANGED <<life, status, lastUsed, info, currentFence, device>>

(* The end of LockHeap once MakeResident has succeeded.                    *)
FinishLock ==
    /\ op.kind = "lock" /\ op.pc = "made"
    /\ status' = [status EXCEPT ![op.heap] = "RESIDENT"]
    /\ stats' = AddStats(1, op.heap)
    /\ locks' = [locks EXCEPT ![op.heap] = @ + 1]
    /\ op' = Idle
    /\ UNCHANGED <<life, lastUsed, cache, info, currentFence, device>>

UnlockHeap(h) ==
    /\ op = Idle
    /\ life[h] = "live"
    /\ IsResidencyLocked(h) /\ ~IsInList(h)
    /\ locks[h] = 1 /\ InFlight(h) => "unlockInFlight" \in Behaviours
    /\ locks' = [locks EXCEPT ![h] = @ - 1]
    /\ IF locks[h] > 1
       THEN UNCHANGED <<cache, stats>>
       ELSE /\ cache' = InsertHeap(cache, h)
            /\ stats' = AddStats(-1, h)
    /\ UNCHANGED <<life, status, lastUsed, info, currentFence, op, device>>

---------------------------------------------------------------------------
(* ExecuteCommandLists with one residency list.                            *)

ExecuteCommandLists(list, queue) ==
    /\ op = Idle
    /\ currentFence <= MaxFence
    /\ \A i \in DOMAIN list : life[list[i]] = "live"
    /\ \A i, j \in DOMAIN list :
          HeapSegment[list[i]] # HeapSegment[list[j]] => "mixedLists" \in Behaviours
    /\ ~queue => "noQueue" \in Behaviours
    /\ op' = [Idle EXCEPT !.kind = "exec", !.pc = "scan", !.list = list,
                          !.refs = Range(list), !.queue = queue]
    /\ UNCHANGED <<heapVars, cache, info, stats, currentFence, device>>

(* One iteration of the loop over the residency list.                      *)
ScanHeap ==
    /\ op.pc = "scan" /\ op.list # <<>>
    /\ LET h == Head(op.list)
           s == HeapSegment[h]
           next == [op EXCEPT !.list = Tail(@)]
       IN IF IsResidencyLocked(h) \/ lastUsed[h] = currentFence
          THEN op' = next /\ UNCHANGED <<lastUsed, cache>>
          ELSE /\ cache' = InsertHeap(RemoveFromList(h), h)
               /\ lastUsed' = [lastUsed EXCEPT ![h] = currentFence]
               /\ op' = IF IsInList(h)
                        THEN [next EXCEPT !.used = @ \cup {h}]
                        ELSE [next EXCEPT !.used = @ \cup {h},
                                          !.pageIn[s] = @ \cup {h},
                                          !.size[s] = @ + HeapSize[h]]
    /\ UNCHANGED <<life, status, locks, info, stats, currentFence, device>>

(* if (local > 0) MakeResident(local) else if (nonLocal > 0) ...           *)
ScanDone ==
    /\ op.pc = "scan" /\ op.list = <<>>
    /\ op' = IF op.size[Local] > 0 THEN MakeResident(op, Local)
             ELSE IF op.size[NonLocal] > 0 THEN MakeResident(op, NonLocal)
             ELSE [op EXCEPT !.pc = "made"]
    /\ UNCHANGED <<heapVars, cache, info, stats, currentFence, device>>

(* The end of ExecuteCommandLists: the heaps become resident for the       *)
(* manager, the command list is submitted and the fence signaled.          *)
Submit ==
    /\ op.kind = "exec" /\ op.pc = "made"
    /\ status' = [h \in Heaps |-> IF h \in op.used THEN "RESIDENT" ELSE status[h]]
    /\ gpuUse' = [h \in Heaps |-> IF op.queue /\ h \in op.refs THEN currentFence ELSE gpuUse[h]]
    /\ currentFence' = IF op.queue THEN currentFence + 1 ELSE currentFence
    /\ info' = IF NotificationsDisabled THEN UpdateMemorySegments ELSE info
    /\ op' = Idle
    /\ UNCHANGED <<life, locks, lastUsed, cache, stats, completed, resident, osBudget>>

---------------------------------------------------------------------------
(* EvictInternal(op.bytes, op.seg, &out) and MakeResident.                 *)

(* Mutant: MakeResident retries although nothing was evicted.              *)
GivesUp_Never(out) == FALSE

(* The retry loop of MakeResident ends with E_OUTOFMEMORY.                 *)
GivesUp(out) == op.retry /\ out = 0

(* What the caller does with *bytesEvictedOut = out.                       *)
EvictReturns(out) ==
    IF op.kind = "ensure"
    THEN /\ op' = Idle
         /\ life' = [life EXCEPT ![op.heap] = IF out >= op.bytes THEN "ensured" ELSE "absent"]
    ELSE /\ op' = IF GivesUp(out) THEN Idle
                  ELSE [op EXCEPT !.pc = "device", !.need = 0, !.evicted = 0, !.victims = {},
                                  !.late = IF op.pc = "loop" THEN @ ELSE {}]
         /\ UNCHANGED life

(* No budget was provided, or the segment stays within it.                 *)
NothingToEvict(budget, usage) == budget = 0 \/ usage <= budget

(* Up to the loop.  EvictInternal returns early, leaving the caller's      *)
(* initial value in *bytesEvictedOut, when there is no budget or nothing   *)
(* has to be evicted.                                                      *)
EvictBegin ==
    /\ op.pc = "evict"
    /\ info' = IF NotificationsDisabled THEN UpdateMemorySegment(op.seg) ELSE info
    /\ LET budget == info'[op.seg].Budget
           usage == (op.bytes + info'[op.seg].CurrentUsage) % Word
       IN IF NothingToEvict(budget, usage)
          THEN EvictReturns(IF op.retry THEN 0 ELSE op.bytes)
          ELSE /\ op' = [op EXCEPT !.pc = "loop", !.need = usage - budget,
                                   !.evicted = 0, !.victims = {}, !.late = {}]
               /\ UNCHANGED life
    /\ UNCHANGED <<status, locks, lastUsed, cache, stats, currentFence, device>>

(* Mutant: heaps of the current submission are waited for.                 *)
EvictStops_NotAtCurrent == op.evicted >= op.need \/ cache[op.seg] = <<>>

(* The loop stops early at an empty list or at a head that was inserted    *)
(* during the current submission.                                          *)
EvictStops ==
    \/ op.evicted >= op.need
    \/ cache[op.seg] = <<>>
    \/ cache[op.seg] # <<>> /\ lastUsed[Head(cache[op.seg])] = currentFence

(* One iteration, up to WaitFor: the next candidate and its last use.      *)
EvictPicks ==
    /\ op.pc = "loop" /\ ~EvictStops
    /\ LET h == Head(cache[op.seg])
       IN op' = [op EXCEPT !.pc = "wait", !.head = h, !.fence = lastUsed[h]]
    /\ UNCHANGED <<heapVars, cache, info, stats, currentFence, device>>

(* heap->RemoveFromList().  On a heap destroyed meanwhile this is          *)
(* undefined: unless the process ends, it leaves the list alone, or links  *)
(* the heap that was behind it back in, which may be destroyed too.        *)
Unlinkings ==
    IF life[op.head] = "live"
    THEN {[cache EXCEPT ![op.seg] = Unlinked(@, op.head)]}
    ELSE {cache} \cup {[cache EXCEPT ![op.seg] = <<h>> \o @] :
                          h \in {h \in Heaps \cap {op.next} : life[h] = "absent"}}

(* The rest of it, once the fence has reached that value.                  *)
EvictHead ==
    /\ op.pc = "wait"
    /\ IsCompleted(op.fence)
    /\ cache' \in Unlinkings
    /\ status' = [status EXCEPT ![op.head] = "PENDING"]
    /\ op' = [op EXCEPT !.pc = "loop", !.evicted = @ + HeapSize[op.head],
                        !.victims = @ \cup {op.head}, !.head = NoHeap, !.fence = 0,
                        !.next = NoHeap]
    /\ UNCHANGED <<life, locks, lastUsed, info, stats, currentFence, device>>

(* ID3D12Device::Evict of the unlinked heaps, and the return.              *)
EvictEnd ==
    /\ op.pc = "loop" /\ EvictStops
    /\ resident' = [h \in Heaps |-> IF h \in op.victims /\ resident[h] > 0
                                    THEN resident[h] - 1 ELSE resident[h]]
    /\ EvictReturns(op.evicted)
    /\ UNCHANGED <<status, locks, lastUsed, cache, info, stats, currentFence,
                   completed, gpuUse, osBudget>>

(* ID3D12Device::MakeResident succeeds.                                    *)
PageIn ==
    /\ op.pc = "device"
    /\ resident' = [h \in Heaps |-> IF h \in op.pageIn[op.seg]
                                    THEN resident[h] + 1 ELSE resident[h]]
    /\ op' = [op EXCEPT !.pc = "made", !.late = {}]
    /\ UNCHANGED <<heapVars, cache, info, stats, currentFence, completed, gpuUse, osBudget>>

(* It fails: evict mEvictSizeInBytes more and try again.                   *)
PageInFails ==
    /\ op.pc = "device" /\ "outOfMemory" \in Behaviours
    /\ op' = [op EXCEPT !.pc = "evict", !.bytes = EvictSizeInBytes, !.retry = TRUE]
    /\ UNCHANGED <<heapVars, cache, info, stats, currentFence, device>>

(* A call that fails makes the operation return at that point.             *)
OpFails ==
    /\ "failures" \in Behaviours /\ \A h \in Heaps : resident[h] < MaxCount
    /\ \/ op.pc = "evict" /\ NotificationsDisabled
       \/ op.pc \in {"loop", "wait"}
       \/ op.kind = "exec" /\ op.pc = "made" /\ op.queue
    /\ op' = Idle
    /\ status' = [h \in Heaps |-> IF op.pc = "made" /\ h \in op.used
                                  THEN "RESIDENT" ELSE status[h]]
    /\ gpuUse' = [h \in Heaps |-> IF op.pc = "made" /\ h \in op.refs
                                  THEN currentFence ELSE gpuUse[h]]
    /\ UNCHANGED <<life, locks, lastUsed, cache, info, stats, currentFence,
                   completed, resident, osBudget>>

---------------------------------------------------------------------------
(* Budget.  SetVideoMemoryReservation and QueryVideoMemoryInfo refresh the *)
(* segment when notifications are disabled; otherwise the worker thread    *)
(* runs UpdateMemorySegments after the OS has changed a budget.            *)

SetVideoMemoryReservation(s, bytes) ==
    /\ op = Idle
    /\ LET i == [info[s] EXCEPT !.AvailableForReservation = bytes]
       IN info' = [info EXCEPT ![s] = IF NotificationsDisabled
                                      THEN Refreshed(i, s, OsUsage(s)) ELSE i]
    /\ UNCHANGED <<heapVars, cache, stats, currentFence, op, device>>

QueryVideoMemoryInfo(s) ==
    /\ op = Idle /\ NotificationsDisabled
    /\ info' = UpdateMemorySegment(s)
    /\ UNCHANGED <<heapVars, cache, stats, currentFence, op, device>>

BudgetWorkerUpdates ==
    /\ op = Idle /\ ~NotificationsDisabled
    /\ info' = UpdateMemorySegments
    /\ UNCHANGED <<heapVars, cache, stats, currentFence, op, device>>

OsChangesBudget(s, budget) ==
    /\ ~(IsUMA /\ s = NonLocal)
    /\ osBudget' = [osBudget EXCEPT ![s] = budget]
    /\ UNCHANGED <<heapVars, cache, info, stats, currentFence, op, completed, resident, gpuUse>>

(* The GPU finishes the oldest submission and signals its fence value.     *)
GpuCompletes ==
    /\ completed < LastSignaledFence
    /\ completed' = completed + 1
    /\ UNCHANGED <<heapVars, cache, info, stats, currentFence, op, resident, gpuUse, osBudget>>

---------------------------------------------------------------------------
ResidencyLists == UNION {[1..n -> Heaps] : n \in 0..MaxList}

ManagerStep ==
    \/ FinishLock \/ ScanHeap \/ ScanDone \/ Submit
    \/ EvictBegin \/ EvictPicks \/ EvictHead \/ EvictEnd \/ PageIn

Next ==
    \/ \E h \in Heaps : EnsureInBudget(h) \/ CreatePageable(h) \/ InsertCreated(h)
    \/ \E h \in Heaps : DestroyHeap(h)
    \/ \E h \in Heaps : LockHeap(h) \/ UnlockHeap(h)
    \/ \E list \in ResidencyLists, queue \in BOOLEAN : ExecuteCommandLists(list, queue)
    \/ ManagerStep
    \/ PageInFails
    \/ OpFails
    \/ \E s \in Segments, bytes \in Reservations : SetVideoMemoryReservation(s, bytes)
    \/ \E s \in Segments : QueryVideoMemoryInfo(s)
    \/ BudgetWorkerUpdates
    \/ \E s \in Segments, budget \in OsBudgets : OsChangesBudget(s, budget)
    \/ GpuCompletes

Spec == Init /\ [][Next]_vars

(* A thread that holds mMutex keeps running, and the GPU finishes what was *)
(* submitted to it.                                                        *)
FairSpec == Spec /\ WF_vars(ManagerStep) /\ WF_vars(GpuCompletes)
---------------------------------------------------------------------------
(* Properties.                                                             *)

Tracked(h) == IsInList(h) \/ IsResidencyLocked(h)

SegmentInfo == [Budget : Nat, CurrentUsage : 0..(Word - 1),
                AvailableForReservation : Nat, CurrentReservation : Nat]

Frame ==
    [kind : {"none", "ensure", "lock", "exec"},
     pc : {"idle", "scan", "evict", "loop", "wait", "device", "made"},
     heap : Heaps \cup {NoHeap}, list : Seq(Heaps), refs : SUBSET Heaps,
     used : SUBSET Heaps, pageIn : [Segments -> SUBSET Heaps], size : [Segments -> Nat],
     queue : BOOLEAN, seg : Segments, bytes : Nat, retry : BOOLEAN,
     need : Nat, evicted : Nat, victims : SUBSET Heaps,
     head : Heaps \cup {NoHeap}, fence : Nat, next : Heaps \cup {NoHeap},
     late : SUBSET Heaps]

TypeOK ==
    /\ life \in [Heaps -> {"absent", "ensured", "created", "live"}]
    /\ status \in [Heaps -> {"UNKNOWN", "PENDING", "RESIDENT"}]
    /\ locks \in [Heaps -> Nat]
    /\ lastUsed \in [Heaps -> Nat]
    /\ cache \in [Segments -> Seq(Heaps)]
    /\ info \in [Segments -> SegmentInfo]
    /\ stats \in [count : 0..(Word - 1), usage : 0..(Word - 1)]
    /\ currentFence \in Nat \ {0}
    /\ op \in Frame
    /\ completed \in Nat
    /\ resident \in [Heaps -> Nat]
    /\ gpuUse \in [Heaps -> Nat]
    /\ osBudget \in [Segments -> Nat]

(* The lists hold live heaps of their own segment, no heap twice, and no   *)
(* locked heap: the ASSERTs of InsertHeapInternal and the early returns of *)
(* UnlockHeap rest on it.                                                  *)
LRUWellFormed ==
    \A s \in Segments :
        /\ \A i, j \in DOMAIN cache[s] : cache[s][i] = cache[s][j] => i = j
        /\ \A i \in DOMAIN cache[s] :
              /\ life[cache[s][i]] = "live"
              /\ HeapSegment[cache[s][i]] = s
              /\ ~IsResidencyLocked(cache[s][i])

(* The GPU never runs a command list that references a heap that is not    *)
(* resident: EvictInternal waits for the last use of every heap it evicts, *)
(* and ExecuteCommandLists makes resident what it submits.                 *)
InFlightIsResident ==
    \A h \in Heaps : InFlight(h) => resident[h] > 0

(* InsertHeapInternal's "out of sync" comment: between operations D3D12    *)
(* counts a heap resident exactly once if the manager lists it or has it   *)
(* locked, and not at all otherwise.                                       *)
RefcountInSync ==
    op = Idle =>
        \A h \in Heaps : life[h] = "live" /\ HeapKind[h] # "unknown" =>
            resident[h] = IF Tracked(h) THEN 1 ELSE 0

(* "Heaps that stay locked will always be currently resident": a lock      *)
(* keeps the heap resident on the device and for the manager.              *)
LockedIsResident ==
    \A h \in Heaps : IsResidencyLocked(h) => resident[h] > 0 /\ status[h] = "RESIDENT"

(* GetStats counts exactly the heaps whose status is resident, although a  *)
(* locked heap is counted in mStats and an unlocked one in the lists.      *)
StatsExact ==
    op = Idle =>
        LET now == {h \in Heaps : life[h] = "live" /\ status[h] = "RESIDENT"}
        IN GetStats = [count |-> Cardinality(now),
                       usage |-> MapThenSumSet(LAMBDA h : HeapSize[h], now)]

(* EvictInternal holds mMutex while it waits on the fence.  The value it   *)
(* waits for was signaled to a queue, so the wait can end.                 *)
WaitIsSignaled ==
    op.pc = "wait" => op.fence <= LastSignaledFence

(* The loop gives up at a head used by the current submission; the list is *)
(* kept in an order in which everything behind such a head is used by the  *)
(* current submission too, so nothing evictable is passed over.            *)
ThrashOnlyWhenAllUsed ==
    \A s \in Segments : cache[s] # <<>> /\ lastUsed[Head(cache[s])] = currentFence =>
        \A i \in DOMAIN cache[s] : lastUsed[cache[s][i]] = currentFence

(* When the info is pulled from the OS, the device is first asked to page  *)
(* heaps in with the segment within budget, unless the list has nothing    *)
(* left to evict.  The budget is the one EvictInternal read; the heaps     *)
(* D3D12 has created for other threads since then are not in its usage.    *)
PagedInWithinBudget ==
    op.pc = "device" /\ ~op.retry /\ NotificationsDisabled /\ info[op.seg].Budget > 0 =>
        \/ UsageAtQuery(op.seg) - info[op.seg].CurrentReservation + op.size[op.seg]
             <= info[op.seg].Budget
        \/ cache[op.seg] = <<>>
        \/ lastUsed[Head(cache[op.seg])] = currentFence

(* "Locking a heap means the residency manager will never evict it": no    *)
(* step lowers the residency count of a locked heap.                       *)
LockedNeverEvicted ==
    [][\A h \in Heaps : IsResidencyLocked(h) => resident'[h] >= resident[h]]_vars

(* EvictInternal only touches heaps that still exist, although it unlinks  *)
(* them from the list in which ~Heap looks for itself, and keeps a pointer *)
(* to one of them while it waits.                                          *)
EvictsLiveHeaps ==
    /\ op.pc = "wait" => life[op.head] = "live"
    /\ \A h \in op.victims : life[h] = "live"

(* The mutex is always released again: the loops of EvictInternal and      *)
(* MakeResident end and every fence they wait for is reached.              *)
OpTerminates == []<>(op = Idle)
===========================================================================
