------------------------ MODULE ResidencyManager_proofs ------------------------
(***************************************************************************)
(* Proofs about ResidencyManager for any heaps, sizes, budgets, bounds and *)
(* behaviours of clients and device.  They rest on the structure of the    *)
(* LRU lists and of the operation that holds mMutex; the sizes the manager *)
(* computes with only decide which of the steps is taken, and stay in the  *)
(* range of its integers.  The second part is about orderly use, where the *)
(* manager and the device agree on what is resident.                       *)
(***************************************************************************)
EXTENDS ResidencyManager, SetSums

(* What the results about the lists assume of clients: no heap is          *)
(* destroyed while EvictInternal waits to evict that very heap.  ~Heap may *)
(* unlink any other heap meanwhile.                                        *)
CandidateLives == "destroyCandidate" \notin Behaviours

(* A sequence without repetitions.                                         *)
Injective(list) == \A i, j \in DOMAIN list : list[i] = list[j] => i = j

Within(new, list) == \A i \in DOMAIN new : \E j \in DOMAIN list : new[i] = list[j]

Occurs(h, list) == \E i \in DOMAIN list : list[i] = h

-----------------------------------------------------------------------------
(* What the list operations do.                                            *)

(* RemoveFromList keeps every other entry and drops h.                     *)
LEMMA UnlinkedList ==
    ASSUME NEW S, NEW list \in Seq(S), NEW h, Injective(list)
    PROVE  /\ Unlinked(list, h) \in Seq(S)
           /\ Injective(Unlinked(list, h))
           /\ Within(Unlinked(list, h), list)
           /\ ~Occurs(h, Unlinked(list, h))
<1> DEFINE n == Len(list)
           new == Unlinked(list, h)
<1>1. n \in Nat /\ DOMAIN list = 1..n
  OBVIOUS
<1>2. CASE ~Occurs(h, list)
  <2>1. new = list
    BY <1>2 DEF Unlinked, Occurs
  <2> QED
    BY <1>2, <2>1 DEF Within
<1>3. CASE Occurs(h, list)
  <2> DEFINE i == CHOOSE i \in DOMAIN list : list[i] = h
             Shift(k) == IF k < i THEN k ELSE k + 1
  <2>1. i \in 1..n /\ list[i] = h
    BY <1>1, <1>3 DEF Occurs
  <2>2. new = [k \in 1..(n - 1) |-> IF k < i THEN list[k] ELSE list[k + 1]]
    BY <1>3 DEF Unlinked, Occurs
  <2> HIDE DEF new, i
  <2>3. n - 1 \in Nat /\ \A k \in 1..(n - 1) : Shift(k) \in 1..n /\ Shift(k) # i
    BY <1>1, <2>1
  <2>4. \A k \in 1..(n - 1) : new[k] = list[Shift(k)]
    BY <2>2
  <2>5. \A k, l \in 1..(n - 1) : Shift(k) = Shift(l) => k = l
    BY <1>1, <2>1
  <2>6. DOMAIN new = 1..(n - 1)
    BY <2>2
  <2> HIDE DEF Shift
  <2>7. \A k \in 1..(n - 1) : new[k] \in S /\ list[Shift(k)] # h
    BY <1>1, <2>1, <2>3, <2>4 DEF Injective
  <2>8. new \in Seq(S)
    <3>1. new = [k \in 1..(n - 1) |-> new[k]]
      BY <2>2
    <3>2. new \in [1..(n - 1) -> S]
      BY <2>7, <3>1
    <3> QED
      BY <2>3, <3>2
  <2>9. Injective(new)
    BY <1>1, <2>3, <2>4, <2>5, <2>6 DEF Injective
  <2>10. Within(new, list)
    BY <1>1, <2>3, <2>4, <2>6 DEF Within
  <2>11. ~Occurs(h, new)
    BY <2>4, <2>6, <2>7 DEF Occurs
  <2> QED
    BY <2>8, <2>9, <2>10, <2>11 DEF new
<1> QED
  BY <1>2, <1>3

(* InsertHeapInternal appends a heap that is not in the list.              *)
LEMMA AppendedList ==
    ASSUME NEW S, NEW list \in Seq(S), NEW h \in S, Injective(list), ~Occurs(h, list)
    PROVE  /\ Append(list, h) \in Seq(S)
           /\ Injective(Append(list, h))
           /\ \A i \in DOMAIN Append(list, h) :
                 Append(list, h)[i] = h \/ \E j \in DOMAIN list : Append(list, h)[i] = list[j]
<1> DEFINE n == Len(list)
           new == Append(list, h)
<1>1. n \in Nat /\ DOMAIN list = 1..n
  OBVIOUS
<1>2. new \in Seq(S) /\ Len(new) = n + 1
  OBVIOUS
<1>3. DOMAIN new = 1..(n + 1)
  BY <1>2
<1>4. new[n + 1] = h /\ \A i \in 1..n : new[i] = list[i]
  BY <1>1
<1>5. \A i \in 1..(n + 1) : i = n + 1 \/ i \in 1..n
  BY <1>1
<1> HIDE DEF new, n
<1>6. Injective(new)
  BY <1>1, <1>3, <1>4, <1>5 DEF Injective, Occurs
<1> QED
  BY <1>1, <1>2, <1>3, <1>4, <1>5, <1>6 DEF new

(* EvictInternal takes the head off the list.                              *)
LEMMA TailOfList ==
    ASSUME NEW S, NEW list \in Seq(S), list # <<>>, Injective(list)
    PROVE  /\ Tail(list) \in Seq(S)
           /\ Injective(Tail(list))
           /\ Within(Tail(list), list)
           /\ Head(list) \in S
           /\ Occurs(Head(list), list)
<1> DEFINE n == Len(list)
<1>1. n \in Nat \ {0} /\ DOMAIN list = 1..n
  OBVIOUS
<1>2. /\ Tail(list) \in Seq(S) /\ Len(Tail(list)) = n - 1
      /\ \A i \in 1..(n - 1) : Tail(list)[i] = list[i + 1]
  BY <1>1
<1>3. DOMAIN Tail(list) = 1..(n - 1)
  BY <1>2
<1>4. Head(list) = list[1] /\ list[1] \in S
  BY <1>1
<1>5. \A i \in 1..(n - 1) : i + 1 \in 1..n
  BY <1>1
<1>6. Injective(Tail(list))
  BY <1>1, <1>2, <1>3, <1>5 DEF Injective
<1>7. Within(Tail(list), list)
  BY <1>1, <1>2, <1>3, <1>5 DEF Within
<1> QED
  BY <1>1, <1>2, <1>4, <1>6, <1>7 DEF Occurs

(* To unlink the head of a list is to take its tail.                       *)
LEMMA UnlinkedHead ==
    ASSUME NEW S, NEW list \in Seq(S), list # <<>>, Injective(list)
    PROVE  Unlinked(list, Head(list)) = Tail(list)
<1> DEFINE n == Len(list)
           h == Head(list)
           i == CHOOSE i \in DOMAIN list : list[i] = h
<1>1. n \in Nat \ {0} /\ DOMAIN list = 1..n /\ h = list[1]
  OBVIOUS
<1>2. i = 1
  <2>1. i \in DOMAIN list /\ list[i] = list[1] /\ 1 \in DOMAIN list
    BY <1>1
  <2> QED
    BY <2>1 DEF Injective
<1>3. Unlinked(list, h) = [k \in 1..(n - 1) |-> IF k < i THEN list[k] ELSE list[k + 1]]
  BY <1>1 DEF Unlinked
<1>4. Unlinked(list, h) = [k \in 1..(n - 1) |-> list[k + 1]]
  <2> HIDE DEF i, h, n
  <2>1. \A k \in 1..(n - 1) : ~(k < i)
    BY <1>1, <1>2
  <2> QED
    BY <1>3, <2>1, Zenon
<1>5. Tail(list) = [k \in 1..(n - 1) |-> list[k + 1]]
  <2>1. /\ Tail(list) \in Seq(S) /\ Len(Tail(list)) = n - 1
        /\ \A k \in 1..(n - 1) : Tail(list)[k] = list[k + 1]
    BY <1>1
  <2> DEFINE tail == Tail(list)
             m == n - 1
  <2>2. /\ tail \in Seq(S) /\ Len(tail) = m
        /\ \A k \in 1..m : tail[k] = list[k + 1]
    BY <2>1
  <2> HIDE DEF n, tail, m
  <2>3. tail = [k \in 1..m |-> tail[k]]
    BY <2>2
  <2>4. tail = [k \in 1..m |-> list[k + 1]]
    BY <2>2, <2>3
  <2> QED
    BY <2>4 DEF tail, m
<1> QED
  BY <1>4, <1>5
-----------------------------------------------------------------------------
(* The inductive invariant.                                                *)

(* The frame is a record whose control fields are typed; its numbers and   *)
(* the sets it collects are left open.                                     *)
FrameShape(o) ==
    [kind : {"none", "ensure", "lock", "exec"},
     pc : {"idle", "scan", "evict", "loop", "wait", "device", "made"},
     heap : Heaps \cup {NoHeap}, list : Seq(Heaps), refs : SUBSET Heaps,
     used : {o.used}, pageIn : {o.pageIn}, size : {o.size},
     queue : {o.queue}, seg : Segments, bytes : {o.bytes}, retry : {o.retry},
     need : {o.need}, evicted : {o.evicted}, victims : SUBSET Heaps,
     head : Heaps \cup {NoHeap}, fence : {o.fence}, next : Heaps \cup {NoHeap},
     late : SUBSET Heaps]

Shape ==
    /\ life \in [Heaps -> {"absent", "ensured", "created", "live"}]
    /\ locks \in [Heaps -> Nat]
    /\ lastUsed \in [Heaps -> Nat]
    /\ cache \in [Segments -> Seq(Heaps)]
    /\ currentFence \in Nat \ {0}
    /\ op \in FrameShape(op)
    /\ resident \in [Heaps -> Nat]

(* Heaps that are locked, or that the operation in progress refers to, are *)
(* not destroyed; the heap being locked is neither listed nor locked yet;  *)
(* the candidate for eviction stays at the head of the list, and was not   *)
(* used by the current submission.                                         *)
WaitInv ==
    op.pc = "wait" =>
        /\ cache[op.seg] # <<>>
        /\ op.head = Head(cache[op.seg])
        /\ op.fence = lastUsed[op.head]
        /\ op.fence # currentFence

OpInv ==
    /\ \A i \in DOMAIN op.list : op.list[i] \in op.refs
    /\ \A h \in op.refs : life[h] = "live"
    /\ op.pc = "scan" => op.kind = "exec"
    /\ op.kind = "ensure" => op.heap \in Heaps /\ life[op.heap] = "absent"
    /\ op.kind = "lock" =>
          op.heap \in Heaps /\ life[op.heap] = "live" /\ ~IsInList(op.heap) /\ locks[op.heap] = 0
    /\ \A h \in op.victims : locks[h] = 0
    /\ WaitInv

FenceInv == \A h \in Heaps : lastUsed[h] <= currentFence

LocksInv == \A h \in Heaps : locks[h] > 0 => life[h] = "live"

StructInv == Shape /\ LRUWellFormed /\ OpInv /\ FenceInv /\ LocksInv

(* The frame of no operation.                                              *)
LEMMA IdleShape ==
    /\ Idle \in FrameShape(Idle)
    /\ Idle.kind = "none" /\ Idle.pc = "idle" /\ Idle.list = <<>> /\ Idle.refs = {}
    /\ Idle.victims = {} /\ Idle.heap = NoHeap /\ Idle.head = NoHeap
  BY DEF FrameShape, Idle, Segments, Local

(* What the assumption says of one heap.                                   *)
LEMMA HeapFacts ==
    ASSUME NEW h \in Heaps
    PROVE  HeapSegment[h] \in Segments /\ h # NoHeap
  BY ResidencyAssumption

(* The invariant holds initially: no heap exists and mMutex is free.       *)
LEMMA InitStruct == Init => StructInv
<1> SUFFICES ASSUME Init PROVE StructInv
  OBVIOUS
<1> USE DEF Init
<1>1. op \in FrameShape(op)
  BY IdleShape
<1>2. Shape
  BY <1>1 DEF Shape
<1>3. LRUWellFormed
  BY DEF LRUWellFormed
<1>4. OpInv
  BY DEF OpInv, WaitInv, Idle
<1> QED
  BY <1>2, <1>3, <1>4 DEF StructInv, FenceInv, LocksInv
-----------------------------------------------------------------------------
(* One lemma per action.                                                   *)

(* Steps that leave the lists, the heaps and the fence alone.              *)
LEMMA FrameOnly ==
    ASSUME StructInv, UNCHANGED <<life, locks, lastUsed, cache, currentFence>>,
           op' \in FrameShape(op'), resident' \in [Heaps -> Nat], OpInv'
    PROVE  StructInv'
<1>1. LRUWellFormed'
  BY DEF StructInv, LRUWellFormed, IsResidencyLocked
<1> QED
  BY <1>1 DEF StructInv, Shape, FenceInv, LocksInv

(* Steps that take entries out of the lists, and keep the heaps of the     *)
(* remaining entries live and unlocked.                                    *)
LEMMA ListsShrink ==
    ASSUME StructInv, NEW new \in [Segments -> Seq(Heaps)], cache' = new,
           \A t \in Segments : Injective(new[t]) /\ Within(new[t], cache[t]),
           \A t \in Segments : \A i \in DOMAIN new[t] :
               life'[new[t][i]] = "live" /\ ~(locks'[new[t][i]] > 0)
    PROVE  LRUWellFormed'
<1> SUFFICES ASSUME NEW t \in Segments
             PROVE  /\ Injective(cache'[t])
                    /\ \A i \in DOMAIN cache'[t] :
                          /\ life'[cache'[t][i]] = "live"
                          /\ HeapSegment[cache'[t][i]] = t
                          /\ ~(locks'[cache'[t][i]] > 0)
  BY DEF LRUWellFormed, IsResidencyLocked, Injective
<1> QED
  BY DEF StructInv, LRUWellFormed, Within

(* RemoveFromList(h) on the lists of all segments.                         *)
LEMMA RemovedFromLists ==
    ASSUME StructInv, NEW h \in Heaps
    PROVE  /\ RemoveFromList(h) \in [Segments -> Seq(Heaps)]
           /\ \A t \in Segments :
                 /\ Injective(RemoveFromList(h)[t])
                 /\ Within(RemoveFromList(h)[t], cache[t])
                 /\ ~Occurs(h, RemoveFromList(h)[t])
<1> DEFINE s == HeapSegment[h]
           new == RemoveFromList(h)
<1>1. s \in Segments
  BY HeapFacts
<1>2. \A t \in Segments : cache[t] \in Seq(Heaps) /\ Injective(cache[t])
  BY DEF StructInv, Shape, LRUWellFormed, Injective
<1>3. \A t \in Segments : new[t] = IF t = s THEN Unlinked(cache[t], h) ELSE cache[t]
  BY <1>1 DEF RemoveFromList, StructInv, Shape
<1>4. \A t \in Segments : t # s => ~Occurs(h, cache[t])
  BY DEF StructInv, LRUWellFormed, Occurs
<1>5. new = [t \in Segments |-> new[t]]
  BY DEF RemoveFromList, StructInv, Shape
<1> HIDE DEF new
<1>6. ASSUME NEW t \in Segments
      PROVE  /\ new[t] \in Seq(Heaps)
             /\ Injective(new[t])
             /\ Within(new[t], cache[t])
             /\ ~Occurs(h, new[t])
  <2>1. CASE t = s
    BY <1>2, <1>3, <2>1, UnlinkedList
  <2>2. CASE t # s
    BY <1>2, <1>3, <1>4, <2>2 DEF Within
  <2> QED
    BY <2>1, <2>2
<1> QED
  BY <1>5, <1>6 DEF new

(* InsertHeap(lists, h) appends h to the list of its segment.              *)
LEMMA InsertedInLists ==
    ASSUME NEW lists \in [Segments -> Seq(Heaps)], NEW h \in Heaps,
           \A t \in Segments : Injective(lists[t]) /\ ~Occurs(h, lists[t])
    PROVE  /\ InsertHeap(lists, h) \in [Segments -> Seq(Heaps)]
           /\ \A t \in Segments :
                 /\ Injective(InsertHeap(lists, h)[t])
                 /\ \A i \in DOMAIN InsertHeap(lists, h)[t] :
                       \/ InsertHeap(lists, h)[t][i] = h /\ t = HeapSegment[h]
                       \/ \E j \in DOMAIN lists[t] : InsertHeap(lists, h)[t][i] = lists[t][j]
<1> DEFINE s == HeapSegment[h]
           new == InsertHeap(lists, h)
<1>1. s \in Segments
  BY HeapFacts
<1>2. \A t \in Segments : new[t] = IF t = s THEN Append(lists[t], h) ELSE lists[t]
  BY <1>1 DEF InsertHeap
<1>3. new = [t \in Segments |-> new[t]]
  BY DEF InsertHeap
<1> HIDE DEF new
<1>4. ASSUME NEW t \in Segments
      PROVE  /\ new[t] \in Seq(Heaps)
             /\ Injective(new[t])
             /\ \A i \in DOMAIN new[t] :
                   (new[t][i] = h /\ t = s) \/ \E j \in DOMAIN lists[t] : new[t][i] = lists[t][j]
  <2>1. CASE t # s
    BY <1>2, <2>1
  <2>2. CASE t = s
    <3>1. lists[t] \in Seq(Heaps) /\ Injective(lists[t]) /\ ~Occurs(h, lists[t])
      OBVIOUS
    <3>2. new[t] = Append(lists[t], h)
      BY <1>2, <2>2
    <3> QED
      BY <2>2, <3>1, <3>2, AppendedList
  <2> QED
    BY <2>1, <2>2
<1> QED
  BY <1>3, <1>4 DEF new

(* A step that inserts a live and unlocked heap into lists that hold only  *)
(* entries of the old ones.                                                *)
LEMMA ListsGrow ==
    ASSUME StructInv, NEW lists \in [Segments -> Seq(Heaps)], NEW h \in Heaps,
           cache' = InsertHeap(lists, h),
           \A t \in Segments : Injective(lists[t]) /\ Within(lists[t], cache[t]) /\ ~Occurs(h, lists[t]),
           life'[h] = "live", ~(locks'[h] > 0),
           \A g \in Heaps \ {h} : life'[g] = life[g] /\ locks'[g] = locks[g]
    PROVE  LRUWellFormed' /\ cache' \in [Segments -> Seq(Heaps)]
<1>1. /\ cache' \in [Segments -> Seq(Heaps)]
      /\ \A t \in Segments :
            /\ Injective(cache'[t])
            /\ \A i \in DOMAIN cache'[t] :
                  \/ cache'[t][i] = h /\ t = HeapSegment[h]
                  \/ \E j \in DOMAIN lists[t] : cache'[t][i] = lists[t][j]
  BY InsertedInLists
<1>2. ASSUME NEW t \in Segments, NEW i \in DOMAIN cache'[t]
      PROVE  /\ life'[cache'[t][i]] = "live"
             /\ HeapSegment[cache'[t][i]] = t
             /\ ~(locks'[cache'[t][i]] > 0)
  <2>1. CASE cache'[t][i] = h /\ t = HeapSegment[h]
    BY <2>1
  <2>2. ASSUME NEW j \in DOMAIN lists[t], cache'[t][i] = lists[t][j]
        PROVE  /\ life'[cache'[t][i]] = "live"
               /\ HeapSegment[cache'[t][i]] = t
               /\ ~(locks'[cache'[t][i]] > 0)
    <3>1. lists[t][j] # h /\ lists[t][j] \in Heaps
      BY DEF Occurs
    <3>2. PICK k \in DOMAIN cache[t] : lists[t][j] = cache[t][k]
      BY DEF Within
    <3>3. life[cache[t][k]] = "live" /\ HeapSegment[cache[t][k]] = t /\ ~(locks[cache[t][k]] > 0)
      BY DEF StructInv, LRUWellFormed, IsResidencyLocked
    <3> QED
      BY <2>2, <3>1, <3>2, <3>3
  <2> QED
    BY <1>1, <2>1, <2>2
<1>3. LRUWellFormed'
  BY <1>1, <1>2 DEF LRUWellFormed, IsResidencyLocked, Injective
<1> QED
  BY <1>1, <1>3

(* The lists of a well-formed state.                                       *)
LEMMA ListFacts ==
    ASSUME StructInv
    PROVE  /\ cache \in [Segments -> Seq(Heaps)]
           /\ \A t \in Segments : Injective(cache[t]) /\ Within(cache[t], cache[t])
  BY DEF StructInv, Shape, LRUWellFormed, Injective, Within

(* EnsureInBudget takes mMutex and changes only the frame.                 *)
LEMMA EnsurePreserves ==
    ASSUME StructInv, NEW h \in Heaps, EnsureInBudget(h)
    PROVE  StructInv'
<1>1. op' \in FrameShape(op')
  BY HeapFacts, IdleShape, ZenonT(60) DEF EnsureInBudget, FrameShape
<1>2. OpInv'
  BY IdleShape DEF EnsureInBudget, OpInv, WaitInv, FrameShape, StructInv, heapVars
<1> QED
  BY <1>1, <1>2, FrameOnly DEF EnsureInBudget, heapVars, device, StructInv, Shape

(* ExecuteCommandLists takes mMutex with a list of live heaps.             *)
LEMMA ExecutePreserves ==
    ASSUME StructInv, NEW list \in ResidencyLists, NEW queue \in BOOLEAN,
           ExecuteCommandLists(list, queue)
    PROVE  StructInv'
<1>1. list \in Seq(Heaps)
  BY DEF ResidencyLists
<1>2. Range(list) \subseteq Heaps /\ \A i \in DOMAIN list : list[i] \in Range(list)
  BY <1>1 DEF Range
<1>3. \A h \in Range(list) : life[h] = "live"
  BY DEF Range, ExecuteCommandLists
<1>4. op' \in FrameShape(op')
  BY <1>1, <1>2, IdleShape, ZenonT(60) DEF ExecuteCommandLists, FrameShape
<1>5. OpInv'
  BY <1>1, <1>2, <1>3, IdleShape DEF ExecuteCommandLists, OpInv, WaitInv, FrameShape, heapVars
<1> QED
  BY <1>4, <1>5, FrameOnly DEF ExecuteCommandLists, heapVars, device, StructInv, Shape

(* The residency count D3D12 gives a created heap is a number.             *)
LEMMA CreatedCount ==
    ASSUME StructInv, NEW h \in Heaps, CreatePageable(h)
    PROVE  resident' \in [Heaps -> Nat]
<1>1. CASE UNCHANGED resident
  BY <1>1 DEF StructInv, Shape
<1>2. ASSUME NEW count \in CountAtCreation(HeapKind[h]), resident' = [resident EXCEPT ![h] = count]
      PROVE  resident' \in [Heaps -> Nat]
  <2>1. HeapKind[h] \in AllKinds
    BY ResidencyAssumption
  <2>2. count \in Nat
    BY <2>1 DEF CountAtCreation, AllKinds
  <2> QED
    BY <1>2, <2>2 DEF StructInv, Shape
<1> QED
  BY <1>1, <1>2 DEF CreatePageable

(* What the creation of a heap changes in the frame: the history.          *)
LEMMA CreatedFrame ==
    ASSUME StructInv, NEW h \in Heaps, CreatePageable(h)
    PROVE  /\ op' \in FrameShape(op')
           /\ \E late \in SUBSET Heaps : op' = [op EXCEPT !.late = late]
<1>0. op \in FrameShape(op)
  BY DEF StructInv, Shape
<1>1. op = [op EXCEPT !.late = op.late] /\ op.late \in SUBSET Heaps
  BY <1>0 DEF FrameShape
<1>2. \E late \in SUBSET Heaps : op' = [op EXCEPT !.late = late]
  <2>1. CASE op' = op
    BY <1>1, <2>1
  <2>2. CASE op' = [op EXCEPT !.late = @ \cup {h}]
    BY <1>1, <2>2
  <2> QED
    BY <2>1, <2>2 DEF CreatePageable
<1>3. op' \in FrameShape(op')
  BY <1>0, <1>2, ZenonT(60) DEF FrameShape
<1> QED
  BY <1>2, <1>3

(* The created heap is not locked and in no list.                          *)
LEMMA NotLiveUnused ==
    ASSUME StructInv, NEW h \in Heaps, life[h] # "live"
    PROVE  locks[h] = 0 /\ \A t \in Segments : ~Occurs(h, cache[t])
  BY DEF StructInv, LRUWellFormed, Occurs, LocksInv, Shape

(* D3D12 creates a heap beside the operation in progress.                  *)
LEMMA PageablePreserves ==
    ASSUME StructInv, NEW h \in Heaps, CreatePageable(h)
    PROVE  StructInv'
<1> USE DEF StructInv
<1>0. /\ UNCHANGED <<locks, cache, currentFence>> /\ life[h] # "live" /\ h # op.heap
      /\ \E l \in {"absent", "created", "live"} : life' = [life EXCEPT ![h] = l]
      /\ lastUsed' = lastUsed \/ lastUsed' = [lastUsed EXCEPT ![h] = 0]
  BY DEF CreatePageable
<1>1. locks[h] = 0 /\ \A t \in Segments : ~Occurs(h, cache[t])
  BY <1>0, NotLiveUnused
<1>2. PICK l \in {"absent", "created", "live"} : life' = [life EXCEPT ![h] = l]
  BY <1>0
<1>3. \A t \in Segments : \A i \in DOMAIN cache[t] : cache[t][i] \in Heaps /\ cache[t][i] # h
  BY <1>1 DEF Occurs, Shape
<1>4. LRUWellFormed'
  <2>1. \A t \in Segments : \A i \in DOMAIN cache[t] :
           life'[cache[t][i]] = "live" /\ ~(locks'[cache[t][i]] > 0)
    BY <1>0, <1>2, <1>3 DEF LRUWellFormed, IsResidencyLocked, Shape
  <2> QED
    BY <1>0, <2>1, ListFacts, ListsShrink
<1>5. LocksInv' /\ life' \in [Heaps -> {"absent", "ensured", "created", "live"}]
  BY <1>0, <1>1, <1>2 DEF LocksInv, Shape
<1>6. /\ lastUsed' \in [Heaps -> Nat] /\ \A g \in Heaps : lastUsed'[g] <= lastUsed[g]
      /\ \A g \in Heaps \ {h} : lastUsed'[g] = lastUsed[g]
  <2>1. CASE lastUsed' = lastUsed
    BY <2>1 DEF Shape
  <2>2. CASE lastUsed' = [lastUsed EXCEPT ![h] = 0]
    BY <2>2 DEF Shape
  <2> QED
    BY <1>0, <2>1, <2>2
<1>7. FenceInv'
  <2>1. \A g \in Heaps : lastUsed'[g] \in Nat /\ lastUsed[g] \in Nat /\ lastUsed'[g] <= lastUsed[g]
    BY <1>6 DEF Shape
  <2>2. currentFence' = currentFence /\ currentFence \in Nat
    BY <1>0 DEF Shape
  <2> QED
    BY <2>1, <2>2 DEF FenceInv
<1>8. resident' \in [Heaps -> Nat] /\ op' \in FrameShape(op')
  BY CreatedCount, CreatedFrame
<1>9. /\ op'.kind = op.kind /\ op'.pc = op.pc /\ op'.heap = op.heap /\ op'.list = op.list
      /\ op'.refs = op.refs /\ op'.victims = op.victims /\ op'.seg = op.seg
      /\ op'.head = op.head /\ op'.fence = op.fence
  <2>1. PICK late \in SUBSET Heaps : op' = [op EXCEPT !.late = late]
    BY CreatedFrame
  <2>2. op \in FrameShape(op)
    BY DEF Shape
  <2> QED
    BY <2>1, <2>2 DEF FrameShape
<1>10. WaitInv'
  <2> SUFFICES ASSUME op.pc = "wait"
               PROVE  lastUsed'[op.head] = lastUsed[op.head]
    BY <1>0, <1>9 DEF OpInv, WaitInv
  <2>1. op.seg \in Segments /\ cache[op.seg] # <<>> /\ op.head = Head(cache[op.seg])
    BY DEF OpInv, WaitInv, Shape, FrameShape
  <2>2. op.head \in Heaps /\ Occurs(op.head, cache[op.seg])
    BY <2>1, ListFacts, TailOfList
  <2> QED
    BY <1>1, <1>6, <2>1, <2>2
<1>11. OpInv'
  <2>1. \A g \in op.refs : g \in Heaps /\ life'[g] = "live"
    BY <1>0, <1>2 DEF OpInv, Shape, FrameShape
  <2>2. op.kind \in {"ensure", "lock"} => op.heap \in Heaps /\ life'[op.heap] = life[op.heap]
    BY <1>0, <1>2 DEF OpInv, Shape
  <2>3. op.kind = "lock" => ~IsInList(op.heap)'
    BY <1>0, <1>9 DEF OpInv, IsInList
  <2> QED
    BY <1>0, <1>9, <1>10, <2>1, <2>2, <2>3 DEF OpInv
<1> QED
  BY <1>0, <1>4, <1>5, <1>6, <1>7, <1>8, <1>11 DEF Shape

(* InsertHeap lists the created heap.                                      *)
LEMMA InsertPreserves ==
    ASSUME StructInv, NEW h \in Heaps, InsertCreated(h)
    PROVE  StructInv'
<1> USE DEF StructInv
<1>0. /\ op = Idle /\ life[h] # "live" /\ life' = [life EXCEPT ![h] = "live"]
      /\ cache' = InsertHeap(cache, h)
      /\ UNCHANGED <<op, locks, lastUsed, currentFence, resident>>
  BY DEF InsertCreated, device
<1>1. locks[h] = 0 /\ \A t \in Segments : ~Occurs(h, cache[t])
  BY <1>0, NotLiveUnused
<1>2. OpInv'
  BY <1>0, IdleShape DEF OpInv, WaitInv
<1>3. life'[h] = "live" /\ ~(locks'[h] > 0)
      /\ \A g \in Heaps \ {h} : life'[g] = life[g] /\ locks'[g] = locks[g]
  BY <1>0, <1>1 DEF Shape
<1>4. LRUWellFormed' /\ cache' \in [Segments -> Seq(Heaps)]
  BY <1>0, <1>1, <1>3, ListFacts, ListsGrow
<1>5. FenceInv' /\ LocksInv'
  BY <1>0, <1>1 DEF FenceInv, LocksInv, Shape
<1> QED
  BY <1>0, <1>2, <1>4, <1>5 DEF Shape

(* The candidate for eviction stays at the head of its list while another  *)
(* heap is unlinked.                                                       *)
LEMMA HeadStays ==
    ASSUME StructInv, NEW h \in Heaps, h # op.head, op' = op, cache' = RemoveFromList(h),
           lastUsed' = [lastUsed EXCEPT ![h] = 0], currentFence' = currentFence
    PROVE  WaitInv'
<1> SUFFICES ASSUME op.pc = "wait"
             PROVE  /\ cache'[op.seg] # <<>>
                    /\ op.head = Head(cache'[op.seg])
                    /\ lastUsed'[op.head] = lastUsed[op.head]
  BY DEF StructInv, OpInv, WaitInv
<1> DEFINE list == cache[op.seg]
           i == CHOOSE i \in DOMAIN list : list[i] = h
<1>1. /\ op.seg \in Segments /\ list # <<>> /\ op.head = Head(list)
      /\ list \in Seq(Heaps) /\ Injective(list)
  BY ListFacts DEF StructInv, OpInv, WaitInv, Shape, FrameShape
<1>2. op.head \in Heaps /\ lastUsed'[op.head] = lastUsed[op.head]
  BY <1>1, TailOfList DEF StructInv, Shape
<1>3. CASE cache'[op.seg] = list
  BY <1>1, <1>2, <1>3
<1>4. CASE cache'[op.seg] = Unlinked(list, h)
  <2>1. CASE ~Occurs(h, list)
    BY <1>1, <1>2, <1>4, <2>1 DEF Unlinked, Occurs
  <2>2. CASE Occurs(h, list)
    <3> DEFINE n == Len(list)
               new == [k \in 1..(n - 1) |-> IF k < i THEN list[k] ELSE list[k + 1]]
    <3>1. i \in DOMAIN list /\ list[i] = h
      BY <2>2 DEF Occurs
    <3>2. n \in Nat \ {0} /\ DOMAIN list = 1..n /\ op.head = list[1]
      BY <1>1
    <3>3. i # 1
      BY <3>1, <3>2
    <3>4. Unlinked(list, h) = new
      BY <2>2 DEF Unlinked, Occurs
    <3> HIDE DEF i, list
    <3>5. 1 \in 1..(n - 1) /\ 1 < i /\ n - 1 \in Nat
      BY <3>1, <3>2, <3>3
    <3>6. \A k \in 1..(n - 1) : (IF k < i THEN list[k] ELSE list[k + 1]) \in Heaps
      BY <1>1, <3>1, <3>2
    <3>7. new \in [1..(n - 1) -> Heaps] /\ new[1] = list[1]
      BY <3>5, <3>6
    <3> HIDE DEF new
    <3>8. new \in Seq(Heaps) /\ DOMAIN new = 1..(n - 1)
      BY <3>5, <3>7
    <3>9. new # <<>> /\ Head(new) = list[1]
      BY <3>5, <3>7, <3>8
    <3> QED
      BY <1>2, <1>4, <3>2, <3>4, <3>9
  <2> QED
    BY <2>1, <2>2
<1>5. cache'[op.seg] \in {list, Unlinked(list, h)}
  BY <1>1 DEF RemoveFromList, StructInv, Shape
<1> QED
  BY <1>3, <1>4, <1>5

(* ~Heap may run while another thread holds mMutex: it removes a heap that *)
(* is not locked and that the operation in progress does not refer to.     *)
LEMMA DestroyPreserves ==
    ASSUME CandidateLives, StructInv, NEW h \in Heaps, DestroyHeap(h)
    PROVE  StructInv'
<1> USE DEF StructInv
<1>1. h \notin op.refs /\ h # op.heap /\ h # op.head
  BY HeapFacts, IdleShape DEF DestroyHeap, MayDestroy, CandidateLives
<1>0. /\ op' = op /\ locks' = locks /\ currentFence' = currentFence
      /\ life' = [life EXCEPT ![h] = "absent"] /\ lastUsed' = [lastUsed EXCEPT ![h] = 0]
      /\ resident' = [resident EXCEPT ![h] = 0] /\ cache' = RemoveFromList(h)
      /\ life[h] = "live" /\ locks[h] = 0
  BY <1>1 DEF DestroyHeap, IsResidencyLocked, Shape
<1>2. /\ cache' \in [Segments -> Seq(Heaps)]
      /\ \A t \in Segments : Injective(cache'[t]) /\ Within(cache'[t], cache[t]) /\ ~Occurs(h, cache'[t])
  BY <1>0, RemovedFromLists
<1>3. \A t \in Segments : \A i \in DOMAIN cache'[t] :
         life'[cache'[t][i]] = "live" /\ ~(locks'[cache'[t][i]] > 0)
  <2> SUFFICES ASSUME NEW t \in Segments, NEW i \in DOMAIN cache'[t]
               PROVE  life'[cache'[t][i]] = "live" /\ ~(locks'[cache'[t][i]] > 0)
    OBVIOUS
  <2>1. PICK j \in DOMAIN cache[t] : cache'[t][i] = cache[t][j]
    BY <1>2 DEF Within
  <2>2. cache'[t][i] # h /\ cache'[t][i] \in Heaps
    BY <1>2 DEF Occurs
  <2>3. life[cache[t][j]] = "live" /\ ~(locks[cache[t][j]] > 0)
    BY DEF LRUWellFormed, IsResidencyLocked
  <2> QED
    BY <1>0, <2>1, <2>2, <2>3 DEF Shape
<1>4. LRUWellFormed'
  BY <1>2, <1>3, ListsShrink
<1>5. \A g \in Heaps : ~IsInList(g) => ~IsInList(g)'
  <2> SUFFICES ASSUME NEW g \in Heaps, NEW i \in DOMAIN cache'[HeapSegment[g]],
                      cache'[HeapSegment[g]][i] = g
               PROVE  IsInList(g)
    BY DEF IsInList
  <2>1. HeapSegment[g] \in Segments
    BY HeapFacts
  <2> QED
    BY <1>2, <2>1 DEF IsInList, Within
<1>6. OpInv'
  <2>1. \A g \in op.refs : g \in Heaps /\ g # h
    BY <1>1 DEF Shape, FrameShape
  <2>2. \A g \in op.refs : life'[g] = "live"
    BY <1>0, <2>1 DEF OpInv, Shape
  <2>3. op.kind \in {"ensure", "lock"} => op.heap \in Heaps /\ life'[op.heap] = life[op.heap]
    BY <1>0, <1>1 DEF OpInv, Shape
  <2>4. op.kind = "lock" => ~IsInList(op.heap)'
    BY <1>0, <1>5 DEF OpInv
  <2>5. WaitInv'
    BY <1>0, <1>1, HeadStays DEF OpInv
  <2> QED
    BY <1>0, <2>2, <2>3, <2>4, <2>5 DEF OpInv
<1>7. FenceInv' /\ LocksInv'
  BY <1>0 DEF FenceInv, LocksInv, Shape
<1>8. Shape'
  BY <1>0, <1>2 DEF Shape
<1> QED
  BY <1>4, <1>6, <1>7, <1>8

(* LockHeap unlinks the heap it locks, or begins to page it in.            *)
LEMMA LockPreserves ==
    ASSUME StructInv, NEW h \in Heaps, LockHeap(h)
    PROVE  StructInv'
<1> USE DEF StructInv
<1>0. op = Idle /\ life[h] = "live" /\ UNCHANGED <<life, lastUsed, currentFence, resident>>
  BY DEF LockHeap, device
<1>1. CASE MustPageIn(h)
  <2>1. UNCHANGED <<locks, cache>> /\ ~IsInList(h) /\ locks[h] = 0
    BY <1>1 DEF LockHeap, MustPageIn, IsResidencyLocked, Shape
  <2>2. /\ op' \in FrameShape(op') /\ op'.list = <<>> /\ op'.refs = {} /\ op'.victims = {}
        /\ op'.kind = "lock" /\ op'.pc = "evict" /\ op'.heap = h
    <3> DEFINE pages == [Idle.pageIn EXCEPT ![HeapSegment[h]] = {h}]
               sizes == [Idle.size EXCEPT ![HeapSegment[h]] = HeapSize[h]]
    <3>1. op' = [[Idle EXCEPT !.kind = "lock", !.heap = h, !.pageIn = pages, !.size = sizes]
                  EXCEPT !.pc = "evict", !.seg = HeapSegment[h],
                         !.bytes = sizes[HeapSegment[h]], !.retry = FALSE]
      BY <1>1, IdleShape DEF LockHeap, MakeResident, FrameShape
    <3> HIDE DEF pages, sizes
    <3> QED
      BY <3>1, IdleShape, HeapFacts, ZenonT(60) DEF FrameShape
  <2>3. OpInv'
    BY <1>0, <2>1, <2>2 DEF OpInv, WaitInv, IsInList
  <2> QED
    BY <1>0, <2>1, <2>2, <2>3, FrameOnly DEF Shape
<1>2. CASE ~MustPageIn(h)
  <2>1. locks' = [locks EXCEPT ![h] = @ + 1] /\ cache' = RemoveFromList(h) /\ op' = op
    BY <1>2 DEF LockHeap
  <2>2. /\ cache' \in [Segments -> Seq(Heaps)]
        /\ \A t \in Segments : Injective(cache'[t]) /\ Within(cache'[t], cache[t]) /\ ~Occurs(h, cache'[t])
    BY <2>1, RemovedFromLists
  <2>3. \A t \in Segments : \A i \in DOMAIN cache'[t] :
           life'[cache'[t][i]] = "live" /\ ~(locks'[cache'[t][i]] > 0)
    <3> SUFFICES ASSUME NEW t \in Segments, NEW i \in DOMAIN cache'[t]
                 PROVE  life'[cache'[t][i]] = "live" /\ ~(locks'[cache'[t][i]] > 0)
      OBVIOUS
    <3>1. PICK j \in DOMAIN cache[t] : cache'[t][i] = cache[t][j]
      BY <2>2 DEF Within
    <3>2. cache'[t][i] # h /\ cache'[t][i] \in Heaps
      BY <2>2 DEF Occurs
    <3>3. life[cache[t][j]] = "live" /\ ~(locks[cache[t][j]] > 0)
      BY DEF LRUWellFormed, IsResidencyLocked
    <3> QED
      BY <1>0, <2>1, <3>1, <3>2, <3>3 DEF Shape
  <2>4. LRUWellFormed'
    BY <2>2, <2>3, ListsShrink
  <2>5. OpInv'
    BY <1>0, <2>1, IdleShape DEF OpInv, WaitInv
  <2>6. FenceInv' /\ LocksInv'
    BY <1>0, <2>1 DEF FenceInv, LocksInv, Shape
  <2>7. Shape'
    BY <1>0, <2>1, <2>2 DEF Shape
  <2> QED
    BY <2>4, <2>5, <2>6, <2>7
<1> QED
  BY <1>1, <1>2

(* The heap LockHeap paged in is not in a list when it is locked.          *)
LEMMA FinishLockPreserves ==
    ASSUME StructInv, FinishLock
    PROVE  StructInv'
<1> USE DEF StructInv
<1> DEFINE h == op.heap
<1>0. /\ op' = Idle /\ UNCHANGED <<life, lastUsed, cache, currentFence, resident>>
      /\ locks' = [locks EXCEPT ![h] = @ + 1]
      /\ h \in Heaps /\ life[h] = "live" /\ ~IsInList(h)
  BY DEF FinishLock, OpInv, device
<1> HIDE DEF h
<1>1. \A t \in Segments : \A i \in DOMAIN cache[t] :
         life[cache[t][i]] = "live" /\ ~(locks'[cache[t][i]] > 0)
  <2> SUFFICES ASSUME NEW t \in Segments, NEW i \in DOMAIN cache[t]
               PROVE  life[cache[t][i]] = "live" /\ ~(locks'[cache[t][i]] > 0)
    OBVIOUS
  <2>1. /\ cache[t][i] \in Heaps /\ life[cache[t][i]] = "live" /\ ~(locks[cache[t][i]] > 0)
        /\ HeapSegment[cache[t][i]] = t
    BY DEF LRUWellFormed, IsResidencyLocked, Shape
  <2>2. cache[t][i] # h
    BY <1>0, <2>1 DEF IsInList
  <2> QED
    BY <1>0, <2>1, <2>2 DEF Shape
<1>2. LRUWellFormed'
  BY <1>0, <1>1, ListFacts, ListsShrink
<1>3. OpInv'
  BY <1>0, IdleShape DEF OpInv, WaitInv
<1>4. FenceInv' /\ LocksInv'
  BY <1>0 DEF FenceInv, LocksInv, Shape
<1>5. Shape'
  BY <1>0, IdleShape DEF Shape
<1> QED
  BY <1>2, <1>3, <1>4, <1>5

(* UnlockHeap inserts a heap when its last lock is gone.                   *)
LEMMA UnlockPreserves ==
    ASSUME StructInv, NEW h \in Heaps, UnlockHeap(h)
    PROVE  StructInv'
<1> USE DEF StructInv
<1>0. /\ op = Idle /\ op' = op /\ UNCHANGED <<life, lastUsed, currentFence, resident>>
      /\ locks' = [locks EXCEPT ![h] = @ - 1]
      /\ life[h] = "live" /\ locks[h] > 0
  BY DEF UnlockHeap, device, IsResidencyLocked
<1>1. locks' \in [Heaps -> Nat]
  BY <1>0 DEF Shape
<1>2. \A t \in Segments : ~Occurs(h, cache[t])
  BY <1>0 DEF LRUWellFormed, Occurs, IsResidencyLocked
<1>3. OpInv'
  BY <1>0, IdleShape DEF OpInv, WaitInv
<1>4. FenceInv' /\ LocksInv'
  BY <1>0 DEF FenceInv, LocksInv, Shape
<1>5. CASE locks[h] > 1
  <2>1. cache' = cache
    BY <1>5 DEF UnlockHeap
  <2>2. \A t \in Segments : \A i \in DOMAIN cache[t] :
           life'[cache[t][i]] = "live" /\ ~(locks'[cache[t][i]] > 0)
    <3> SUFFICES ASSUME NEW t \in Segments, NEW i \in DOMAIN cache[t]
                 PROVE  life'[cache[t][i]] = "live" /\ ~(locks'[cache[t][i]] > 0)
      OBVIOUS
    <3>1. cache[t][i] \in Heaps /\ life[cache[t][i]] = "live" /\ ~(locks[cache[t][i]] > 0)
      BY DEF LRUWellFormed, IsResidencyLocked, Shape
    <3> QED
      BY <1>0, <3>1 DEF Shape
  <2>3. LRUWellFormed'
    BY <2>1, <2>2, ListFacts, ListsShrink
  <2> QED
    BY <1>0, <1>1, <1>3, <1>4, <2>1, <2>3 DEF Shape
<1>6. CASE ~(locks[h] > 1)
  <2>1. cache' = InsertHeap(cache, h) /\ locks'[h] = 0
    BY <1>0, <1>6 DEF UnlockHeap, Shape
  <2>2. \A g \in Heaps \ {h} : life'[g] = life[g] /\ locks'[g] = locks[g]
    BY <1>0 DEF Shape
  <2>3. LRUWellFormed' /\ cache' \in [Segments -> Seq(Heaps)]
    BY <1>0, <1>2, <2>1, <2>2, ListFacts, ListsGrow
  <2> QED
    BY <1>0, <1>1, <1>3, <1>4, <2>3 DEF Shape
<1> QED
  BY <1>5, <1>6

(* The loop over the residency list moves a heap to the tail.              *)
LEMMA ScanPreserves ==
    ASSUME StructInv, ScanHeap
    PROVE  StructInv'
<1> USE DEF StructInv
<1> DEFINE h == Head(op.list)
           rest == Tail(op.list)
<1>0. /\ op.pc = "scan" /\ op.kind = "exec" /\ op.list # <<>>
      /\ UNCHANGED <<life, locks, currentFence, resident>>
  BY DEF ScanHeap, device, OpInv
<1>1. op \in FrameShape(op) /\ op.list \in Seq(Heaps)
  BY DEF Shape, FrameShape
<1>2. /\ rest \in Seq(Heaps) /\ \A i \in DOMAIN rest : rest[i] \in op.refs
      /\ h \in op.refs /\ h \in Heaps
  <2>1. Len(op.list) \in Nat \ {0} /\ DOMAIN op.list = 1..Len(op.list)
    BY <1>0, <1>1
  <2>2. /\ rest \in Seq(Heaps) /\ DOMAIN rest = 1..(Len(op.list) - 1)
        /\ \A i \in 1..(Len(op.list) - 1) : rest[i] = op.list[i + 1]
    BY <1>1, <2>1
  <2>3. h = op.list[1] /\ h \in Heaps
    BY <1>1, <2>1
  <2>4. \A i \in 1..(Len(op.list) - 1) : i + 1 \in 1..Len(op.list)
    BY <2>1
  <2>5. \A i \in DOMAIN op.list : op.list[i] \in op.refs
    BY <1>0 DEF OpInv
  <2>6. h \in op.refs
    BY <2>1, <2>3, <2>5
  <2>7. ASSUME NEW i \in DOMAIN rest PROVE rest[i] \in op.refs
    BY <2>1, <2>2, <2>4, <2>5
  <2> QED
    BY <2>2, <2>3, <2>6, <2>7
<1> DEFINE next == [op EXCEPT !.list = rest]
<1>3. /\ next \in FrameShape(next) /\ next.list = rest /\ next.pc = "scan"
      /\ next.kind = op.kind /\ next.refs = op.refs /\ next.victims = op.victims
  BY <1>0, <1>1, <1>2 DEF FrameShape
<1> HIDE DEF h, rest
<1>4. /\ op' \in FrameShape(op') /\ op'.list = rest /\ op'.pc = "scan"
      /\ op'.kind = op.kind /\ op'.refs = op.refs /\ op'.victims = op.victims
  <2>1. CASE IsResidencyLocked(h) \/ lastUsed[h] = currentFence
    BY <1>3, <2>1 DEF ScanHeap, h, rest
  <2>2. CASE ~(IsResidencyLocked(h) \/ lastUsed[h] = currentFence)
    <3> DEFINE seg == HeapSegment[h]
               pages == [next.pageIn EXCEPT ![seg] = @ \cup {h}]
               sizes == [next.size EXCEPT ![seg] = @ + HeapSize[h]]
    <3>1. op' = IF IsInList(h) THEN [next EXCEPT !.used = @ \cup {h}]
                ELSE [next EXCEPT !.used = @ \cup {h}, !.pageIn[seg] = @ \cup {h},
                                  !.size[seg] = @ + HeapSize[h]]
      BY <2>2 DEF ScanHeap, h, rest
    <3> HIDE DEF next
    <3>2. op' = IF IsInList(h) THEN [next EXCEPT !.used = @ \cup {h}]
                ELSE [next EXCEPT !.used = @ \cup {h}, !.pageIn = pages, !.size = sizes]
      BY <1>3, <3>1 DEF FrameShape
    <3> HIDE DEF pages, sizes
    <3> QED
      BY <1>3, <3>2, ZenonT(60) DEF FrameShape
  <2> QED
    BY <2>1, <2>2
<1>5. OpInv'
  BY <1>0, <1>2, <1>4 DEF OpInv, WaitInv
<1>6. CASE IsResidencyLocked(h) \/ lastUsed[h] = currentFence
  <2>1. UNCHANGED <<lastUsed, cache>>
    BY <1>6 DEF ScanHeap, h
  <2> QED
    BY <1>0, <1>4, <1>5, <2>1, FrameOnly DEF Shape
<1>7. CASE ~(IsResidencyLocked(h) \/ lastUsed[h] = currentFence)
  <2>1. /\ cache' = InsertHeap(RemoveFromList(h), h)
        /\ lastUsed' = [lastUsed EXCEPT ![h] = currentFence]
        /\ ~(locks[h] > 0) /\ life[h] = "live"
    BY <1>2, <1>7 DEF ScanHeap, h, IsResidencyLocked, OpInv
  <2>2. LRUWellFormed' /\ cache' \in [Segments -> Seq(Heaps)]
    BY <1>0, <1>2, <2>1, RemovedFromLists, ListsGrow
  <2>3. FenceInv' /\ LocksInv' /\ lastUsed' \in [Heaps -> Nat]
    BY <1>0, <1>2, <2>1 DEF FenceInv, LocksInv, Shape
  <2> QED
    BY <1>0, <1>4, <1>5, <2>2, <2>3 DEF Shape
<1> QED
  BY <1>6, <1>7

(* A frame that changes neither what the operation is about nor the heaps  *)
(* it has unlinked.                                                        *)
LEMMA SameOperation ==
    ASSUME StructInv, UNCHANGED <<life, locks, lastUsed, cache, currentFence>>,
           resident' \in [Heaps -> Nat], op' \in FrameShape(op'),
           op'.kind = op.kind, op'.heap = op.heap, op'.list = op.list, op'.refs = op.refs,
           op'.victims \subseteq op.victims, op'.pc = "scan" => op.pc = "scan",
           op'.pc = "wait" => /\ op.pc = "wait" /\ op'.seg = op.seg
                              /\ op'.head = op.head /\ op'.fence = op.fence
    PROVE  StructInv'
<1>1. OpInv'
  BY DEF StructInv, OpInv, WaitInv, IsInList
<1> QED
  BY <1>1, FrameOnly

(* The operation returns.                                                  *)
LEMMA BackToIdle ==
    ASSUME StructInv, UNCHANGED <<life, locks, lastUsed, cache, currentFence>>,
           resident' \in [Heaps -> Nat], op' = Idle
    PROVE  StructInv'
<1>1. OpInv'
  BY IdleShape DEF OpInv, WaitInv
<1> QED
  BY <1>1, IdleShape, FrameOnly

(* ExecuteCommandLists goes on to MakeResident.                            *)
LEMMA ScanDonePreserves ==
    ASSUME StructInv, ScanDone
    PROVE  StructInv'
<1>1. op \in FrameShape(op) /\ resident \in [Heaps -> Nat]
  BY DEF StructInv, Shape
<1>2. op' \in {MakeResident(op, Local), MakeResident(op, NonLocal), [op EXCEPT !.pc = "made"]}
  BY DEF ScanDone
<1>3. /\ op' \in FrameShape(op') /\ op'.kind = op.kind /\ op'.heap = op.heap /\ op'.list = op.list
      /\ op'.refs = op.refs /\ op'.victims = op.victims /\ op'.pc \notin {"scan", "wait"}
  <2>1. CASE op' = [op EXCEPT !.pc = "made"]
    BY <1>1, <2>1 DEF FrameShape
  <2>2. ASSUME NEW s \in Segments, op' = MakeResident(op, s)
        PROVE  /\ op' \in FrameShape(op') /\ op'.kind = op.kind /\ op'.heap = op.heap
               /\ op'.list = op.list /\ op'.refs = op.refs /\ op'.victims = op.victims
               /\ op'.pc \notin {"scan", "wait"}
    BY <1>1, <2>2, ZenonT(60) DEF FrameShape, MakeResident
  <2> QED
    BY <1>2, <2>1, <2>2 DEF Segments
<1> QED
  BY <1>1, <1>3, SameOperation DEF ScanDone, heapVars, device

(* The submission moves the current fence value past every use.            *)
LEMMA SubmitPreserves ==
    ASSUME StructInv, Submit
    PROVE  StructInv'
<1> USE DEF StructInv
<1>0. /\ op' = Idle /\ UNCHANGED <<life, locks, lastUsed, cache, resident>>
      /\ currentFence' \in {currentFence, currentFence + 1}
  BY DEF Submit
<1>1. LRUWellFormed'
  BY <1>0 DEF LRUWellFormed, IsResidencyLocked
<1>2. OpInv'
  BY <1>0, IdleShape DEF OpInv, WaitInv
<1>3. FenceInv' /\ LocksInv'
  BY <1>0 DEF FenceInv, LocksInv, Shape
<1> QED
  BY <1>0, <1>1, <1>2, <1>3, IdleShape DEF Shape

(* The return of EvictInternal to EnsureInBudget or MakeResident.          *)
LEMMA ReturnPreserves ==
    ASSUME StructInv, NEW out, EvictReturns(out), resident' \in [Heaps -> Nat],
           UNCHANGED <<locks, lastUsed, cache, currentFence>>
    PROVE  StructInv'
<1> USE DEF StructInv
<1>0. op \in FrameShape(op)
  BY DEF Shape
<1>1. CASE op.kind = "ensure"
  <2> DEFINE h == op.heap
  <2>1. /\ op' = Idle /\ h \in Heaps /\ life[h] = "absent"
        /\ life' = [life EXCEPT ![h] = IF out >= op.bytes THEN "ensured" ELSE "absent"]
    BY <1>1 DEF EvictReturns, OpInv
  <2> HIDE DEF h
  <2>2. \A g \in Heaps : life[g] = "live" => life'[g] = "live"
    BY <2>1 DEF Shape
  <2>3. life' \in [Heaps -> {"absent", "ensured", "created", "live"}]
    BY <2>1 DEF Shape
  <2>4. \A t \in Segments : \A i \in DOMAIN cache[t] :
           life'[cache[t][i]] = "live" /\ ~(locks'[cache[t][i]] > 0)
    <3> SUFFICES ASSUME NEW t \in Segments, NEW i \in DOMAIN cache[t]
                 PROVE  life'[cache[t][i]] = "live" /\ ~(locks'[cache[t][i]] > 0)
      OBVIOUS
    <3>1. cache[t][i] \in Heaps /\ life[cache[t][i]] = "live" /\ ~(locks[cache[t][i]] > 0)
      BY DEF LRUWellFormed, IsResidencyLocked, Shape
    <3> QED
      BY <2>2, <3>1
  <2>5. LRUWellFormed'
    BY <2>4, ListFacts, ListsShrink
  <2>6. OpInv'
    BY <2>1, IdleShape DEF OpInv, WaitInv
  <2>7. FenceInv' /\ LocksInv'
    BY <2>2 DEF FenceInv, LocksInv
  <2> QED
    BY <2>1, <2>3, <2>5, <2>6, <2>7, IdleShape DEF Shape
<1>2. CASE op.kind # "ensure"
  <2>1. UNCHANGED life
    BY <1>2 DEF EvictReturns
  <2>2. CASE op' = Idle
    BY <2>1, <2>2, BackToIdle
  <2>3. ASSUME NEW late \in SUBSET Heaps,
               op' = [op EXCEPT !.pc = "device", !.need = 0, !.evicted = 0, !.victims = {},
                                !.late = late]
        PROVE  StructInv'
    <3>1. /\ op' \in FrameShape(op') /\ op'.kind = op.kind /\ op'.heap = op.heap /\ op'.list = op.list
          /\ op'.refs = op.refs /\ op'.victims = {} /\ op'.pc = "device"
      BY <1>0, <2>3, ZenonT(60) DEF FrameShape
    <3> QED
      BY <2>1, <3>1, SameOperation
  <2>4. (IF op.pc = "loop" THEN op.late ELSE {}) \in SUBSET Heaps
    BY <1>0 DEF FrameShape
  <2>5. op' = Idle \/ op' = [op EXCEPT !.pc = "device", !.need = 0, !.evicted = 0, !.victims = {},
                                       !.late = IF op.pc = "loop" THEN op.late ELSE {}]
    BY <1>0, <1>2 DEF EvictReturns, FrameShape
  <2> QED
    BY <2>2, <2>3, <2>4, <2>5
<1> QED
  BY <1>1, <1>2

(* EvictInternal reads the budget, and returns or starts its loop.         *)
LEMMA EvictBeginPreserves ==
    ASSUME StructInv, EvictBegin
    PROVE  StructInv'
<1>1. op \in FrameShape(op) /\ resident \in [Heaps -> Nat]
  BY DEF StructInv, Shape
<1>2. UNCHANGED <<locks, lastUsed, cache, currentFence, resident>>
  BY DEF EvictBegin, device
<1>3. \/ \E out : EvictReturns(out)
      \/ /\ UNCHANGED life
         /\ \E need : op' = [op EXCEPT !.pc = "loop", !.need = need, !.evicted = 0, !.victims = {},
                                          !.late = {}]
  BY DEF EvictBegin
<1>4. ASSUME NEW out, EvictReturns(out) PROVE StructInv'
  BY <1>1, <1>2, <1>4, ReturnPreserves
<1>5. ASSUME NEW need, UNCHANGED life,
             op' = [op EXCEPT !.pc = "loop", !.need = need, !.evicted = 0, !.victims = {},
                              !.late = {}]
      PROVE  StructInv'
  <2>1. /\ op' \in FrameShape(op') /\ op'.kind = op.kind /\ op'.heap = op.heap /\ op'.list = op.list
        /\ op'.refs = op.refs /\ op'.victims = {} /\ op'.pc = "loop"
    BY <1>1, <1>5, ZenonT(60) DEF FrameShape
  <2> QED
    BY <1>1, <1>2, <1>5, <2>1, SameOperation
<1> QED
  BY <1>3, <1>4, <1>5

(* EvictInternal picks the head of the list, which the current submission  *)
(* does not use.                                                           *)
LEMMA EvictPicksPreserves ==
    ASSUME StructInv, EvictPicks
    PROVE  StructInv'
<1> USE DEF StructInv
<1> DEFINE s == op.seg
           h == Head(cache[s])
<1>0. /\ op' = [op EXCEPT !.pc = "wait", !.head = h, !.fence = lastUsed[h]]
      /\ UNCHANGED <<life, locks, lastUsed, cache, currentFence, resident>>
      /\ cache[s] # <<>> /\ lastUsed[h] # currentFence
  BY DEF EvictPicks, EvictStops, heapVars, device
<1>1. op \in FrameShape(op) /\ s \in Segments
  BY DEF Shape, FrameShape
<1>2. h \in Heaps
  BY <1>0, <1>1, ListFacts, TailOfList
<1>3. /\ op' \in FrameShape(op') /\ op'.kind = op.kind /\ op'.heap = op.heap /\ op'.list = op.list
      /\ op'.refs = op.refs /\ op'.victims = op.victims /\ op'.pc = "wait" /\ op'.seg = s
      /\ op'.head = h /\ op'.fence = lastUsed[h]
  <2> HIDE DEF h
  <2> QED
    BY <1>0, <1>1, <1>2, ZenonT(60) DEF FrameShape
<1>4. OpInv'
  BY <1>0, <1>3 DEF OpInv, WaitInv, IsInList
<1> QED
  BY <1>0, <1>3, <1>4, FrameOnly DEF Shape

(* What EvictHead does as the candidate still is the head of the list.     *)
LEMMA EvictHeadStep ==
    ASSUME StructInv, EvictHead
    PROVE  LET h == Head(cache[op.seg])
           IN  /\ op.pc = "wait" /\ op.seg \in Segments /\ cache[op.seg] # <<>>
               /\ h \in Heaps /\ Occurs(h, cache[op.seg])
               /\ IsCompleted(lastUsed[h]) /\ lastUsed[h] # currentFence
               /\ cache' = [cache EXCEPT ![op.seg] = Tail(@)]
               /\ status' = [status EXCEPT ![h] = "PENDING"]
               /\ op' = [op EXCEPT !.pc = "loop", !.evicted = @ + HeapSize[h],
                                   !.victims = @ \cup {h}, !.head = NoHeap, !.fence = 0,
                                   !.next = NoHeap]
<1> DEFINE h == Head(cache[op.seg])
<1>1. /\ op.pc = "wait" /\ op.seg \in Segments /\ cache[op.seg] # <<>>
      /\ op.head = h /\ op.fence = lastUsed[h] /\ lastUsed[h] # currentFence
  BY DEF EvictHead, StructInv, OpInv, WaitInv, Shape, FrameShape
<1>2. h \in Heaps /\ Occurs(h, cache[op.seg])
  BY <1>1, ListFacts, TailOfList
<1>3. life[h] = "live"
  BY <1>1, <1>2 DEF Occurs, StructInv, LRUWellFormed
<1>4. Unlinked(cache[op.seg], h) = Tail(cache[op.seg])
  BY <1>1, ListFacts, UnlinkedHead
<1>5. cache' = [cache EXCEPT ![op.seg] = Unlinked(cache[op.seg], h)]
  <2>1. cache' \in {[cache EXCEPT ![op.seg] = Unlinked(cache[op.seg], op.head)]}
    BY <1>1, <1>3 DEF EvictHead, Unlinkings
  <2> QED
    BY <1>1, <2>1
<1>6. cache' = [cache EXCEPT ![op.seg] = Tail(@)]
  BY <1>4, <1>5
<1>7. /\ IsCompleted(op.fence) /\ status' = [status EXCEPT ![op.head] = "PENDING"]
      /\ op' = [op EXCEPT !.pc = "loop", !.evicted = @ + HeapSize[op.head],
                          !.victims = @ \cup {op.head}, !.head = NoHeap, !.fence = 0,
                          !.next = NoHeap]
  BY DEF EvictHead
<1> QED
  BY <1>1, <1>2, <1>6, <1>7

(* The frame of a call that has just unlinked heap h.                      *)
LEMMA UnlinkedFrame ==
    ASSUME op \in FrameShape(op), NEW h \in Heaps, NEW bytes,
           op' = [op EXCEPT !.pc = "loop", !.evicted = bytes, !.victims = @ \cup {h},
                            !.head = NoHeap, !.fence = 0, !.next = NoHeap]
    PROVE  /\ op' \in FrameShape(op') /\ op'.kind = op.kind /\ op'.heap = op.heap
           /\ op'.list = op.list /\ op'.refs = op.refs
           /\ op'.victims = op.victims \cup {h} /\ op'.pc = "loop"
<1> DEFINE all == op.victims \cup {h}
<1>1. op = [kind |-> op.kind, pc |-> op.pc, heap |-> op.heap, list |-> op.list, refs |-> op.refs,
           used |-> op.used, pageIn |-> op.pageIn, size |-> op.size, queue |-> op.queue,
           seg |-> op.seg, bytes |-> op.bytes, retry |-> op.retry, need |-> op.need,
           evicted |-> op.evicted, victims |-> op.victims, head |-> op.head,
           fence |-> op.fence, next |-> op.next, late |-> op.late]
  BY ZenonT(20) DEF FrameShape
<1>2. op' = [op EXCEPT !.pc = "loop", !.evicted = bytes, !.victims = all,
                    !.head = NoHeap, !.fence = 0, !.next = NoHeap]
  OBVIOUS
<1>3. all \in SUBSET Heaps
  BY DEF FrameShape
<1> HIDE DEF all
<1>4. op' = [kind |-> op.kind, pc |-> "loop", heap |-> op.heap, list |-> op.list, refs |-> op.refs,
           used |-> op.used, pageIn |-> op.pageIn, size |-> op.size, queue |-> op.queue,
           seg |-> op.seg, bytes |-> op.bytes, retry |-> op.retry, need |-> op.need,
           evicted |-> bytes, victims |-> all, head |-> NoHeap,
           fence |-> 0, next |-> NoHeap, late |-> op.late]
  BY <1>1, <1>2, ZenonT(20)
<1>5. op' \in FrameShape(op')
  BY <1>3, <1>4 DEF FrameShape
<1> QED
  BY <1>4, <1>5 DEF all

(* EvictInternal unlinks the head, which is not locked.                    *)
LEMMA EvictHeadPreserves ==
    ASSUME StructInv, EvictHead
    PROVE  StructInv'
<1> USE DEF StructInv
<1> DEFINE s == op.seg
           h == Head(cache[s])
<1>0. /\ cache' = [cache EXCEPT ![s] = Tail(@)]
      /\ op' = [op EXCEPT !.pc = "loop", !.evicted = @ + HeapSize[h], !.victims = @ \cup {h},
                          !.head = NoHeap, !.fence = 0, !.next = NoHeap]
      /\ UNCHANGED <<life, locks, lastUsed, currentFence, resident>>
      /\ cache[s] # <<>>
  BY EvictHeadStep DEF EvictHead, device
<1>1. op \in FrameShape(op) /\ s \in Segments
  BY DEF Shape, FrameShape
<1>2. \A t \in Segments : cache[t] \in Seq(Heaps) /\ Injective(cache[t])
  BY ListFacts
<1>3. /\ Tail(cache[s]) \in Seq(Heaps) /\ Injective(Tail(cache[s])) /\ Within(Tail(cache[s]), cache[s])
      /\ h \in Heaps /\ Occurs(h, cache[s])
  BY <1>0, <1>1, <1>2, TailOfList
<1> HIDE DEF h, s
<1>4. /\ cache' \in [Segments -> Seq(Heaps)]
      /\ \A t \in Segments : Injective(cache'[t]) /\ Within(cache'[t], cache[t])
  BY <1>0, <1>1, <1>2, <1>3 DEF Shape, Within
<1>5. \A t \in Segments : \A i \in DOMAIN cache[t] :
         life[cache[t][i]] = "live" /\ ~(locks[cache[t][i]] > 0)
  BY DEF LRUWellFormed, IsResidencyLocked
<1>6. \A t \in Segments : \A i \in DOMAIN cache'[t] :
         life'[cache'[t][i]] = "live" /\ ~(locks'[cache'[t][i]] > 0)
  BY <1>0, <1>4, <1>5 DEF Within
<1>7. LRUWellFormed'
  BY <1>4, <1>6, ListsShrink
<1>8. locks[h] = 0
  BY <1>1, <1>3, <1>5 DEF Occurs, Shape
<1>9. /\ op' \in FrameShape(op') /\ op'.kind = op.kind /\ op'.heap = op.heap /\ op'.list = op.list
      /\ op'.refs = op.refs /\ op'.victims = op.victims \cup {h} /\ op'.pc = "loop"
  <2>1. PICK bytes :
            op' = [op EXCEPT !.pc = "loop", !.evicted = bytes, !.victims = @ \cup {h},
                             !.head = NoHeap, !.fence = 0, !.next = NoHeap]
    BY <1>0, Zenon
  <2>2. op \in FrameShape(op) /\ h \in Heaps
    BY <1>1, <1>3
  <2> QED
    BY <2>1, <2>2, UnlinkedFrame, Zenon
<1>10. \A g \in Heaps : ~IsInList(g) => ~IsInList(g)'
  <2> SUFFICES ASSUME NEW g \in Heaps, NEW i \in DOMAIN cache'[HeapSegment[g]],
                      cache'[HeapSegment[g]][i] = g
               PROVE  IsInList(g)
    BY DEF IsInList
  <2>1. HeapSegment[g] \in Segments
    BY HeapFacts
  <2> QED
    BY <1>4, <2>1 DEF IsInList, Within
<1>11. OpInv'
  BY <1>0, <1>8, <1>9, <1>10 DEF OpInv, WaitInv
<1> QED
  BY <1>0, <1>4, <1>7, <1>9, <1>11 DEF Shape, FenceInv, LocksInv

(* ID3D12Device::Evict changes residency counts only.                      *)
LEMMA EvictEndPreserves ==
    ASSUME StructInv, EvictEnd
    PROVE  StructInv'
<1>1. resident' \in [Heaps -> Nat]
  BY DEF EvictEnd, StructInv, Shape
<1> QED
  BY <1>1, ReturnPreserves DEF EvictEnd

(* ID3D12Device::MakeResident, whether it succeeds or fails.               *)
LEMMA DevicePreserves ==
    ASSUME StructInv, PageIn \/ PageInFails
    PROVE  StructInv'
<1>1. op \in FrameShape(op) /\ resident \in [Heaps -> Nat]
  BY DEF StructInv, Shape
<1>2. resident' \in [Heaps -> Nat]
  BY <1>1 DEF PageIn, PageInFails, device
<1>3. op' \in {[op EXCEPT !.pc = "made", !.late = {}],
               [op EXCEPT !.pc = "evict", !.bytes = EvictSizeInBytes, !.retry = TRUE]}
  BY DEF PageIn, PageInFails
<1>4. /\ op' \in FrameShape(op') /\ op'.kind = op.kind /\ op'.heap = op.heap /\ op'.list = op.list
      /\ op'.refs = op.refs /\ op'.victims = op.victims /\ op'.pc \notin {"scan", "wait"}
  <2>1. CASE op' = [op EXCEPT !.pc = "made", !.late = {}]
    BY <1>1, <2>1, ZenonT(60) DEF FrameShape
  <2>2. CASE op' = [op EXCEPT !.pc = "evict", !.bytes = EvictSizeInBytes, !.retry = TRUE]
    BY <1>1, <2>2, ZenonT(60) DEF FrameShape
  <2> QED
    BY <1>3, <2>1, <2>2, Zenon
<1> QED
  BY <1>2, <1>4, SameOperation DEF PageIn, PageInFails, heapVars

(* Steps that change nothing the invariant speaks of.                      *)
LEMMA OthersPreserve ==
    ASSUME StructInv, UNCHANGED <<life, locks, lastUsed, cache, currentFence, op, resident>>
    PROVE  StructInv'
<1>1. op \in FrameShape(op) /\ resident \in [Heaps -> Nat]
  BY DEF StructInv, Shape
<1> QED
  BY <1>1, SameOperation

(* Every step preserves the structural invariant.                          *)
LEMMA StepStruct ==
    ASSUME CandidateLives, StructInv, [Next]_vars
    PROVE  StructInv'
<1>1. ASSUME NEW h \in Heaps,
             \/ EnsureInBudget(h) \/ CreatePageable(h) \/ InsertCreated(h) \/ DestroyHeap(h)
             \/ LockHeap(h) \/ UnlockHeap(h)
      PROVE  StructInv'
  BY <1>1, EnsurePreserves, PageablePreserves, InsertPreserves, DestroyPreserves, LockPreserves, UnlockPreserves
<1>2. ASSUME NEW list \in ResidencyLists, NEW queue \in BOOLEAN, ExecuteCommandLists(list, queue)
      PROVE  StructInv'
  BY <1>2, ExecutePreserves
<1>3. CASE ManagerStep
  BY <1>3, FinishLockPreserves, ScanPreserves, ScanDonePreserves, SubmitPreserves,
     EvictBeginPreserves, EvictPicksPreserves, EvictHeadPreserves, EvictEndPreserves, DevicePreserves DEF ManagerStep
<1>4. CASE PageInFails
  BY <1>4, DevicePreserves
<1>5. CASE OpFails
  <2>1. /\ op' = Idle /\ UNCHANGED <<life, locks, lastUsed, cache, currentFence, resident>>
        /\ resident \in [Heaps -> Nat]
    BY <1>5 DEF OpFails, StructInv, Shape
  <2> QED
    BY <2>1, BackToIdle
<1>6. ASSUME NEW s \in Segments,
             \/ \E bytes \in Reservations : SetVideoMemoryReservation(s, bytes)
             \/ QueryVideoMemoryInfo(s)
             \/ \E budget \in OsBudgets : OsChangesBudget(s, budget)
      PROVE  StructInv'
  BY <1>6, OthersPreserve
     DEF SetVideoMemoryReservation, QueryVideoMemoryInfo, OsChangesBudget, heapVars, device
<1>7. CASE BudgetWorkerUpdates \/ GpuCompletes
  BY <1>7, OthersPreserve DEF BudgetWorkerUpdates, GpuCompletes, heapVars, device
<1>8. CASE UNCHANGED vars
  BY <1>8, OthersPreserve DEF vars, heapVars, device
<1> QED
  BY <1>1, <1>2, <1>3, <1>4, <1>5, <1>6, <1>7, <1>8 DEF Next
-----------------------------------------------------------------------------
(* The structural invariant, for every instance and every behaviour of the *)
(* device, the OS and clients that do not destroy what EvictInternal waits *)
(* to evict.                                                               *)
THEOREM Structure == ASSUME CandidateLives PROVE Spec => []StructInv
<1>1. Init => StructInv
  BY InitStruct
<1>2. StructInv /\ [Next]_vars => StructInv'
  BY StepStruct
<1> QED
  BY <1>1, <1>2, PTL DEF Spec

(* The LRU lists hold live, unlocked heaps of their segment, none twice,   *)
(* however calls, failures, the creation of heaps and the ~Heap of any     *)
(* other heap come between EvictInternal's choice of a heap, its wait and  *)
(* the unlinking.                                                          *)
THEOREM ListsWellFormed == ASSUME CandidateLives PROVE Spec => []LRUWellFormed
<1>1. StructInv => LRUWellFormed
  BY DEF StructInv
<1> QED
  BY <1>1, Structure, PTL

(* EvictInternal waits only for fence values that were signaled to a       *)
(* queue: it cannot wait for the submission it is itself holding up.       *)
THEOREM WaitsAreSignaled == ASSUME CandidateLives PROVE Spec => []WaitIsSignaled
<1>1. StructInv => WaitIsSignaled
  <2> SUFFICES ASSUME StructInv, op.pc = "wait"
               PROVE  op.fence <= currentFence - 1
    BY DEF WaitIsSignaled, LastSignaledFence
  <2>1. /\ op.seg \in Segments /\ cache[op.seg] # <<>> /\ op.head = Head(cache[op.seg])
        /\ op.fence = lastUsed[op.head] /\ op.fence # currentFence
    BY DEF StructInv, OpInv, WaitInv, Shape, FrameShape
  <2>2. op.head \in Heaps
    BY <2>1, ListFacts, TailOfList
  <2>3. lastUsed[op.head] \in Nat /\ currentFence \in Nat /\ lastUsed[op.head] <= currentFence
    BY <2>2 DEF StructInv, Shape, FenceInv
  <2> QED
    BY <2>1, <2>3
<1> QED
  BY <1>1, Structure, PTL

(* No step lowers D3D12's residency count of a locked heap.                *)
THEOREM LocksHold == ASSUME CandidateLives PROVE Spec => LockedNeverEvicted
<1> DEFINE Kept == \A h \in Heaps : IsResidencyLocked(h) => resident'[h] >= resident[h]
<1>1. StructInv /\ [Next]_vars => [Kept]_vars
  <2> SUFFICES ASSUME StructInv, Next PROVE Kept
    OBVIOUS
  <2>0. resident \in [Heaps -> Nat] /\ locks \in [Heaps -> Nat]
    BY DEF StructInv, Shape
  <2>1. CASE UNCHANGED resident
    BY <2>0, <2>1
  <2>2. ASSUME NEW g \in Heaps, DestroyHeap(g) PROVE Kept
    BY <2>0, <2>2 DEF DestroyHeap
  <2>3. ASSUME NEW g \in Heaps, CreatePageable(g) PROVE Kept
    <3>1. locks[g] = 0
      BY <2>3, NotLiveUnused DEF CreatePageable
    <3>2. \A h \in Heaps : h # g => resident'[h] = resident[h]
      BY <2>0, <2>3 DEF CreatePageable
    <3> QED
      BY <2>0, <3>1, <3>2 DEF IsResidencyLocked
  <2>4. CASE EvictEnd
    <3>1. \A h \in op.victims : locks[h] = 0
      BY DEF StructInv, OpInv
    <3>2. \A h \in Heaps : h \notin op.victims => resident'[h] = resident[h]
      BY <2>0, <2>4 DEF EvictEnd
    <3> QED
      BY <2>0, <3>1, <3>2 DEF IsResidencyLocked
  <2>5. CASE PageIn
    BY <2>0, <2>5 DEF PageIn
  <2> QED
    BY <2>1, <2>2, <2>3, <2>4, <2>5
    DEF Next, ManagerStep, EnsureInBudget, InsertCreated, LockHeap, UnlockHeap,
        ExecuteCommandLists, FinishLock, ScanHeap, ScanDone, Submit, EvictBegin, EvictPicks,
        EvictHead, PageInFails, OpFails, SetVideoMemoryReservation, QueryVideoMemoryInfo,
        BudgetWorkerUpdates, OsChangesBudget, GpuCompletes, device
<1> QED
  BY <1>1, Structure, PTL DEF Spec, LockedNeverEvicted
-----------------------------------------------------------------------------
(* Types.                                                                  *)

(* The sizes of the heaps and of the integers of the code.                 *)
LEMMA SizeFacts ==
    /\ IsFiniteSet(Heaps) /\ \A h \in Heaps : HeapSize[h] \in Nat /\ HeapSize[h] > 0
    /\ Word \in Nat /\ Word > 0
  BY ResidencyAssumption

(* The rest of the frame of no operation.                                  *)
LEMMA IdleRest ==
    /\ Idle.used = {} /\ Idle.retry = FALSE /\ Idle.queue = FALSE
    /\ Idle.pageIn = [s \in Segments |-> {}] /\ Idle.size = [s \in Segments |-> 0]
  BY DEF Idle

(* Adding to one entry of a function on the segments.                      *)
LEMMA AddedToEntry ==
    ASSUME NEW s \in Segments
    PROVE  /\ \A f \in [Segments -> SUBSET Heaps], h \in Heaps :
                 /\ [f EXCEPT ![s] = @ \cup {h}] \in [Segments -> SUBSET Heaps]
                 /\ \A t \in Segments :
                       [f EXCEPT ![s] = @ \cup {h}][t] = IF t = s THEN f[t] \cup {h} ELSE f[t]
           /\ \A f \in [Segments -> Nat], n \in Nat :
                 /\ [f EXCEPT ![s] = @ + n] \in [Segments -> Nat]
                 /\ \A t \in Segments : [f EXCEPT ![s] = @ + n][t] = IF t = s THEN f[t] + n ELSE f[t]
  OBVIOUS

(* The video memory info is typed, and a UMA adapter has no budget for the *)
(* non-local segment.                                                      *)
InfoInv ==
    /\ info \in [Segments -> SegmentInfo] /\ osBudget \in [Segments -> Nat]
    /\ IsUMA => info[NonLocal].Budget = 0

(* A percentage of a number of bytes.                                      *)
LEMMA PercentOf ==
    ASSUME NEW a \in Nat, NEW p \in 0..100
    PROVE  (a * p) \div 100 \in 0..a
<1>1. PICK n \in Nat : n = a * p
  OBVIOUS
<1>2. n <= 100 * a
  BY <1>1
<1>3. n \div 100 \in 0..a
  BY <1>2
<1> QED
  BY <1>1, <1>3

(* The usage of a segment is a number of bytes.                            *)
LEMMA UsageType == ASSUME NEW s \in Segments PROVE OsUsage(s) \in Nat
<1> DEFINE S == {h \in Heaps : resident[h] > 0 /\ HeapSegment[h] = s}
<1>1. OsUsage(s) = SumOver(HeapSize, S)
  BY DEF OsUsage, UsageOf, SumOver
<1>2. S \subseteq Heaps
  OBVIOUS
<1> HIDE DEF S
<1> QED
  BY <1>1, <1>2, SizeFacts, SumWithin

(* UpdateMemorySegmentInternal.                                            *)
LEMMA RefreshedInfo ==
    ASSUME osBudget \in [Segments -> Nat], NEW s \in Segments, NEW i \in SegmentInfo, NEW usage \in Nat
    PROVE  /\ Refreshed(i, s, usage) \in SegmentInfo
           /\ IsUMA /\ s = NonLocal => Refreshed(i, s, usage) = i
           /\ ~(IsUMA /\ s = NonLocal) =>
                 Refreshed(i, s, usage).CurrentUsage
                     = (usage - Refreshed(i, s, usage).CurrentReservation) % Word
<1>1. CASE IsUMA /\ s = NonLocal
  BY <1>1 DEF Refreshed
<1>2. CASE ~(IsUMA /\ s = NonLocal)
  <2> DEFINE r == Min2((osBudget[s] * MinPct) \div 100, i.AvailableForReservation)
             b == IF MaxBudgetInBytes > 0 THEN i.Budget ELSE ((osBudget[s] - r) * MaxPct) \div 100
             u == (usage - r) % Word
  <2>1. Refreshed(i, s, usage) = [i EXCEPT !.CurrentReservation = r, !.CurrentUsage = u, !.Budget = b]
    BY <1>2 DEF Refreshed
  <2>2. osBudget[s] \in Nat /\ MinPct \in 0..100 /\ MaxPct \in 0..100
    BY ResidencyAssumption
  <2>3. r \in 0..osBudget[s]
    <3>1. (osBudget[s] * MinPct) \div 100 \in 0..osBudget[s]
      BY <2>2, PercentOf
    <3>2. i.AvailableForReservation \in Nat
      BY DEF SegmentInfo
    <3> QED
      BY <2>2, <3>1, <3>2 DEF Min2
  <2> HIDE DEF r
  <2>4. osBudget[s] - r \in Nat
    BY <2>2, <2>3
  <2>5. b \in Nat
    <3>1. ((osBudget[s] - r) * MaxPct) \div 100 \in Nat
      BY <2>2, <2>4, PercentOf
    <3> QED
      BY <3>1 DEF SegmentInfo
  <2>6. u \in 0..(Word - 1)
    BY <2>2, <2>3, SizeFacts
  <2> HIDE DEF b, u
  <2>7. r \in Nat
    BY <2>2, <2>3
  <2>8. [i EXCEPT !.CurrentReservation = r, !.CurrentUsage = u, !.Budget = b] \in SegmentInfo
    BY <2>5, <2>6, <2>7 DEF SegmentInfo
  <2>9. Refreshed(i, s, usage).CurrentReservation = r /\ Refreshed(i, s, usage).CurrentUsage = u
    BY <2>1 DEF SegmentInfo
  <2> QED
    BY <1>2, <2>1, <2>8, <2>9 DEF u
<1> QED
  BY <1>1, <1>2

(* The updates of the info of one segment, and of both.                    *)
LEMMA UpdatedInfo ==
    ASSUME InfoInv
    PROVE  /\ UpdateMemorySegments \in [Segments -> SegmentInfo]
           /\ IsUMA => UpdateMemorySegments[NonLocal].Budget = 0
           /\ \A s \in Segments :
                 /\ UpdateMemorySegment(s) \in [Segments -> SegmentInfo]
                 /\ IsUMA => UpdateMemorySegment(s)[NonLocal].Budget = 0
                 /\ UpdateMemorySegment(s)[s] = Refreshed(info[s], s, OsUsage(s))
<1>1. NonLocal \in Segments
  BY DEF Segments
<1>2. \A s \in Segments : info[s] \in SegmentInfo
  BY DEF InfoInv
<1>3. \A s \in Segments : /\ Refreshed(info[s], s, OsUsage(s)) \in SegmentInfo
                          /\ IsUMA /\ s = NonLocal => Refreshed(info[s], s, OsUsage(s)) = info[s]
  BY <1>2, UsageType, RefreshedInfo DEF InfoInv
<1>4. /\ UpdateMemorySegments \in [Segments -> SegmentInfo]
      /\ IsUMA => UpdateMemorySegments[NonLocal].Budget = 0
  BY <1>1, <1>3 DEF UpdateMemorySegments, InfoInv
<1>5. ASSUME NEW s \in Segments
      PROVE  /\ UpdateMemorySegment(s) \in [Segments -> SegmentInfo]
             /\ IsUMA => UpdateMemorySegment(s)[NonLocal].Budget = 0
             /\ UpdateMemorySegment(s)[s] = Refreshed(info[s], s, OsUsage(s))
  BY <1>1, <1>3 DEF UpdateMemorySegment, InfoInv
<1> QED
  BY <1>4, <1>5

(* The info after CreateResidencyManager.                                  *)
LEMMA InitInfo == Init => InfoInv
<1> SUFFICES ASSUME Init PROVE InfoInv
  OBVIOUS
<1> DEFINE zero == [Budget |-> 0, CurrentUsage |-> 0,
                    AvailableForReservation |-> 0, CurrentReservation |-> 0]
           none == [s \in Segments |-> zero]
           first(s) == Refreshed(zero, s, 0)
<1>1. osBudget \in [Segments -> Nat]
  BY ResidencyAssumption DEF Init
<1>2. zero \in SegmentInfo /\ zero.Budget = 0
  BY SizeFacts DEF SegmentInfo
<1>3. \A s \in Segments : first(s) \in SegmentInfo /\ (IsUMA /\ s = NonLocal => first(s).Budget = 0)
  <2> SUFFICES ASSUME NEW s \in Segments
               PROVE  first(s) \in SegmentInfo /\ (IsUMA /\ s = NonLocal => first(s) = zero)
    BY <1>2
  <2> HIDE DEF zero
  <2> QED
    BY <1>1, <1>2, RefreshedInfo
<1>4. info = [s \in Segments |-> IF MaxBudgetInBytes > 0 /\ ~(IsUMA /\ s = NonLocal)
                                THEN [first(s) EXCEPT !.Budget = first(s).CurrentUsage + MaxBudgetInBytes]
                                ELSE first(s)]
  BY DEF Init
<1> HIDE DEF first, zero
<1>5. \A s \in Segments : [first(s) EXCEPT !.Budget = first(s).CurrentUsage + MaxBudgetInBytes] \in SegmentInfo
  <2> SUFFICES ASSUME NEW s \in Segments
               PROVE  [first(s) EXCEPT !.Budget = first(s).CurrentUsage + MaxBudgetInBytes] \in SegmentInfo
    OBVIOUS
  <2>1. first(s).CurrentUsage + MaxBudgetInBytes \in Nat
    BY <1>3, SizeFacts, ResidencyAssumption DEF SegmentInfo
  <2> QED
    BY <1>3, <2>1 DEF SegmentInfo
<1>6. NonLocal \in Segments
  BY DEF Segments
<1> QED
  BY <1>1, <1>3, <1>4, <1>5, <1>6 DEF InfoInv

(* Every step of anyone keeps the info typed.                              *)
LEMMA StepInfo == StructInv /\ InfoInv /\ [Next]_vars => InfoInv'
<1> SUFFICES ASSUME StructInv, InfoInv, [Next]_vars PROVE InfoInv'
  OBVIOUS
<1>1. ASSUME UNCHANGED osBudget,
             \/ UNCHANGED info
             \/ info' = UpdateMemorySegments
             \/ \E s \in Segments : info' = UpdateMemorySegment(s)
      PROVE  InfoInv'
  BY <1>1, UpdatedInfo DEF InfoInv
<1>2. ASSUME NEW s \in Segments, NEW bytes \in Reservations, SetVideoMemoryReservation(s, bytes)
      PROVE  InfoInv'
  <2> DEFINE i == [info[s] EXCEPT !.AvailableForReservation = bytes]
  <2>1. bytes \in Nat /\ info[s] \in SegmentInfo
    BY ResidencyAssumption DEF InfoInv
  <2>2. i \in SegmentInfo /\ i.Budget = info[s].Budget
    BY <2>1 DEF SegmentInfo
  <2>3. UNCHANGED osBudget
        /\ info' = [info EXCEPT ![s] = IF NotificationsDisabled THEN Refreshed(i, s, OsUsage(s)) ELSE i]
    BY <1>2 DEF SetVideoMemoryReservation, device
  <2> HIDE DEF i
  <2>4. /\ Refreshed(i, s, OsUsage(s)) \in SegmentInfo
        /\ IsUMA /\ s = NonLocal => Refreshed(i, s, OsUsage(s)) = i
    BY <2>2, UsageType, RefreshedInfo DEF InfoInv
  <2>5. NonLocal \in Segments
    BY DEF Segments
  <2> QED
    BY <2>2, <2>3, <2>4, <2>5 DEF InfoInv
<1>3. ASSUME NEW s \in Segments, NEW budget \in OsBudgets, OsChangesBudget(s, budget)
      PROVE  InfoInv'
  <2>1. budget \in Nat
    BY ResidencyAssumption
  <2> QED
    BY <1>3, <2>1 DEF OsChangesBudget, InfoInv
<1>4. ASSUME NEW s \in Segments, QueryVideoMemoryInfo(s) PROVE InfoInv'
  BY <1>1, <1>4 DEF QueryVideoMemoryInfo, device
<1>5. CASE BudgetWorkerUpdates \/ Submit
  BY <1>1, <1>5 DEF BudgetWorkerUpdates, Submit, device
<1>6. CASE EvictBegin
  <2>1. op.seg \in Segments
    BY DEF StructInv, Shape, FrameShape
  <2> QED
    BY <1>1, <1>6, <2>1 DEF EvictBegin, device
<1> QED
  BY <1>1, <1>2, <1>3, <1>4, <1>5, <1>6
     DEF Next, ManagerStep, vars, device, EnsureInBudget, CreatePageable, InsertCreated,
         DestroyHeap, LockHeap, UnlockHeap, ExecuteCommandLists, FinishLock, ScanHeap, ScanDone,
         EvictPicks, EvictHead, EvictEnd, PageIn, PageInFails, OpFails, GpuCompletes

(* What the structural invariant leaves open of the frame.                 *)
FrameRest(o) ==
    /\ o.used \subseteq Heaps /\ o.pageIn \in [Segments -> SUBSET Heaps]
    /\ o.size \in [Segments -> Nat] /\ o.queue \in BOOLEAN /\ o.bytes \in Nat
    /\ o.retry \in BOOLEAN /\ o.need \in Nat /\ o.evicted \in Nat /\ o.fence \in Nat

RestInv ==
    /\ status \in [Heaps -> {"UNKNOWN", "PENDING", "RESIDENT"}]
    /\ stats \in [count : 0..(Word - 1), usage : 0..(Word - 1)]
    /\ completed \in Nat
    /\ gpuUse \in [Heaps -> Nat]
    /\ FrameRest(op)

(* The frame of no operation is typed.                                     *)
LEMMA IdleTyped == FrameRest(Idle)
  BY DEF FrameRest, Idle

(* MakeResident keeps a frame typed.                                       *)
LEMMA MakeResidentTyped ==
    ASSUME NEW o, o \in FrameShape(o), FrameRest(o), NEW s \in Segments
    PROVE  FrameRest(MakeResident(o, s))
<1>1. o.size[s] \in Nat
  BY DEF FrameRest
<1> DEFINE n == MakeResident(o, s)
<1>2. /\ n.used = o.used /\ n.pageIn = o.pageIn /\ n.size = o.size /\ n.queue = o.queue
      /\ n.bytes = o.size[s] /\ n.retry = FALSE /\ n.need = o.need /\ n.evicted = o.evicted
      /\ n.fence = o.fence
  BY DEF MakeResident, FrameShape
<1> HIDE DEF n
<1>3. FrameRest(n)
  BY <1>1, <1>2 DEF FrameRest
<1> QED
  BY <1>3 DEF n

(* The statistics wrap around in the integers of the code.                 *)
LEMMA AddStatsTyped ==
    ASSUME RestInv, NEW sign \in {1, -1}, NEW h \in Heaps
    PROVE  AddStats(sign, h) \in [count : 0..(Word - 1), usage : 0..(Word - 1)]
<1>1. PICK c \in Int, u \in Int, z \in Int :
         c = stats.count + sign /\ z = sign * HeapSize[h] /\ u = stats.usage + z
  <2>1. stats.count \in Int /\ stats.usage \in Int /\ HeapSize[h] \in Int
    BY SizeFacts DEF RestInv
  <2>2. sign * HeapSize[h] \in Int /\ sign \in Int
    BY <2>1
  <2> QED
    BY <2>1, <2>2
<1>2. c % Word \in 0..(Word - 1) /\ u % Word \in 0..(Word - 1)
  BY <1>1, SizeFacts
<1> QED
  BY <1>1, <1>2 DEF AddStats

(* Steps that change the frame only.                                       *)
LEMMA FrameTyped ==
    ASSUME RestInv, UNCHANGED <<status, stats, completed, gpuUse>>, FrameRest(op')
    PROVE  RestInv'
  BY DEF RestInv

(* EnsureInBudget takes mMutex.                                            *)
LEMMA EnsureTyped ==
    ASSUME RestInv, NEW h \in Heaps, EnsureInBudget(h) PROVE RestInv'
<1>1. /\ op' = [Idle EXCEPT !.kind = "ensure", !.pc = "evict", !.heap = h,
                            !.seg = HeapSegment[h], !.bytes = HeapSize[h]]
      /\ UNCHANGED <<status, stats, completed, gpuUse>> /\ HeapSize[h] \in Nat
  BY SizeFacts DEF EnsureInBudget, heapVars, device
<1>2. FrameRest(op')
  BY <1>1 DEF FrameRest, Idle
<1> QED
  BY <1>1, <1>2, FrameTyped

(* ExecuteCommandLists takes mMutex.                                       *)
LEMMA ExecuteTyped ==
    ASSUME RestInv, NEW list, NEW queue \in BOOLEAN, ExecuteCommandLists(list, queue) PROVE RestInv'
<1>1. /\ op' = [Idle EXCEPT !.kind = "exec", !.pc = "scan", !.list = list,
                            !.refs = Range(list), !.queue = queue]
      /\ UNCHANGED <<status, stats, completed, gpuUse>>
  BY DEF ExecuteCommandLists, heapVars, device
<1>2. FrameRest(op')
  BY <1>1 DEF FrameRest, Idle
<1> QED
  BY <1>1, <1>2, FrameTyped

(* LockHeap locks the heap or starts to page it in.                        *)
LEMMA LockTyped ==
    ASSUME RestInv, NEW h \in Heaps, LockHeap(h) PROVE RestInv'
<1>0. op = Idle /\ UNCHANGED <<status, completed, gpuUse>>
  BY DEF LockHeap, device
<1>1. CASE MustPageIn(h)
  <2> DEFINE s == HeapSegment[h]
             pages == [Idle.pageIn EXCEPT ![s] = {h}]
             sizes == [Idle.size EXCEPT ![s] = HeapSize[h]]
             o == [Idle EXCEPT !.kind = "lock", !.heap = h, !.pageIn = pages, !.size = sizes]
  <2>1. op' = MakeResident(o, s) /\ UNCHANGED stats
    BY <1>1, IdleShape DEF LockHeap, MakeResident, FrameShape
  <2>2. pages \in [Segments -> SUBSET Heaps] /\ sizes \in [Segments -> Nat] /\ s \in Segments
    BY IdleRest, HeapFacts, SizeFacts
  <2> HIDE DEF pages, sizes
  <2>3. o \in FrameShape(o) /\ FrameRest(o)
    BY <2>2, IdleShape, IdleTyped DEF FrameShape, FrameRest
  <2> HIDE DEF o, s
  <2>4. FrameRest(op')
    BY <2>1, <2>2, <2>3, MakeResidentTyped
  <2> QED
    BY <1>0, <2>1, <2>4, FrameTyped
<1>2. CASE ~MustPageIn(h)
  <2>1. UNCHANGED op /\ (stats' = stats \/ stats' = AddStats(1, h))
    BY <1>2 DEF LockHeap
  <2> QED
    BY <1>0, <2>1, AddStatsTyped DEF RestInv
<1> QED
  BY <1>1, <1>2

(* The loop over the residency list adds up sizes.                         *)
LEMMA ScanTyped ==
    ASSUME StructInv, RestInv, ScanHeap PROVE RestInv'
<1> DEFINE h == Head(op.list)
           rest == Tail(op.list)
           s == HeapSegment[h]
           next == [op EXCEPT !.list = rest]
           pages == [op.pageIn EXCEPT ![s] = @ \cup {h}]
           sizes == [op.size EXCEPT ![s] = @ + HeapSize[h]]
<1>0. /\ op.list # <<>> /\ op.list \in Seq(Heaps) /\ op \in FrameShape(op)
      /\ UNCHANGED <<status, stats, completed, gpuUse>>
  BY DEF ScanHeap, StructInv, Shape, FrameShape, device
<1>1. h \in Heaps /\ s \in Segments /\ HeapSize[h] \in Nat /\ rest \in Seq(Heaps)
  BY <1>0, HeapFacts, SizeFacts
<1>2. \/ op' = next
      \/ op' = [next EXCEPT !.used = @ \cup {h}]
      \/ op' = [next EXCEPT !.used = @ \cup {h}, !.pageIn[s] = @ \cup {h}, !.size[s] = @ + HeapSize[h]]
  BY DEF ScanHeap
<1> HIDE DEF h, s, rest
<1>3. next \in FrameShape(next) /\ FrameRest(next) /\ next.pageIn = op.pageIn /\ next.size = op.size
  BY <1>0, <1>1 DEF FrameShape, FrameRest, RestInv
<1> HIDE DEF next
<1>4. FrameRest(op')
  <2>1. CASE op' = next
    BY <1>3, <2>1
  <2>2. CASE op' = [next EXCEPT !.used = @ \cup {h}]
    BY <1>1, <1>3, <2>2 DEF FrameShape, FrameRest
  <2>3. CASE op' = [next EXCEPT !.used = @ \cup {h}, !.pageIn[s] = @ \cup {h}, !.size[s] = @ + HeapSize[h]]
    <3>1. op' = [next EXCEPT !.used = @ \cup {h}, !.pageIn = pages, !.size = sizes]
      BY <1>3, <2>3 DEF FrameShape
    <3>2. pages \in [Segments -> SUBSET Heaps] /\ sizes \in [Segments -> Nat]
      BY <1>1, AddedToEntry DEF RestInv, FrameRest
    <3> HIDE DEF pages, sizes
    <3> QED
      BY <1>1, <1>3, <3>1, <3>2 DEF FrameShape, FrameRest
  <2> QED
    BY <1>2, <2>1, <2>2, <2>3
<1> QED
  BY <1>0, <1>4, FrameTyped

(* EvictInternal returns.                                                  *)
LEMMA ReturnTyped ==
    ASSUME StructInv, RestInv, NEW out, EvictReturns(out), UNCHANGED <<status, stats, completed, gpuUse>>
    PROVE  RestInv'
<1>1. \/ op' = Idle
      \/ \E late : op' = [op EXCEPT !.pc = "device", !.need = 0, !.evicted = 0, !.victims = {},
                                    !.late = late]
  BY DEF EvictReturns
<1>2. FrameRest(op')
  <2>1. CASE op' = Idle
    BY <2>1, IdleTyped
  <2>2. ASSUME NEW late, op' = [op EXCEPT !.pc = "device", !.need = 0, !.evicted = 0,
                                          !.victims = {}, !.late = late]
        PROVE  FrameRest(op')
    BY <2>2 DEF StructInv, Shape, FrameShape, RestInv, FrameRest
  <2> QED
    BY <1>1, <2>1, <2>2
<1> QED
  BY <1>2, FrameTyped

(* EvictInternal evicts a positive amount or returns.                      *)
LEMMA EvictBeginTyped ==
    ASSUME StructInv, InfoInv', RestInv, EvictBegin PROVE RestInv'
<1> DEFINE budget == info'[op.seg].Budget
           usage == (op.bytes + info'[op.seg].CurrentUsage) % Word
<1>0. /\ UNCHANGED <<status, stats, completed, gpuUse>>
      /\ \/ \E out : EvictReturns(out)
         \/ /\ ~NothingToEvict(budget, usage)
            /\ op' = [op EXCEPT !.pc = "loop", !.need = usage - budget, !.evicted = 0, !.victims = {},
                                          !.late = {}]
  BY DEF EvictBegin, device
<1>1. op.seg \in Segments /\ op \in FrameShape(op)
  BY DEF StructInv, Shape, FrameShape
<1>2. budget \in Nat /\ info'[op.seg].CurrentUsage \in Nat /\ op.bytes \in Nat
  BY <1>1, SizeFacts DEF InfoInv, SegmentInfo, RestInv, FrameRest
<1>3. usage \in Nat
  BY <1>2, SizeFacts
<1> HIDE DEF budget, usage
<1>4. CASE \E out : EvictReturns(out)
  BY <1>0, <1>4, ReturnTyped
<1>5. CASE /\ ~NothingToEvict(budget, usage)
           /\ op' = [op EXCEPT !.pc = "loop", !.need = usage - budget, !.evicted = 0, !.victims = {},
                               !.late = {}]
  <2>1. usage - budget \in Nat
    BY <1>2, <1>3, <1>5 DEF NothingToEvict
  <2>2. FrameRest(op')
    BY <1>1, <1>5, <2>1 DEF FrameShape, RestInv, FrameRest
  <2> QED
    BY <1>0, <2>2, FrameTyped
<1> QED
  BY <1>0, <1>4, <1>5

(* A heap is picked to be evicted.                                         *)
LEMMA EvictPicksTyped ==
    ASSUME StructInv, RestInv, EvictPicks PROVE RestInv'
<1> DEFINE h == Head(cache[op.seg])
           fence == lastUsed[h]
<1>0. /\ UNCHANGED <<status, stats, completed, gpuUse>> /\ cache[op.seg] # <<>>
      /\ op' = [op EXCEPT !.pc = "wait", !.head = h, !.fence = fence]
  BY DEF EvictPicks, EvictStops, heapVars, device
<1>1. op.seg \in Segments /\ op \in FrameShape(op)
  BY DEF StructInv, Shape, FrameShape
<1>2. fence \in Nat
  BY <1>0, <1>1, ListFacts, TailOfList DEF StructInv, Shape
<1> HIDE DEF h, fence
<1>3. FrameRest(op')
  BY <1>0, <1>1, <1>2 DEF FrameShape, RestInv, FrameRest
<1> QED
  BY <1>0, <1>3, FrameTyped

(* One heap is evicted.                                                    *)
LEMMA EvictHeadTyped ==
    ASSUME StructInv, RestInv, EvictHead PROVE RestInv'
<1> DEFINE h == Head(cache[op.seg])
<1>0. /\ cache[op.seg] # <<>> /\ UNCHANGED <<stats, completed, gpuUse>>
      /\ status' = [status EXCEPT ![h] = "PENDING"]
      /\ op' = [op EXCEPT !.pc = "loop", !.evicted = @ + HeapSize[h], !.victims = @ \cup {h},
                          !.head = NoHeap, !.fence = 0, !.next = NoHeap]
  BY EvictHeadStep DEF EvictHead, device
<1>1. op.seg \in Segments /\ op \in FrameShape(op)
  BY DEF StructInv, Shape, FrameShape
<1>2. h \in Heaps
  BY <1>0, <1>1, ListFacts, TailOfList
<1>3. HeapSize[h] \in Nat
  BY <1>2, SizeFacts
<1> HIDE DEF h
<1>4. FrameRest(op')
  BY <1>0, <1>1, <1>3 DEF FrameShape, RestInv, FrameRest
<1> QED
  BY <1>0, <1>2, <1>4 DEF RestInv

(* The loop over the residency list ends.                                  *)
LEMMA ScanDoneTyped ==
    ASSUME StructInv, RestInv, ScanDone PROVE RestInv'
<1>1. UNCHANGED <<status, stats, completed, gpuUse>> /\ op \in FrameShape(op) /\ FrameRest(op)
  BY DEF ScanDone, heapVars, device, StructInv, Shape, RestInv
<1>2. (\E s \in Segments : op' = MakeResident(op, s)) \/ op' = [op EXCEPT !.pc = "made"]
  BY DEF ScanDone, Segments
<1>3. FrameRest(op')
  <2>1. CASE \E s \in Segments : op' = MakeResident(op, s)
    BY <1>1, <2>1, MakeResidentTyped
  <2>2. CASE op' = [op EXCEPT !.pc = "made"]
    BY <1>1, <2>2 DEF FrameShape, FrameRest
  <2> QED
    BY <1>2, <2>1, <2>2
<1> QED
  BY <1>1, <1>3, FrameTyped

(* Steps that end an operation.                                            *)
LEMMA EndTyped ==
    ASSUME StructInv, RestInv, FinishLock \/ Submit \/ OpFails PROVE RestInv'
<1>1. op' = Idle /\ completed' = completed
  BY DEF FinishLock, Submit, OpFails, device
<1>2. status' \in [Heaps -> {"UNKNOWN", "PENDING", "RESIDENT"}]
  BY DEF FinishLock, Submit, OpFails, RestInv
<1>3. gpuUse' \in [Heaps -> Nat]
  <2>1. currentFence \in Nat
    BY DEF StructInv, Shape
  <2> QED
    BY <2>1 DEF FinishLock, Submit, OpFails, RestInv, device
<1>4. stats' \in [count : 0..(Word - 1), usage : 0..(Word - 1)]
  <2>1. CASE FinishLock
    BY <2>1, AddStatsTyped DEF FinishLock, StructInv, OpInv
  <2>2. CASE Submit \/ OpFails
    BY <2>2 DEF Submit, OpFails, RestInv
  <2> QED
    BY <2>1, <2>2
<1> QED
  BY <1>1, <1>2, <1>3, <1>4, IdleTyped DEF RestInv

(* ID3D12Device::MakeResident returns.                                     *)
LEMMA DeviceTyped ==
    ASSUME StructInv, RestInv, PageIn \/ PageInFails PROVE RestInv'
<1>1. UNCHANGED <<status, stats, completed, gpuUse>> /\ op \in FrameShape(op) /\ EvictSizeInBytes \in Nat
  BY ResidencyAssumption DEF PageIn, PageInFails, heapVars, device, StructInv, Shape
<1>2. \/ op' = [op EXCEPT !.pc = "made", !.late = {}]
      \/ op' = [op EXCEPT !.pc = "evict", !.bytes = EvictSizeInBytes, !.retry = TRUE]
  BY DEF PageIn, PageInFails
<1>3. FrameRest(op')
  <2>1. CASE op' = [op EXCEPT !.pc = "made", !.late = {}]
    BY <1>1, <2>1 DEF FrameShape, RestInv, FrameRest
  <2>2. CASE op' = [op EXCEPT !.pc = "evict", !.bytes = EvictSizeInBytes, !.retry = TRUE]
    BY <1>1, <2>2 DEF FrameShape, RestInv, FrameRest
  <2> QED
    BY <1>2, <2>1, <2>2
<1> QED
  BY <1>1, <1>3, FrameTyped

(* Every step keeps the rest typed.                                        *)
LEMMA StepTyped == StructInv /\ InfoInv' /\ RestInv /\ [Next]_vars => RestInv'
<1> SUFFICES ASSUME StructInv, InfoInv', RestInv, [Next]_vars PROVE RestInv'
  OBVIOUS
<1>1. ASSUME UNCHANGED <<op, status, stats, completed, gpuUse>> PROVE RestInv'
  BY <1>1 DEF RestInv
<1>2. ASSUME NEW h \in Heaps, EnsureInBudget(h) \/ LockHeap(h) PROVE RestInv'
  BY <1>2, EnsureTyped, LockTyped
<1>3. ASSUME NEW h \in Heaps, CreatePageable(h) \/ InsertCreated(h) \/ DestroyHeap(h) PROVE RestInv'
  <2>1. StatusAtCreation(HeapKind[h]) \in {"UNKNOWN", "PENDING", "RESIDENT"}
    BY ResidencyAssumption DEF StatusAtCreation, AllKinds
  <2>2. status' \in [Heaps -> {"UNKNOWN", "PENDING", "RESIDENT"}]
        /\ UNCHANGED <<stats, completed, gpuUse>>
    BY <1>3, <2>1 DEF CreatePageable, InsertCreated, DestroyHeap, RestInv, heapVars, device
  <2>3. op \in FrameShape(op) /\ FrameRest(op)
    BY DEF StructInv, Shape, RestInv
  <2>4. CASE CreatePageable(h)
    <3>1. PICK late : op' = [op EXCEPT !.late = late]
      BY <2>4, CreatedFrame
    <3>2. FrameRest(op')
      BY <2>3, <3>1 DEF FrameShape, FrameRest
    <3> QED
      BY <2>2, <3>2 DEF RestInv
  <2>5. CASE InsertCreated(h)
    BY <2>2, <2>3, <2>5 DEF InsertCreated, RestInv
  <2>6. CASE DestroyHeap(h)
    <3>1. op' = op \/ \E n : op' = [op EXCEPT !.next = n]
      BY <2>6 DEF DestroyHeap
    <3>2. FrameRest(op')
      BY <2>3, <3>1 DEF FrameShape, FrameRest
    <3> QED
      BY <2>2, <3>2 DEF RestInv
  <2> QED
    BY <1>3, <2>4, <2>5, <2>6
<1>4. ASSUME NEW h \in Heaps, UnlockHeap(h) PROVE RestInv'
  BY <1>4, AddStatsTyped DEF UnlockHeap, RestInv, device
<1>5. ASSUME NEW list \in ResidencyLists, NEW queue \in BOOLEAN, ExecuteCommandLists(list, queue)
      PROVE  RestInv'
  BY <1>5, ExecuteTyped
<1>6. CASE ManagerStep
  <2>1. CASE EvictEnd
    BY <2>1, ReturnTyped DEF EvictEnd
  <2> QED
    BY <1>6, <2>1, EndTyped, ScanTyped, ScanDoneTyped, EvictBeginTyped, EvictPicksTyped,
       EvictHeadTyped, DeviceTyped
       DEF ManagerStep
<1>7. CASE PageInFails \/ OpFails
  BY <1>7, DeviceTyped, EndTyped
<1>8. ASSUME NEW s \in Segments,
             \/ \E bytes \in Reservations : SetVideoMemoryReservation(s, bytes)
             \/ QueryVideoMemoryInfo(s)
             \/ \E budget \in OsBudgets : OsChangesBudget(s, budget)
      PROVE  RestInv'
  BY <1>1, <1>8 DEF SetVideoMemoryReservation, QueryVideoMemoryInfo, OsChangesBudget, heapVars, device
<1>9. CASE BudgetWorkerUpdates \/ UNCHANGED vars
  BY <1>1, <1>9 DEF BudgetWorkerUpdates, vars, heapVars, device
<1>10. CASE GpuCompletes
  BY <1>10 DEF GpuCompletes, heapVars, RestInv
<1> QED
  BY <1>2, <1>3, <1>4, <1>5, <1>6, <1>7, <1>8, <1>9, <1>10 DEF Next

(* Every variable keeps its type: the amount EvictInternal sets out to     *)
(* evict never becomes negative, and the counters of the code stay in its  *)
(* integers.                                                               *)
THEOREM TypeCorrect == ASSUME CandidateLives PROVE Spec => []TypeOK
<1> DEFINE Inv == StructInv /\ InfoInv /\ RestInv
<1>1. Init => Inv
  <2> SUFFICES ASSUME Init PROVE Inv
    OBVIOUS
  <2>1. RestInv
    BY IdleTyped, SizeFacts DEF Init, RestInv
  <2> QED
    BY <2>1, InitStruct, InitInfo
<1>2. Inv /\ [Next]_vars => Inv'
  BY StepStruct, StepInfo, StepTyped
<1>3. Inv => TypeOK
  <2> SUFFICES ASSUME StructInv, InfoInv, RestInv PROVE TypeOK
    OBVIOUS
  <2>1. op \in FrameShape(op) /\ FrameRest(op)
    BY DEF StructInv, Shape, RestInv
  <2>2. op \in Frame
    BY <2>1 DEF FrameShape, FrameRest, Frame
  <2> QED
    BY <2>2 DEF TypeOK, StructInv, Shape, InfoInv, RestInv
<1> QED
  BY <1>1, <1>2, <1>3, PTL DEF Spec
-----------------------------------------------------------------------------
(***************************************************************************)
(* The manager's view of a heap and D3D12's residency count agree.  This   *)
(* needs every call of the device and the OS to succeed and every          *)
(* residency list to name heaps of one segment: without either,            *)
(* ExecuteCommandLists leaves heaps in the LRU lists that it did not page  *)
(* in.  From it follow, where the sizes fit in the integers of the code,   *)
(* the statistics and that paging in stays within the budget.              *)
(***************************************************************************)

(* Clients and device the count stays in sync with.  A heap created with   *)
(* CREATE_NOT_RESIDENT is listed although D3D12 does not count it.         *)
Orderly ==
    /\ Behaviours \cap {"mixedLists", "outOfMemory", "failures", "destroyCandidate"} = {}
    /\ \A h \in Heaps : HeapKind[h] # "notResident"

(* Orderly clients do not destroy what EvictInternal waits to evict.       *)
LEMMA OrderlyClients == Orderly => CandidateLives
  BY DEF Orderly, CandidateLives

-----------------------------------------------------------------------------
(* The inductive invariant.                                                *)

FrameSync ==
    /\ op.pageIn \in [Segments -> SUBSET Heaps]
    /\ op.size \in [Segments -> Nat]
    /\ op.used \subseteq op.refs
    /\ op.retry = FALSE
    /\ op.pc \notin {"loop", "wait"} => op.victims = {}
    /\ op.kind = "none" => op.pc = "idle"
    /\ op.kind = "ensure" => op.pc \in {"evict", "loop", "wait"}
    /\ op.kind = "lock" => op.pc \in {"evict", "loop", "wait", "device", "made"}
    /\ op.kind = "exec" => op.pc \in {"scan", "evict", "loop", "wait", "device", "made"}
    /\ op.kind # "exec" => op.refs = {}
    /\ op.kind = "exec" /\ op.pc # "scan" => op.list = <<>>
    /\ \A g, h \in op.refs : HeapSegment[g] = HeapSegment[h]

(* The heaps to page in are those of the operation, of one segment, and    *)
(* the operation has listed them, or not yet locked them.                  *)
PageInSync ==
    /\ \A s \in Segments : op.size[s] > 0 <=> op.pageIn[s] # {}
    /\ op.kind \in {"none", "ensure"} => \A s \in Segments : op.pageIn[s] = {}
    /\ op.kind = "lock" => \A h \in Heaps : h \in op.pageIn[HeapSegment[h]] <=> h = op.heap
    /\ op.kind = "exec" => \A s \in Segments : op.pageIn[s] \subseteq op.used
    /\ \A s \in Segments : \A h \in op.pageIn[s] : HeapSegment[h] = s
    /\ op.pc \in {"evict", "loop", "wait", "device"} =>
          \A s \in Segments : s # op.seg => op.pageIn[s] = {}

(* What ExecuteCommandLists has scanned is locked or used by the current   *)
(* submission, and what it has marked is listed.                           *)
ScanSync ==
    /\ \A h \in op.refs : locks[h] > 0 \/ lastUsed[h] = currentFence \/ Occurs(h, op.list)
    /\ \A h \in op.used : locks[h] = 0 /\ lastUsed[h] = currentFence

(* A heap with a use that the GPU may not have completed is not evicted.   *)
UseSync ==
    /\ completed \in Nat /\ completed < currentFence
    /\ \A h \in Heaps : lastUsed[h] > completed => Tracked(h)

StatusSync ==
    /\ status \in [Heaps -> {"UNKNOWN", "PENDING", "RESIDENT"}]
    /\ \A h \in Heaps :
          /\ locks[h] > 0 => status[h] = "RESIDENT"
          /\ IsInList(h) => status[h] = "RESIDENT" \/ h \in op.used

(* What D3D12 counts for a heap: one if the manager holds it, except while *)
(* it is still to be paged in.                                             *)
Missing(h) == op.pc # "made" /\ h \in op.pageIn[HeapSegment[h]]

Held(h) ==
    \/ Tracked(h) \/ h \in op.victims
    \/ op.kind = "lock" /\ op.pc = "made" /\ h = op.heap

Count(h) == IF Held(h) /\ ~Missing(h) THEN 1 ELSE 0

CountSync ==
    \A h \in Heaps : life[h] = "live" =>
        /\ resident[h] >= Count(h)
        /\ HeapKind[h] # "unknown" => resident[h] = Count(h)

(* D3D12 counts a heap it has created once before the manager inserts it;  *)
(* EvictInternal does not hold such a heap.                                *)
CreatedSync ==
    /\ \A h \in Heaps : life[h] = "created" =>
          HeapKind[h] = "resident" /\ status[h] = "RESIDENT" /\ resident[h] = 1
    /\ \A h \in op.victims : life[h] # "created"

(* The heaps EvictInternal has unlinked are not the ones to page in.       *)
VictimSync == \A h \in op.victims : ~IsInList(h) /\ ~Missing(h)

(* A submission in flight protects its heaps by a lock or by the fence     *)
(* value EvictInternal waits for.                                          *)
FlightSync ==
    /\ gpuUse \in [Heaps -> Nat]
    /\ \A h \in Heaps :
          /\ gpuUse[h] < currentFence
          /\ InFlight(h) =>
                /\ life[h] = "live" /\ ~Missing(h)
                /\ locks[h] > 0 \/ lastUsed[h] >= gpuUse[h]

(* Heaps used by the current submission are at the end of their list.      *)
OrderSync ==
    /\ op.kind # "exec" => \A h \in Heaps : lastUsed[h] # currentFence
    /\ op.kind = "exec" => op.queue
    /\ \A s \in Segments : \A i, j \in DOMAIN cache[s] :
          i < j /\ lastUsed[cache[s][i]] = currentFence => lastUsed[cache[s][j]] = currentFence

SyncInv ==
    /\ FrameSync /\ PageInSync /\ ScanSync /\ UseSync /\ StatusSync /\ CountSync /\ VictimSync
    /\ "unlockInFlight" \notin Behaviours => FlightSync
    /\ "noQueue" \notin Behaviours => OrderSync
-----------------------------------------------------------------------------
(* What the list operations do to membership and order.                    *)

(* The entries of C are at the end of the list.                            *)
AtEnd(list, C) == \A i, j \in DOMAIN list : i < j /\ list[i] \in C => list[j] \in C

(* RemoveFromList keeps every other entry, in the same order.              *)
LEMMA UnlinkedKeeps ==
    ASSUME NEW S, NEW list \in Seq(S), NEW h, Injective(list)
    PROVE  /\ \A g : g # h /\ Occurs(g, list) => Occurs(g, Unlinked(list, h))
           /\ \A C : AtEnd(list, C) => AtEnd(Unlinked(list, h), C)
<1> DEFINE n == Len(list)
           new == Unlinked(list, h)
<1>1. n \in Nat /\ DOMAIN list = 1..n
  OBVIOUS
<1>2. CASE ~Occurs(h, list)
  <2>1. new = list
    BY <1>2 DEF Unlinked, Occurs
  <2> QED
    BY <2>1
<1>3. CASE Occurs(h, list)
  <2> DEFINE i == CHOOSE i \in DOMAIN list : list[i] = h
             Shift(k) == IF k < i THEN k ELSE k + 1
  <2>1. i \in 1..n /\ list[i] = h
    BY <1>1, <1>3 DEF Occurs
  <2>2. new = [k \in 1..(n - 1) |-> IF k < i THEN list[k] ELSE list[k + 1]]
    BY <1>3 DEF Unlinked, Occurs
  <2> HIDE DEF new, i
  <2>3. \A k \in 1..(n - 1) : Shift(k) \in 1..n /\ new[k] = list[Shift(k)]
    BY <1>1, <2>1, <2>2
  <2>4. DOMAIN new = 1..(n - 1)
    BY <2>2
  <2>5. \A k, l \in 1..(n - 1) : k < l => Shift(k) < Shift(l)
    BY <1>1, <2>1
  <2>6. \A j \in 1..n : j # i => \E k \in 1..(n - 1) : Shift(k) = j
    <3> SUFFICES ASSUME NEW j \in 1..n, j # i
                 PROVE  \E k \in 1..(n - 1) : Shift(k) = j
      OBVIOUS
    <3>1. CASE j < i
      <4>1. j \in 1..(n - 1) /\ Shift(j) = j
        BY <1>1, <2>1, <3>1
      <4> QED
        BY <4>1
    <3>2. CASE ~(j < i)
      <4>1. j - 1 \in 1..(n - 1) /\ Shift(j - 1) = j
        BY <1>1, <2>1, <3>2
      <4> QED
        BY <4>1
    <3> QED
      BY <3>1, <3>2
  <2> HIDE DEF Shift
  <2>7. \A g : g # h /\ Occurs(g, list) => Occurs(g, new)
    <3> SUFFICES ASSUME NEW g, g # h, NEW j \in 1..n, list[j] = g
                 PROVE  Occurs(g, new)
      BY <1>1 DEF Occurs
    <3>1. PICK k \in 1..(n - 1) : Shift(k) = j
      BY <2>1, <2>6
    <3> QED
      BY <2>3, <2>4, <3>1 DEF Occurs
  <2>8. \A C : AtEnd(list, C) => AtEnd(new, C)
    BY <1>1, <2>3, <2>4, <2>5 DEF AtEnd
  <2> QED
    BY <2>7, <2>8 DEF new
<1> QED
  BY <1>2, <1>3

(* Append adds one entry, at the end.                                      *)
LEMMA AppendedKeeps ==
    ASSUME NEW S, NEW list \in Seq(S), NEW h \in S, ~Occurs(h, list)
    PROVE  /\ \A g : Occurs(g, Append(list, h)) <=> g = h \/ Occurs(g, list)
           /\ \A C : AtEnd(list, C) => AtEnd(Append(list, h), C \cup {h})
<1> DEFINE n == Len(list)
           new == Append(list, h)
<1>1. n \in Nat /\ DOMAIN list = 1..n
  OBVIOUS
<1>2. Len(new) = n + 1 /\ DOMAIN new = 1..(n + 1)
  OBVIOUS
<1>3. new[n + 1] = h /\ \A i \in 1..n : new[i] = list[i]
  BY <1>1
<1>4. n + 1 \in 1..(n + 1) /\ \A i \in 1..(n + 1) : i = n + 1 \/ i \in 1..n
  BY <1>1
<1>5. \A i \in 1..n : i \in 1..(n + 1)
  BY <1>1
<1> HIDE DEF new
<1>6. \A g : Occurs(g, new) <=> g = h \/ Occurs(g, list)
  BY <1>1, <1>2, <1>3, <1>4, <1>5 DEF Occurs
<1>7. \A C : AtEnd(list, C) => AtEnd(new, C \cup {h})
  <2> SUFFICES ASSUME NEW C, AtEnd(list, C), NEW i \in 1..(n + 1), NEW j \in 1..(n + 1),
                      i < j, new[i] \in C \cup {h}
               PROVE  new[j] \in C \cup {h}
    BY <1>2 DEF AtEnd
  <2>1. CASE j = n + 1
    BY <1>3, <2>1
  <2>2. CASE j # n + 1
    <3>1. i \in 1..n /\ j \in 1..n
      BY <1>1, <2>2
    <3>2. list[i] \in C
      BY <1>1, <1>3, <3>1 DEF Occurs
    <3> QED
      BY <1>1, <1>3, <3>1, <3>2 DEF AtEnd
  <2> QED
    BY <2>1, <2>2
<1> QED
  BY <1>6, <1>7 DEF new

(* Taking the head off removes that entry and no other.                    *)
LEMMA TailKeeps ==
    ASSUME NEW S, NEW list \in Seq(S), list # <<>>, Injective(list)
    PROVE  /\ \A g : Occurs(g, Tail(list)) <=> g # Head(list) /\ Occurs(g, list)
           /\ \A C : AtEnd(list, C) => AtEnd(Tail(list), C)
<1> DEFINE n == Len(list)
           new == Tail(list)
<1>1. n \in Nat \ {0} /\ DOMAIN list = 1..n /\ Head(list) = list[1]
  OBVIOUS
<1>2. /\ new \in Seq(S) /\ Len(new) = n - 1
      /\ \A i \in 1..(n - 1) : new[i] = list[i + 1]
  BY <1>1
<1>3. DOMAIN new = 1..(n - 1)
  BY <1>2
<1>4. \A i \in 1..(n - 1) : i + 1 \in 1..n /\ i + 1 # 1
  BY <1>1
<1>5. \A j \in 1..n : j = 1 \/ (j - 1 \in 1..(n - 1) /\ j = (j - 1) + 1)
  BY <1>1
<1>6. 1 \in 1..n
  BY <1>1
<1> HIDE DEF new
<1>7. ASSUME NEW g PROVE Occurs(g, new) <=> g # Head(list) /\ Occurs(g, list)
  <2>1. ASSUME NEW i \in 1..(n - 1), new[i] = g PROVE g # Head(list) /\ Occurs(g, list)
    BY <1>1, <1>2, <1>4, <1>6, <2>1 DEF Occurs, Injective
  <2>2. ASSUME NEW j \in 1..n, list[j] = g, g # Head(list) PROVE Occurs(g, new)
    <3>1. j # 1
      BY <1>1, <2>2
    <3>2. j - 1 \in 1..(n - 1) /\ new[j - 1] = g
      BY <1>2, <1>5, <2>2, <3>1
    <3> QED
      BY <1>3, <3>2 DEF Occurs
  <2> QED
    BY <1>1, <1>3, <2>1, <2>2 DEF Occurs
<1>8. \A C : AtEnd(list, C) => AtEnd(new, C)
  <2> SUFFICES ASSUME NEW C, AtEnd(list, C), NEW i \in 1..(n - 1), NEW j \in 1..(n - 1),
                      i < j, new[i] \in C
               PROVE  new[j] \in C
    BY <1>3 DEF AtEnd
  <2>1. i + 1 < j + 1 /\ list[i + 1] \in C /\ new[j] = list[j + 1]
    BY <1>1, <1>2
  <2> QED
    BY <1>1, <1>4, <2>1 DEF AtEnd
<1> QED
  BY <1>7, <1>8 DEF new

(* RemoveFromList(h), over the lists of all segments.                      *)
LEMMA RemovedMembers ==
    ASSUME StructInv, NEW h \in Heaps
    PROVE  /\ \A g \in Heaps : Occurs(g, RemoveFromList(h)[HeapSegment[g]]) <=> IsInList(g) /\ g # h
           /\ \A C : \A t \in Segments : AtEnd(cache[t], C) => AtEnd(RemoveFromList(h)[t], C)
<1> DEFINE s == HeapSegment[h]
           new == RemoveFromList(h)
<1>1. \A t \in Segments : cache[t] \in Seq(Heaps) /\ Injective(cache[t])
  BY ListFacts
<1>2. \A t \in Segments : new[t] = IF t = s THEN Unlinked(cache[t], h) ELSE cache[t]
  BY HeapFacts DEF RemoveFromList, StructInv, Shape
<1>3. \A t \in Segments : ~Occurs(h, new[t]) /\ Within(new[t], cache[t])
  BY RemovedFromLists
<1> HIDE DEF new, s
<1>4. ASSUME NEW g \in Heaps, NEW t \in Segments
      PROVE  Occurs(g, new[t]) <=> Occurs(g, cache[t]) /\ g # h
  <2>1. Occurs(g, new[t]) => Occurs(g, cache[t]) /\ g # h
    BY <1>3 DEF Occurs, Within
  <2>2. ASSUME Occurs(g, cache[t]), g # h PROVE Occurs(g, new[t])
    <3>1. CASE t = s
      BY <1>1, <1>2, <2>2, <3>1, UnlinkedKeeps
    <3>2. CASE t # s
      BY <1>2, <2>2, <3>2
    <3> QED
      BY <3>1, <3>2
  <2> QED
    BY <2>1, <2>2
<1>5. ASSUME NEW C, NEW t \in Segments, AtEnd(cache[t], C) PROVE AtEnd(new[t], C)
  BY <1>1, <1>2, <1>5, UnlinkedKeeps
<1> QED
  BY <1>4, <1>5, HeapFacts DEF new, IsInList, Occurs

(* InsertHeap(lists, h), over the lists of all segments.                   *)
LEMMA InsertedMembers ==
    ASSUME NEW lists \in [Segments -> Seq(Heaps)], NEW h \in Heaps,
           \A t \in Segments : ~Occurs(h, lists[t])
    PROVE  /\ \A g \in Heaps : Occurs(g, InsertHeap(lists, h)[HeapSegment[g]])
                                 <=> g = h \/ Occurs(g, lists[HeapSegment[g]])
           /\ \A C : \A t \in Segments :
                 AtEnd(lists[t], C) => AtEnd(InsertHeap(lists, h)[t], C \cup {h})
<1> DEFINE s == HeapSegment[h]
           new == InsertHeap(lists, h)
<1>1. s \in Segments
  BY HeapFacts
<1>2. \A t \in Segments : new[t] = IF t = s THEN Append(lists[t], h) ELSE lists[t]
  BY <1>1 DEF InsertHeap
<1>3. \A t \in Segments : lists[t] \in Seq(Heaps)
  OBVIOUS
<1> HIDE DEF new, s
<1>4. ASSUME NEW g \in Heaps
      PROVE  Occurs(g, new[HeapSegment[g]]) <=> g = h \/ Occurs(g, lists[HeapSegment[g]])
  <2>1. HeapSegment[g] \in Segments
    BY HeapFacts
  <2>2. CASE HeapSegment[g] = s
    <3>1. new[s] = Append(lists[s], h)
      BY <1>1, <1>2
    <3> QED
      BY <1>1, <1>3, <2>2, <3>1, AppendedKeeps
  <2>3. CASE HeapSegment[g] # s
    BY <1>2, <2>1, <2>3 DEF s
  <2> QED
    BY <2>2, <2>3
<1>5. ASSUME NEW C, NEW t \in Segments, AtEnd(lists[t], C) PROVE AtEnd(new[t], C \cup {h})
  <2>1. CASE t = s
    <3>1. new[s] = Append(lists[s], h)
      BY <1>1, <1>2
    <3> QED
      BY <1>3, <1>5, <2>1, <3>1, AppendedKeeps
  <2>2. CASE t # s
    <3>1. new[t] = lists[t]
      BY <1>2, <2>2
    <3>2. \A i \in DOMAIN lists[t] : lists[t][i] # h
      BY DEF Occurs
    <3> QED
      BY <1>5, <3>1, <3>2 DEF AtEnd
  <2> QED
    BY <2>1, <2>2
<1> QED
  BY <1>4, <1>5 DEF new

(* A heap is listed if it occurs in the list of its segment.               *)
LEMMA ListedOccurs == \A h : IsInList(h) <=> Occurs(h, cache[HeapSegment[h]])
  BY DEF IsInList, Occurs

(* Steps that touch neither the lists nor the locks.                       *)
LEMMA SameTracked ==
    ASSUME UNCHANGED <<cache, locks>>
    PROVE  \A h : (IsInList(h)' <=> IsInList(h)) /\ (Tracked(h)' <=> Tracked(h))
  BY DEF IsInList, Tracked, IsResidencyLocked

-----------------------------------------------------------------------------
(* Steps that begin or end with mMutex free.                               *)

(* The frame of no operation satisfies the invariants of the frame.        *)
LEMMA IdleSync ==
    ASSUME op' = Idle
    PROVE  /\ FrameSync' /\ PageInSync' /\ ScanSync' /\ VictimSync'
           /\ \A h \in Heaps : ~Missing(h)' /\ (Held(h)' <=> Tracked(h)')
<1>1. /\ op'.kind = "none" /\ op'.pc = "idle" /\ op'.list = <<>> /\ op'.refs = {} /\ op'.used = {}
      /\ op'.victims = {} /\ op'.retry = FALSE /\ op'.pageIn = [s \in Segments |-> {}]
      /\ op'.size = [s \in Segments |-> 0]
  BY IdleShape, IdleRest
<1>2. FrameSync'
  BY <1>1 DEF FrameSync
<1>3. PageInSync'
  BY <1>1 DEF PageInSync
<1>4. ScanSync' /\ VictimSync'
  BY <1>1 DEF ScanSync, VictimSync
<1>5. \A h \in Heaps : ~Missing(h)' /\ (Held(h)' <=> Tracked(h)')
  BY <1>1, HeapFacts DEF Missing, Held
<1> QED
  BY <1>2, <1>3, <1>4, <1>5

(* What the invariant says of one heap while mMutex is free.               *)
LEMMA IdleFacts ==
    ASSUME SyncInv, op = Idle
    PROVE  \A h \in Heaps :
              /\ IsInList(h) \/ locks[h] > 0 => status[h] = "RESIDENT"
              /\ life[h] = "live" =>
                    /\ Tracked(h) => resident[h] >= 1
                    /\ HeapKind[h] # "unknown" => resident[h] = IF Tracked(h) THEN 1 ELSE 0
<1>1. /\ op.kind = "none" /\ op.pc = "idle" /\ op.used = {} /\ op.victims = {}
      /\ op.pageIn = [s \in Segments |-> {}]
  BY IdleShape, IdleRest
<1>2. \A h \in Heaps : ~Missing(h) /\ (Held(h) <=> Tracked(h))
  BY <1>1, HeapFacts DEF Missing, Held
<1> QED
  BY <1>1, <1>2 DEF SyncInv, StatusSync, CountSync, Count

(* The counts after a step that leaves mMutex free.                        *)
LEMMA IdleCount ==
    ASSUME op' = Idle, resident' \in [Heaps -> Nat],
           \A h \in Heaps : life'[h] = "live" =>
              /\ Tracked(h)' => resident'[h] >= 1
              /\ HeapKind[h] # "unknown" => resident'[h] = IF Tracked(h)' THEN 1 ELSE 0
    PROVE  CountSync'
  BY IdleSync DEF CountSync, Count

(* EnsureInBudget takes mMutex for an eviction.                            *)
LEMMA EnsureSyncs ==
    ASSUME StructInv, SyncInv, NEW h \in Heaps, EnsureInBudget(h)
    PROVE  SyncInv'
<1> USE DEF SyncInv
<1>0. /\ op = Idle
      /\ UNCHANGED <<life, status, locks, lastUsed, cache, currentFence, completed, resident, gpuUse>>
  BY DEF EnsureInBudget, heapVars, device
<1>1. /\ op'.kind = "ensure" /\ op'.pc = "evict" /\ op'.list = <<>> /\ op'.refs = {}
      /\ op'.used = {} /\ op'.victims = {} /\ op'.retry = FALSE
      /\ op'.pageIn = [s \in Segments |-> {}] /\ op'.size = [s \in Segments |-> 0]
  BY IdleShape, IdleRest DEF EnsureInBudget, FrameShape
<1>2. \A g \in Heaps : ~Missing(g)' /\ (Held(g)' <=> Tracked(g)')
  BY <1>1, HeapFacts DEF Missing, Held
<1>3. FrameSync' /\ PageInSync' /\ ScanSync' /\ VictimSync'
  BY <1>1 DEF FrameSync, PageInSync, ScanSync, VictimSync
<1>4. UseSync' /\ StatusSync'
  BY <1>0, <1>1, SameTracked, IdleRest DEF UseSync, StatusSync
<1>5. CountSync'
  BY <1>0, <1>2, SameTracked, IdleFacts DEF CountSync, Count, StructInv, Shape
<1>6. "unlockInFlight" \notin Behaviours => FlightSync'
  BY <1>0, <1>2 DEF FlightSync, InFlight
<1>7. "noQueue" \notin Behaviours => OrderSync'
  BY <1>0, <1>1, IdleShape DEF OrderSync
<1> QED
  BY <1>3, <1>4, <1>5, <1>6, <1>7

(* What is not live is neither tracked nor of any use to the operation.    *)
LEMMA NotLiveApart ==
    ASSUME StructInv, SyncInv, NEW h \in Heaps, life[h] # "live"
    PROVE  /\ locks[h] = 0 /\ ~IsInList(h) /\ ~Tracked(h) /\ h \notin op.refs /\ h \notin op.used
           /\ \A s \in Segments : h \notin op.pageIn[s]
           /\ ~Missing(h)
           /\ ~InFlight(h) \/ "unlockInFlight" \in Behaviours
<1>1. locks[h] = 0 /\ ~IsInList(h) /\ ~Tracked(h)
  BY NotLiveUnused, HeapFacts DEF IsInList, Occurs, Tracked, IsResidencyLocked
<1>2. h \notin op.refs /\ h \notin op.used
  BY DEF SyncInv, FrameSync, StructInv, OpInv
<1>3. ASSUME NEW s \in Segments, h \in op.pageIn[s] PROVE FALSE
  <2>1. op.kind \in {"none", "ensure", "lock", "exec"}
    BY DEF StructInv, Shape, FrameShape
  <2>2. HeapSegment[h] = s
    BY <1>3 DEF SyncInv, PageInSync
  <2>3. op.kind = "lock" => h = op.heap
    BY <1>3, <2>2 DEF SyncInv, PageInSync
  <2>4. op.kind = "exec" => h \in op.used
    BY <1>3 DEF SyncInv, PageInSync
  <2>5. op.kind \in {"lock", "exec"}
    BY <1>3, <2>1 DEF SyncInv, PageInSync
  <2> QED
    BY <1>2, <2>3, <2>4, <2>5 DEF StructInv, OpInv
<1> QED
  BY <1>1, <1>2, <1>3, HeapFacts DEF SyncInv, FlightSync, Missing

(* D3D12's count of a heap it has just created, and its status, agree with *)
(* what InsertHeap will make of them.                                      *)
LEMMA PageableSyncs ==
    ASSUME Orderly, StructInv, StructInv', SyncInv, NEW h \in Heaps, CreatePageable(h)
    PROVE  SyncInv'
<1> USE DEF SyncInv
<1>0. /\ life[h] # "live" /\ HeapKind[h] \in {"resident", "unknown"}
      /\ h \notin op.victims /\ h # op.heap
      /\ UNCHANGED <<locks, cache, currentFence, completed, gpuUse>>
  BY ResidencyAssumption DEF CreatePageable, Orderly, AllKinds
<1>1. /\ locks[h] = 0 /\ ~IsInList(h) /\ ~Tracked(h) /\ h \notin op.refs /\ h \notin op.used
      /\ ~Missing(h)
  BY <1>0, NotLiveApart, HeapFacts DEF Missing
<1>2. /\ life' = [life EXCEPT ![h] = IF HeapKind[h] = "unknown" THEN "live" ELSE "created"]
      /\ status' = [status EXCEPT ![h] = StatusAtCreation(HeapKind[h])]
      /\ lastUsed' = [lastUsed EXCEPT ![h] = 0]
      /\ \E count \in CountAtCreation(HeapKind[h]) : resident' = [resident EXCEPT ![h] = count]
  BY <1>0 DEF CreatePageable
<1>3. /\ HeapKind[h] = "resident" =>
            status'[h] = "RESIDENT" /\ resident'[h] = 1 /\ life'[h] = "created"
      /\ HeapKind[h] = "unknown" => status'[h] = "UNKNOWN" /\ life'[h] = "live"
      /\ \A g \in Heaps : g # h => /\ status'[g] = status[g] /\ resident'[g] = resident[g]
                                   /\ life'[g] = life[g] /\ lastUsed'[g] = lastUsed[g]
      /\ lastUsed'[h] = 0 /\ status' \in [Heaps -> {"UNKNOWN", "PENDING", "RESIDENT"}]
  BY <1>0, <1>2 DEF StatusAtCreation, CountAtCreation, StructInv, Shape, StatusSync
<1>4. /\ op'.kind = op.kind /\ op'.pc = op.pc /\ op'.heap = op.heap /\ op'.list = op.list
      /\ op'.refs = op.refs /\ op'.used = op.used /\ op'.pageIn = op.pageIn
      /\ op'.size = op.size /\ op'.queue = op.queue /\ op'.seg = op.seg
      /\ op'.retry = op.retry /\ op'.victims = op.victims
  <2>1. PICK late \in SUBSET Heaps : op' = [op EXCEPT !.late = late]
    BY CreatedFrame
  <2>2. op \in FrameShape(op)
    BY DEF StructInv, Shape
  <2> QED
    BY <2>1, <2>2 DEF FrameShape
<1>5. \A g \in Heaps : /\ IsInList(g)' <=> IsInList(g)
                       /\ Tracked(g)' <=> Tracked(g)
                       /\ Missing(g)' <=> Missing(g)
                       /\ Held(g)' <=> Held(g)
                       /\ Count(g)' = Count(g)
  BY <1>0, <1>4, SameTracked DEF Missing, Held, Count
<1>6. FrameSync' /\ PageInSync'
  BY <1>4 DEF FrameSync, PageInSync
<1>7. ScanSync'
  <2>1. op.refs \subseteq Heaps /\ op.used \subseteq op.refs
    BY DEF StructInv, Shape, FrameShape, FrameSync
  <2> QED
    BY <1>0, <1>1, <1>3, <1>4, <2>1 DEF ScanSync
<1>8. VictimSync'
  <2>1. op.victims \subseteq Heaps
    BY DEF StructInv, Shape, FrameShape
  <2> QED
    BY <1>4, <1>5, <2>1 DEF VictimSync
<1>9. UseSync' /\ StatusSync'
  BY <1>0, <1>1, <1>3, <1>4, <1>5 DEF UseSync, StatusSync
<1>10. CountSync'
  <2>1. Count(h) = 0
    BY <1>0, <1>1 DEF Count, Held
  <2>2. resident'[h] \in Nat
    BY DEF StructInv, Shape
  <2> QED
    BY <1>0, <1>3, <1>5, <2>1, <2>2 DEF CountSync
<1>12. "unlockInFlight" \notin Behaviours => FlightSync'
  BY <1>0, <1>3, <1>5 DEF FlightSync, InFlight
<1>13. "noQueue" \notin Behaviours => OrderSync'
  <2> SUFFICES ASSUME "noQueue" \notin Behaviours PROVE OrderSync'
    OBVIOUS
  <2>1. \A s \in Segments : \A i \in DOMAIN cache[s] : cache[s][i] \in Heaps /\ cache[s][i] # h
    <3>1. \A s \in Segments : ~Occurs(h, cache[s])
      BY <1>0, NotLiveUnused
    <3> QED
      BY <3>1 DEF Occurs, StructInv, Shape
  <2>2. op.kind # "exec" => \A g \in Heaps : lastUsed'[g] # currentFence
    BY <1>3 DEF OrderSync, StructInv, Shape
  <2> QED
    BY <1>0, <1>3, <1>4, <2>1, <2>2 DEF OrderSync
<1> QED
  BY <1>6, <1>7, <1>8, <1>9, <1>10, <1>12, <1>13

(* InsertHeap lists a heap that D3D12 counts once.                         *)
LEMMA InsertSyncs ==
    ASSUME StructInv, StructInv', SyncInv, CreatedSync, NEW h \in Heaps, InsertCreated(h)
    PROVE  SyncInv'
<1> USE DEF SyncInv
<1>0. /\ op = Idle /\ op' = Idle /\ life[h] = "created" /\ life' = [life EXCEPT ![h] = "live"]
      /\ cache' = InsertHeap(cache, h)
      /\ UNCHANGED <<status, locks, lastUsed, currentFence, completed, resident, gpuUse>>
  BY DEF InsertCreated, device
<1>1. /\ \A t \in Segments : ~Occurs(h, cache[t])
      /\ locks[h] = 0 /\ ~IsInList(h) /\ ~Tracked(h)
      /\ status[h] = "RESIDENT" /\ resident[h] = 1
  BY <1>0, NotLiveUnused, NotLiveApart DEF CreatedSync
<1>2. \A g \in Heaps : IsInList(g)' <=> IsInList(g) \/ g = h
  <2>1. \A g \in Heaps : Occurs(g, cache'[HeapSegment[g]]) <=> g = h \/ Occurs(g, cache[HeapSegment[g]])
    BY <1>0, <1>1, ListFacts, InsertedMembers
  <2> QED
    BY <2>1 DEF IsInList, Occurs
<1>3. \A g \in Heaps : Tracked(g)' <=> Tracked(g) \/ g = h
  BY <1>0, <1>2 DEF Tracked, IsResidencyLocked
<1>4. \A g \in Heaps : g # h => life'[g] = life[g]
  BY <1>0 DEF StructInv, Shape
<1>5. FrameSync' /\ PageInSync' /\ ScanSync' /\ VictimSync' /\ \A g \in Heaps : ~Missing(g)'
  BY <1>0, IdleSync
<1>6. UseSync' /\ StatusSync'
  <2>1. UseSync'
    BY <1>0, <1>3 DEF UseSync
  <2>2. ASSUME NEW g \in Heaps
        PROVE  /\ locks'[g] > 0 => status'[g] = "RESIDENT"
               /\ IsInList(g)' => status'[g] = "RESIDENT"
    BY <1>0, <1>1, <1>2, IdleFacts
  <2> QED
    BY <1>0, <2>1, <2>2 DEF StatusSync
<1>7. CountSync'
  <2>1. ASSUME NEW g \in Heaps, life'[g] = "live"
        PROVE  /\ Tracked(g)' => resident'[g] >= 1
               /\ HeapKind[g] # "unknown" => resident'[g] = IF Tracked(g)' THEN 1 ELSE 0
    <3>1. CASE g = h
      BY <1>0, <1>1, <1>3, <3>1
    <3>2. CASE g # h
      BY <1>0, <1>3, <1>4, <2>1, <3>2, IdleFacts
    <3> QED
      BY <3>1, <3>2
  <2> QED
    BY <1>0, <2>1, IdleCount DEF StructInv, Shape
<1>9. "unlockInFlight" \notin Behaviours => FlightSync'
  BY <1>0, <1>4, <1>5 DEF FlightSync, InFlight, StructInv, Shape
<1>10. "noQueue" \notin Behaviours => OrderSync'
  <2> SUFFICES ASSUME "noQueue" \notin Behaviours PROVE OrderSync'
    OBVIOUS
  <2>1. \A g \in Heaps : lastUsed[g] # currentFence
    BY <1>0, IdleShape DEF OrderSync
  <2>2. \A s \in Segments : \A i \in DOMAIN cache'[s] : cache'[s][i] \in Heaps
    BY DEF StructInv, Shape
  <2> QED
    BY <1>0, <2>1, <2>2, IdleShape DEF OrderSync
<1> QED
  BY <1>5, <1>6, <1>7, <1>9, <1>10

(* ~Heap takes the heap out of the list; no operation in progress refers   *)
(* to it, except as a heap that it is about to evict.                      *)
LEMMA DestroySyncs ==
    ASSUME Orderly, StructInv, StructInv', SyncInv, NEW h \in Heaps, DestroyHeap(h)
    PROVE  SyncInv'
<1> USE DEF SyncInv
<1>1. h \notin op.refs /\ h # op.head
  BY HeapFacts, IdleShape, OrderlyClients DEF DestroyHeap, MayDestroy, CandidateLives
<1>0. /\ op' = op /\ UNCHANGED <<locks, currentFence, completed, gpuUse>>
      /\ life' = [life EXCEPT ![h] = "absent"] /\ lastUsed' = [lastUsed EXCEPT ![h] = 0]
      /\ status' = [status EXCEPT ![h] = "UNKNOWN"]
      /\ resident' = [resident EXCEPT ![h] = 0] /\ cache' = RemoveFromList(h)
      /\ life[h] = "live" /\ locks[h] = 0 /\ ~InFlight(h)
  BY <1>1 DEF DestroyHeap, IsResidencyLocked, StructInv, Shape
<1>2. \A g \in Heaps : IsInList(g)' <=> IsInList(g) /\ g # h
  <2>1. \A g \in Heaps : Occurs(g, cache'[HeapSegment[g]]) <=> IsInList(g) /\ g # h
    BY <1>0, RemovedMembers
  <2> QED
    BY <2>1 DEF IsInList, Occurs
<1>3. \A g \in Heaps : g # h => (Tracked(g)' <=> Tracked(g))
  BY <1>0, <1>2 DEF Tracked, IsResidencyLocked
<1>4. /\ \A g \in Heaps : g # h => /\ status'[g] = status[g] /\ resident'[g] = resident[g]
                                   /\ life'[g] = life[g] /\ lastUsed'[g] = lastUsed[g]
      /\ lastUsed'[h] = 0 /\ life'[h] = "absent"
      /\ status' \in [Heaps -> {"UNKNOWN", "PENDING", "RESIDENT"}]
  BY <1>0 DEF StatusSync, StructInv, Shape
<1>5. \A g \in Heaps : Missing(g)' <=> Missing(g)
  BY <1>0 DEF Missing
<1>6. FrameSync' /\ PageInSync' /\ VictimSync'
  <2>1. op.victims \subseteq Heaps
    BY DEF StructInv, Shape, FrameShape
  <2> QED
    BY <1>0, <1>2, <1>5, <2>1 DEF FrameSync, PageInSync, VictimSync
<1>7. ScanSync'
  <2>1. op.refs \subseteq Heaps /\ op.used \subseteq op.refs
    BY DEF StructInv, Shape, FrameShape, FrameSync
  <2> QED
    BY <1>0, <1>1, <1>4, <2>1 DEF ScanSync
<1>8. UseSync' /\ StatusSync'
  BY <1>0, <1>2, <1>3, <1>4 DEF UseSync, StatusSync
<1>9. CountSync'
  <2>1. \A g \in Heaps : g # h => Count(g)' = Count(g)
    BY <1>0, <1>3, <1>5 DEF Count, Held
  <2> QED
    BY <1>4, <2>1 DEF CountSync
<1>10. "unlockInFlight" \notin Behaviours => FlightSync'
  <2>1. \A g \in Heaps : InFlight(g)' <=> InFlight(g)
    BY <1>0 DEF InFlight
  <2> QED
    BY <1>0, <1>4, <1>5, <2>1 DEF FlightSync
<1>11. "noQueue" \notin Behaviours => OrderSync'
  <2> SUFFICES ASSUME "noQueue" \notin Behaviours PROVE OrderSync'
    OBVIOUS
  <2> DEFINE C == {g \in Heaps : lastUsed[g] = currentFence}
  <2>1. \A s \in Segments : AtEnd(cache[s], C)
    BY ListFacts DEF OrderSync, AtEnd
  <2>2. \A s \in Segments : AtEnd(cache'[s], C)
    BY <1>0, <2>1, RemovedMembers
  <2>3. \A s \in Segments : \A i \in DOMAIN cache'[s] : cache'[s][i] \in Heaps \ {h}
    <3>1. \A s \in Segments : ~Occurs(h, cache'[s])
      BY <1>0, RemovedFromLists
    <3> QED
      BY <3>1 DEF Occurs, StructInv, Shape
  <2>4. \A s \in Segments : \A i, j \in DOMAIN cache'[s] :
           i < j /\ lastUsed'[cache'[s][i]] = currentFence' => lastUsed'[cache'[s][j]] = currentFence'
    BY <1>0, <1>4, <2>2, <2>3 DEF AtEnd
  <2>5. op.kind # "exec" => \A g \in Heaps : lastUsed'[g] # currentFence
    BY <1>4 DEF OrderSync, StructInv, Shape
  <2> QED
    BY <1>0, <2>4, <2>5 DEF OrderSync
<1> QED
  BY <1>6, <1>7, <1>8, <1>9, <1>10, <1>11

(* LockHeap takes over a heap D3D12 counts, or begins to page it in.       *)
LEMMA LockSyncs ==
    ASSUME StructInv, StructInv', SyncInv, NEW h \in Heaps, LockHeap(h)
    PROVE  SyncInv'
<1> USE DEF SyncInv
<1>0. /\ op = Idle /\ life[h] = "live"
      /\ UNCHANGED <<life, status, lastUsed, currentFence, completed, resident, gpuUse>>
  BY DEF LockHeap, device
<1>1. CASE MustPageIn(h)
  <2> DEFINE s == HeapSegment[h]
             pages == [Idle.pageIn EXCEPT ![s] = {h}]
             sizes == [Idle.size EXCEPT ![s] = HeapSize[h]]
  <2>1. UNCHANGED <<locks, cache>> /\ ~Tracked(h)
    BY <1>1 DEF LockHeap, MustPageIn, Tracked
  <2>2. op' = [[Idle EXCEPT !.kind = "lock", !.heap = h, !.pageIn = pages, !.size = sizes]
                EXCEPT !.pc = "evict", !.seg = s, !.bytes = sizes[s], !.retry = FALSE]
    BY <1>1, IdleShape DEF LockHeap, MakeResident, FrameShape
  <2>3. /\ pages \in [Segments -> SUBSET Heaps] /\ sizes \in [Segments -> Nat] /\ s \in Segments
        /\ pages[s] = {h} /\ sizes[s] > 0
        /\ \A t \in Segments : t # s => pages[t] = {} /\ sizes[t] = 0
    BY IdleRest, HeapFacts, ResidencyAssumption
  <2> HIDE DEF pages, sizes
  <2>4. /\ op'.kind = "lock" /\ op'.pc = "evict" /\ op'.heap = h /\ op'.list = <<>> /\ op'.refs = {}
        /\ op'.used = {} /\ op'.victims = {} /\ op'.retry = FALSE
        /\ op'.pageIn = pages /\ op'.size = sizes /\ op'.seg = s
    BY <2>2, IdleShape, IdleRest DEF FrameShape
  <2> HIDE DEF s
  <2>5. FrameSync' /\ ScanSync' /\ VictimSync'
    BY <2>3, <2>4 DEF FrameSync, ScanSync, VictimSync
  <2>6. \A g \in Heaps : g \in pages[HeapSegment[g]] <=> g = h
    BY <2>3, HeapFacts DEF s
  <2>7. PageInSync'
    BY <2>3, <2>4, <2>6 DEF PageInSync, s
  <2>8. \A g \in Heaps : (Missing(g)' <=> g = h) /\ (Held(g)' <=> Tracked(g))
    BY <2>1, <2>4, <2>6, SameTracked DEF Missing, Held
  <2>9. UseSync' /\ StatusSync'
    BY <1>0, <2>1, <2>4, SameTracked, IdleFacts DEF UseSync, StatusSync
  <2>10. CountSync'
    BY <1>0, <2>1, <2>8, IdleFacts DEF CountSync, Count, StructInv, Shape
  <2>11. "unlockInFlight" \notin Behaviours => FlightSync'
    <3> SUFFICES ASSUME "unlockInFlight" \notin Behaviours PROVE FlightSync'
      OBVIOUS
    <3>1. ~InFlight(h)
      BY <2>1 DEF FlightSync, InFlight, UseSync, Tracked, IsResidencyLocked, StructInv, Shape
    <3> QED
      BY <1>0, <2>1, <2>8, <3>1 DEF FlightSync, InFlight
  <2>12. "noQueue" \notin Behaviours => OrderSync'
    BY <1>0, <2>1, <2>4, IdleShape DEF OrderSync
  <2> QED
    BY <2>5, <2>7, <2>9, <2>10, <2>11, <2>12
<1>2. CASE ~MustPageIn(h)
  <2>1. locks' = [locks EXCEPT ![h] = @ + 1] /\ cache' = RemoveFromList(h) /\ op' = Idle /\ Tracked(h)
    BY <1>0, <1>2 DEF LockHeap, MustPageIn, Tracked
  <2>2. \A g \in Heaps : IsInList(g)' <=> IsInList(g) /\ g # h
    BY <2>1, RemovedMembers DEF IsInList, Occurs
  <2>3. locks'[h] > 0 /\ \A g \in Heaps : g # h => locks'[g] = locks[g]
    BY <2>1 DEF StructInv, Shape
  <2>4. \A g \in Heaps : Tracked(g)' <=> Tracked(g)
    BY <2>1, <2>2, <2>3 DEF Tracked, IsResidencyLocked
  <2>5. FrameSync' /\ PageInSync' /\ ScanSync' /\ VictimSync' /\ \A g \in Heaps : ~Missing(g)'
    BY <2>1, IdleSync
  <2>6. UseSync'
    BY <1>0, <2>4 DEF UseSync
  <2>7. StatusSync'
    <3>1. \A g \in Heaps : IsInList(g) \/ locks[g] > 0 => status[g] = "RESIDENT"
      BY <1>0, IdleFacts
    <3> QED
      BY <1>0, <2>1, <2>2, <2>3, <3>1 DEF StatusSync, Tracked, IsResidencyLocked
  <2>8. CountSync'
    BY <1>0, <2>1, <2>4, IdleFacts, IdleCount DEF StructInv, Shape
  <2>9. "unlockInFlight" \notin Behaviours => FlightSync'
    BY <1>0, <2>3, <2>5 DEF FlightSync, InFlight
  <2>10. "noQueue" \notin Behaviours => OrderSync'
    <3> SUFFICES ASSUME "noQueue" \notin Behaviours PROVE OrderSync'
      OBVIOUS
    <3>1. \A g \in Heaps : lastUsed'[g] # currentFence'
      BY <1>0, IdleShape DEF OrderSync
    <3>2. \A t \in Segments : \A i \in DOMAIN cache'[t] : cache'[t][i] \in Heaps
      BY DEF StructInv, Shape
    <3> QED
      BY <2>1, <3>1, <3>2, IdleShape DEF OrderSync
  <2> QED
    BY <2>5, <2>6, <2>7, <2>8, <2>9, <2>10
<1> QED
  BY <1>1, <1>2

(* The heap LockHeap paged in is counted and becomes tracked.              *)
LEMMA FinishLockSyncs ==
    ASSUME StructInv, StructInv', SyncInv, FinishLock
    PROVE  SyncInv'
<1> USE DEF SyncInv
<1> DEFINE h == op.heap
<1>0. /\ op' = Idle /\ op.kind = "lock" /\ op.pc = "made"
      /\ UNCHANGED <<life, lastUsed, cache, currentFence, completed, resident, gpuUse>>
      /\ status' = [status EXCEPT ![h] = "RESIDENT"] /\ locks' = [locks EXCEPT ![h] = @ + 1]
      /\ h \in Heaps /\ life[h] = "live" /\ ~IsInList(h) /\ locks[h] = 0
  BY DEF FinishLock, device, StructInv, OpInv
<1> HIDE DEF h
<1>1. op.victims = {} /\ op.used = {}
  BY <1>0 DEF FrameSync
<1>2. \A g \in Heaps : ~Missing(g) /\ (Held(g) <=> Tracked(g) \/ g = h)
  BY <1>0, <1>1 DEF Missing, Held, h
<1>3. \A g \in Heaps : (IsInList(g)' <=> IsInList(g)) /\ (Tracked(g)' <=> Tracked(g) \/ g = h)
  <2>1. locks'[h] > 0 /\ \A g \in Heaps : g # h => locks'[g] = locks[g]
    BY <1>0 DEF StructInv, Shape
  <2>2. \A g \in Heaps : IsInList(g)' <=> IsInList(g)
    BY <1>0 DEF IsInList
  <2> QED
    BY <2>1, <2>2 DEF Tracked, IsResidencyLocked
<1>4. FrameSync' /\ PageInSync' /\ ScanSync' /\ VictimSync' /\ \A g \in Heaps : ~Missing(g)'
  BY <1>0, IdleSync
<1>5. UseSync'
  BY <1>0, <1>3 DEF UseSync
<1>6. StatusSync'
  BY <1>0, <1>1, <1>3 DEF StatusSync, StructInv, Shape
<1>7. CountSync'
  <2>1. \A g \in Heaps : life[g] = "live" =>
           /\ Tracked(g) \/ g = h => resident[g] >= 1
           /\ HeapKind[g] # "unknown" => resident[g] = IF Tracked(g) \/ g = h THEN 1 ELSE 0
    BY <1>2 DEF CountSync, Count
  <2> QED
    BY <1>0, <1>3, <2>1, IdleCount DEF StructInv, Shape
<1>8. "unlockInFlight" \notin Behaviours => FlightSync'
  <2>1. \A g \in Heaps : locks[g] > 0 => locks'[g] > 0
    BY <1>0 DEF StructInv, Shape
  <2> QED
    BY <1>0, <1>4, <2>1 DEF FlightSync, InFlight
<1>9. "noQueue" \notin Behaviours => OrderSync'
  BY <1>0, IdleShape DEF OrderSync
<1> QED
  BY <1>4, <1>5, <1>6, <1>7, <1>8, <1>9

(* UnlockHeap hands a heap that D3D12 counts from the lock to the list.    *)
LEMMA UnlockSyncs ==
    ASSUME StructInv, StructInv', SyncInv, NEW h \in Heaps, UnlockHeap(h)
    PROVE  SyncInv'
<1> USE DEF SyncInv
<1>0. /\ op = Idle /\ op' = Idle
      /\ UNCHANGED <<life, status, lastUsed, currentFence, completed, resident, gpuUse>>
      /\ locks' = [locks EXCEPT ![h] = @ - 1] /\ locks[h] > 0
      /\ locks[h] = 1 /\ InFlight(h) => "unlockInFlight" \in Behaviours
      /\ locks[h] > 1 => UNCHANGED cache
      /\ ~(locks[h] > 1) => cache' = InsertHeap(cache, h)
  BY DEF UnlockHeap, device, IsResidencyLocked
<1>1. \A t \in Segments : ~Occurs(h, cache[t])
  BY <1>0 DEF StructInv, LRUWellFormed, Occurs, IsResidencyLocked
<1>2. /\ \A g \in Heaps : g # h => locks'[g] = locks[g]
      /\ locks[h] > 1 => locks'[h] > 0
      /\ ~(locks[h] > 1) => locks[h] = 1 /\ locks'[h] = 0
  BY <1>0 DEF StructInv, Shape
<1>3. \A g \in Heaps : IsInList(g)' <=> IsInList(g) \/ (g = h /\ ~(locks[h] > 1))
  <2>1. CASE locks[h] > 1
    BY <1>0, <2>1 DEF IsInList
  <2>2. CASE ~(locks[h] > 1)
    <3>1. \A g \in Heaps : Occurs(g, cache'[HeapSegment[g]]) <=> g = h \/ Occurs(g, cache[HeapSegment[g]])
      BY <1>0, <1>1, <2>2, ListFacts, InsertedMembers
    <3> QED
      BY <2>2, <3>1 DEF IsInList, Occurs
  <2> QED
    BY <2>1, <2>2
<1>4. \A g \in Heaps : Tracked(g)' <=> Tracked(g)
  BY <1>0, <1>2, <1>3 DEF Tracked, IsResidencyLocked
<1>5. FrameSync' /\ PageInSync' /\ ScanSync' /\ VictimSync' /\ \A g \in Heaps : ~Missing(g)'
  BY <1>0, IdleSync
<1>6. UseSync'
  BY <1>0, <1>4 DEF UseSync
<1>7. StatusSync'
  <2>1. \A g \in Heaps : IsInList(g) \/ locks[g] > 0 => status[g] = "RESIDENT"
    BY <1>0, IdleFacts
  <2> QED
    BY <1>0, <1>2, <1>3, <2>1 DEF StatusSync
<1>8. CountSync'
  BY <1>0, <1>4, IdleFacts, IdleCount DEF StructInv, Shape
<1>9. "unlockInFlight" \notin Behaviours => FlightSync'
  BY <1>0, <1>2, <1>5 DEF FlightSync, InFlight
<1>10. "noQueue" \notin Behaviours => OrderSync'
  <2> SUFFICES ASSUME "noQueue" \notin Behaviours PROVE OrderSync'
    OBVIOUS
  <2>1. \A g \in Heaps : lastUsed'[g] # currentFence'
    BY <1>0, IdleShape DEF OrderSync
  <2>2. \A t \in Segments : \A i \in DOMAIN cache'[t] : cache'[t][i] \in Heaps
    BY DEF StructInv, Shape
  <2> QED
    BY <1>0, <2>1, <2>2, IdleShape DEF OrderSync
<1> QED
  BY <1>5, <1>6, <1>7, <1>8, <1>9, <1>10

-----------------------------------------------------------------------------
(* ExecuteCommandLists.                                                    *)

(* It takes mMutex with a list of heaps of one segment.                    *)
LEMMA ExecuteSyncs ==
    ASSUME Orderly, StructInv, SyncInv, NEW list \in ResidencyLists, NEW queue \in BOOLEAN,
           ExecuteCommandLists(list, queue)
    PROVE  SyncInv'
<1> USE DEF SyncInv
<1>0. /\ op = Idle
      /\ ~queue => "noQueue" \in Behaviours
      /\ UNCHANGED <<life, status, locks, lastUsed, cache, currentFence, completed, resident, gpuUse>>
  BY DEF ExecuteCommandLists, heapVars, device
<1>1. /\ op'.kind = "exec" /\ op'.pc = "scan" /\ op'.list = list /\ op'.refs = Range(list)
      /\ op'.used = {} /\ op'.victims = {} /\ op'.retry = FALSE /\ op'.queue = queue
      /\ op'.pageIn = [s \in Segments |-> {}] /\ op'.size = [s \in Segments |-> 0]
  BY IdleShape, IdleRest DEF ExecuteCommandLists, FrameShape
<1>2. \A g \in Heaps : ~Missing(g)' /\ (Held(g)' <=> Tracked(g)')
  BY <1>1, HeapFacts DEF Missing, Held
<1>3. \A g, h \in Range(list) : HeapSegment[g] = HeapSegment[h]
  BY DEF ExecuteCommandLists, Orderly, Range
<1>4. FrameSync' /\ PageInSync' /\ VictimSync'
  BY <1>1, <1>3 DEF FrameSync, PageInSync, VictimSync
<1>5. ScanSync'
  <2>1. \A g \in Range(list) : Occurs(g, list)
    BY DEF Range, Occurs
  <2> QED
    BY <1>1, <2>1 DEF ScanSync
<1>6. UseSync' /\ StatusSync'
  BY <1>0, <1>1, SameTracked, IdleRest DEF UseSync, StatusSync
<1>7. CountSync'
  BY <1>0, <1>2, SameTracked, IdleFacts DEF CountSync, Count, StructInv, Shape
<1>8. "unlockInFlight" \notin Behaviours => FlightSync'
  BY <1>0, <1>2 DEF FlightSync, InFlight
<1>9. "noQueue" \notin Behaviours => OrderSync'
  BY <1>0, <1>1, IdleShape DEF OrderSync
<1> QED
  BY <1>4, <1>5, <1>6, <1>7, <1>8, <1>9

(* An entry of a list is its head or in its tail.                          *)
LEMMA HeadOrTail ==
    ASSUME NEW S, NEW list \in Seq(S), list # <<>>, NEW g, Occurs(g, list)
    PROVE  g = Head(list) \/ Occurs(g, Tail(list))
<1> DEFINE n == Len(list)
<1>1. n \in Nat \ {0} /\ DOMAIN list = 1..n /\ Head(list) = list[1]
  OBVIOUS
<1>2. PICK j \in 1..n : list[j] = g
  BY <1>1 DEF Occurs
<1>3. /\ Len(Tail(list)) = n - 1 /\ DOMAIN Tail(list) = 1..(n - 1)
      /\ \A i \in 1..(n - 1) : Tail(list)[i] = list[i + 1]
  BY <1>1
<1>4. j # 1 => j - 1 \in 1..(n - 1) /\ (j - 1) + 1 = j
  BY <1>1
<1> QED
  BY <1>1, <1>2, <1>3, <1>4 DEF Occurs

(* The loop over the residency list marks a heap as used by the current    *)
(* submission and moves it to the tail, to be paged in if it was not       *)
(* listed.                                                                 *)
LEMMA ScanSyncs ==
    ASSUME StructInv, StructInv', SyncInv, ScanHeap
    PROVE  SyncInv'
<1> USE DEF SyncInv
<1> DEFINE h == Head(op.list)
           rest == Tail(op.list)
           s == HeapSegment[h]
<1>0. /\ op.pc = "scan" /\ op.kind = "exec" /\ op.list # <<>> /\ op.list \in Seq(Heaps)
      /\ op.refs \subseteq Heaps
      /\ UNCHANGED <<life, status, locks, currentFence, completed, resident, gpuUse>>
  BY DEF ScanHeap, device, StructInv, OpInv, Shape, FrameShape
<1>1. h \in op.refs /\ h \in Heaps /\ life[h] = "live" /\ op.victims = {}
  <2>1. h = op.list[1] /\ 1 \in DOMAIN op.list
    BY <1>0
  <2> QED
    BY <1>0, <2>1 DEF StructInv, OpInv, FrameSync
<1>2. \A g \in op.refs : locks[g] > 0 \/ lastUsed[g] = currentFence \/ g = h \/ Occurs(g, rest)
  BY <1>0, HeadOrTail DEF ScanSync
<1> DEFINE next == [op EXCEPT !.list = rest]
<1>3. /\ next \in FrameShape(next) /\ next.list = rest /\ next.used = op.used
      /\ next.pageIn = op.pageIn /\ next.size = op.size
      /\ next.kind = "exec" /\ next.pc = "scan" /\ next.refs = op.refs /\ next.queue = op.queue
      /\ next.victims = {} /\ next.retry = FALSE
  <2>1. rest \in Seq(Heaps)
    BY <1>0
  <2> QED
    BY <1>0, <1>1, <2>1 DEF StructInv, Shape, FrameShape, FrameSync
<1>4. CASE IsResidencyLocked(h) \/ lastUsed[h] = currentFence
  <2>1. op' = next /\ UNCHANGED <<lastUsed, cache>>
    BY <1>4 DEF ScanHeap
  <2>2. /\ op'.list = rest /\ op'.used = op.used /\ op'.pageIn = op.pageIn /\ op'.size = op.size
        /\ op'.kind = "exec" /\ op'.pc = "scan" /\ op'.refs = op.refs /\ op'.queue = op.queue
        /\ op'.victims = {} /\ op'.retry = FALSE
    BY <1>3, <2>1
  <2> HIDE DEF next, h, rest
  <2>3. FrameSync' /\ PageInSync' /\ VictimSync'
    BY <1>0, <1>3, <2>2 DEF FrameSync, PageInSync, VictimSync
  <2>4. ScanSync'
    BY <1>0, <1>2, <1>4, <2>1, <2>2 DEF ScanSync, IsResidencyLocked
  <2>5. \A g \in Heaps : (Missing(g)' <=> Missing(g)) /\ (Held(g)' <=> Held(g)) /\ Count(g)' = Count(g)
    BY <1>0, <1>1, <2>1, <2>2, SameTracked DEF Missing, Held, Count
  <2>6. UseSync' /\ StatusSync' /\ CountSync'
    BY <1>0, <2>1, <2>2, <2>5, SameTracked DEF UseSync, StatusSync, CountSync
  <2>7. "unlockInFlight" \notin Behaviours => FlightSync'
    BY <1>0, <2>1, <2>5 DEF FlightSync, InFlight
  <2>8. "noQueue" \notin Behaviours => OrderSync'
    BY <1>0, <2>1, <2>2 DEF OrderSync
  <2> QED
    BY <2>3, <2>4, <2>6, <2>7, <2>8
<1>5. CASE ~(IsResidencyLocked(h) \/ lastUsed[h] = currentFence)
  <2> DEFINE pages == IF IsInList(h) THEN op.pageIn ELSE [op.pageIn EXCEPT ![s] = @ \cup {h}]
             sizes == IF IsInList(h) THEN op.size ELSE [op.size EXCEPT ![s] = @ + HeapSize[h]]
  <2>1. /\ cache' = InsertHeap(RemoveFromList(h), h)
        /\ lastUsed' = [lastUsed EXCEPT ![h] = currentFence]
        /\ locks[h] = 0 /\ lastUsed[h] # currentFence
    BY <1>1, <1>5 DEF ScanHeap, IsResidencyLocked, StructInv, Shape
  <2>2. /\ op'.used = op.used \cup {h} /\ op'.pageIn = pages /\ op'.size = sizes
        /\ op'.list = rest /\ op'.kind = "exec" /\ op'.pc = "scan" /\ op'.refs = op.refs
        /\ op'.queue = op.queue /\ op'.victims = {} /\ op'.retry = FALSE
    <3>1. op' = IF IsInList(h) THEN [next EXCEPT !.used = @ \cup {h}]
                ELSE [next EXCEPT !.used = @ \cup {h}, !.pageIn[s] = @ \cup {h},
                                  !.size[s] = @ + HeapSize[h]]
      BY <1>5 DEF ScanHeap
    <3> HIDE DEF next, h, rest, s
    <3>2. CASE IsInList(h)
      BY <1>3, <3>1, <3>2 DEF FrameShape
    <3>3. CASE ~IsInList(h)
      <4>1. op' = [next EXCEPT !.used = @ \cup {h}, !.pageIn = pages, !.size = sizes]
        BY <1>3, <3>1, <3>3 DEF FrameShape
      <4> HIDE DEF pages, sizes
      <4> QED
        BY <1>3, <4>1 DEF FrameShape
    <3> QED
      BY <3>2, <3>3
  <2> HIDE DEF next, h, rest, s
  <2>3. h \notin op.used /\ op.pageIn \in [Segments -> SUBSET Heaps] /\ op.size \in [Segments -> Nat]
        /\ op.used \subseteq op.refs /\ s \in Segments /\ HeapSize[h] \in Nat \ {0}
    <3>1. h \notin op.used
      BY <2>1 DEF ScanSync
    <3>2. s \in Segments
      BY <1>1, HeapFacts DEF s
    <3>3. HeapSize[h] \in Nat \ {0}
      BY <1>1, ResidencyAssumption
    <3> QED
      BY <3>1, <3>2, <3>3 DEF FrameSync
  <2>4. /\ pages \in [Segments -> SUBSET Heaps] /\ sizes \in [Segments -> Nat]
        /\ \A t \in Segments : pages[t] = IF t = s /\ ~IsInList(h) THEN op.pageIn[t] \cup {h} ELSE op.pageIn[t]
        /\ \A t \in Segments : sizes[t] = IF t = s /\ ~IsInList(h) THEN op.size[t] + HeapSize[h] ELSE op.size[t]
    <3>1. CASE IsInList(h)
      BY <2>3, <3>1
    <3>2. CASE ~IsInList(h)
      <4>1. /\ pages = [op.pageIn EXCEPT ![s] = @ \cup {h}]
            /\ sizes = [op.size EXCEPT ![s] = @ + HeapSize[h]]
        BY <3>2
      <4> HIDE DEF pages, sizes
      <4> QED
        BY <1>1, <2>3, <3>2, <4>1, AddedToEntry
    <3> QED
      BY <3>1, <3>2
  <2> HIDE DEF pages, sizes
  <2>5. FrameSync' /\ VictimSync'
    BY <1>1, <2>2, <2>3, <2>4 DEF FrameSync, VictimSync
  <2>6. PageInSync'
    <3>1. \A t \in Segments : sizes[t] > 0 <=> pages[t] # {}
      <4>1. \A t \in Segments : op.size[t] \in Nat /\ (op.size[t] > 0 <=> op.pageIn[t] # {})
        BY <2>3 DEF PageInSync
      <4> QED
        BY <2>3, <2>4, <4>1
    <3>2. \A t \in Segments : pages[t] \subseteq op.used \cup {h} /\ \A g \in pages[t] : HeapSegment[g] = t
      BY <1>0, <2>4 DEF PageInSync, s
    <3> QED
      BY <2>2, <3>1, <3>2 DEF PageInSync
  <2>7. /\ lastUsed'[h] = currentFence /\ \A g \in Heaps : g # h => lastUsed'[g] = lastUsed[g]
    BY <1>1, <2>1 DEF StructInv, Shape
  <2>8. ScanSync'
    BY <1>0, <1>1, <1>2, <2>1, <2>2, <2>3, <2>7 DEF ScanSync
  <2>9. \A g \in Heaps : IsInList(g)' <=> IsInList(g) \/ g = h
    <3>1. /\ RemoveFromList(h) \in [Segments -> Seq(Heaps)]
          /\ \A t \in Segments : ~Occurs(h, RemoveFromList(h)[t])
      BY <1>1, RemovedFromLists
    <3>2. \A g \in Heaps : Occurs(g, RemoveFromList(h)[HeapSegment[g]]) <=> IsInList(g) /\ g # h
      BY <1>1, RemovedMembers
    <3>3. \A g \in Heaps : Occurs(g, cache'[HeapSegment[g]])
                              <=> g = h \/ Occurs(g, RemoveFromList(h)[HeapSegment[g]])
      BY <1>1, <2>1, <3>1, InsertedMembers
    <3> QED
      BY <3>2, <3>3 DEF IsInList, Occurs
  <2>10. \A g \in Heaps : Tracked(g)' <=> Tracked(g) \/ g = h
    BY <1>0, <2>9 DEF Tracked, IsResidencyLocked
  <2>11. \A g \in Heaps : Missing(g)' <=> Missing(g) \/ (g = h /\ ~IsInList(h))
    BY <1>0, <2>2, <2>4, HeapFacts DEF Missing, s
  <2>12. \A g \in Heaps : Count(g)' = Count(g)
    <3>1. \A g \in Heaps : (Held(g)' <=> Tracked(g)') /\ (Held(g) <=> Tracked(g))
      BY <1>0, <1>1, <2>2 DEF Held
    <3>2. Tracked(h) <=> IsInList(h)
      BY <1>1, <2>1 DEF Tracked, IsResidencyLocked
    <3>3. ~Missing(h)
      BY <1>0, <1>1, <2>3, HeapFacts DEF Missing, PageInSync
    <3> QED
      BY <2>10, <2>11, <3>1, <3>2, <3>3 DEF Count
  <2>13. UseSync' /\ StatusSync' /\ CountSync'
    BY <1>0, <2>2, <2>7, <2>9, <2>10, <2>12 DEF UseSync, StatusSync, CountSync
  <2>14. "unlockInFlight" \notin Behaviours => FlightSync'
    <3> SUFFICES ASSUME "unlockInFlight" \notin Behaviours PROVE FlightSync'
      OBVIOUS
    <3>1. ~IsInList(h) => ~InFlight(h)
      <4> SUFFICES ASSUME ~IsInList(h) PROVE ~(gpuUse[h] > completed)
        BY DEF InFlight
      <4>1. ~(lastUsed[h] > completed) /\ completed \in Nat
        BY <1>1, <2>1 DEF UseSync, Tracked, IsResidencyLocked
      <4>2. gpuUse[h] > completed => lastUsed[h] >= gpuUse[h]
        BY <1>1, <2>1 DEF FlightSync, InFlight
      <4>3. lastUsed[h] \in Nat /\ gpuUse[h] \in Nat
        BY <1>1 DEF FlightSync, StructInv, Shape
      <4> QED
        BY <4>1, <4>2, <4>3
    <3>2. \A g \in Heaps : lastUsed[g] >= gpuUse[g] \/ g = h => lastUsed'[g] >= gpuUse[g]
      BY <1>1, <2>7 DEF FlightSync, StructInv, Shape
    <3> QED
      BY <1>0, <2>11, <3>1, <3>2 DEF FlightSync, InFlight
  <2>15. "noQueue" \notin Behaviours => OrderSync'
    <3> SUFFICES ASSUME "noQueue" \notin Behaviours PROVE OrderSync'
      OBVIOUS
    <3> DEFINE C == {g \in Heaps : lastUsed[g] = currentFence}
    <3>1. \A t \in Segments : AtEnd(cache[t], C)
      BY ListFacts DEF OrderSync, AtEnd
    <3>2. /\ RemoveFromList(h) \in [Segments -> Seq(Heaps)]
          /\ \A t \in Segments : ~Occurs(h, RemoveFromList(h)[t])
      BY <1>1, RemovedFromLists
    <3>3. \A t \in Segments : AtEnd(RemoveFromList(h)[t], C)
      BY <1>1, <3>1, RemovedMembers
    <3>4. \A t \in Segments : AtEnd(cache'[t], C \cup {h})
      BY <1>1, <2>1, <3>2, <3>3, InsertedMembers
    <3>5. C \cup {h} = {g \in Heaps : lastUsed'[g] = currentFence}
      BY <1>1, <2>7
    <3>6. \A t \in Segments : \A i \in DOMAIN cache'[t] : cache'[t][i] \in Heaps
      BY DEF StructInv, Shape
    <3> HIDE DEF C
    <3> QED
      BY <1>0, <2>2, <3>4, <3>5, <3>6 DEF OrderSync, AtEnd
  <2> QED
    BY <2>5, <2>6, <2>8, <2>13, <2>14, <2>15
<1> QED
  BY <1>4, <1>5

(* Steps of an operation that change only where it is: what it does and    *)
(* what it has collected stay, and it has not paged anything in.           *)
LEMMA FrameStepSyncs ==
    ASSUME StructInv, SyncInv,
           UNCHANGED <<life, status, locks, lastUsed, cache, currentFence, completed, resident, gpuUse>>,
           op'.kind = op.kind, op'.heap = op.heap, op'.list = op.list, op'.refs = op.refs,
           op'.used = op.used, op'.pageIn = op.pageIn, op'.size = op.size, op'.queue = op.queue,
           op'.retry = FALSE, op.victims = {}, op'.victims = {}, op.pc # "made",
           FrameSync', PageInSync',
           op'.pc = "made" => op.kind = "exec" /\ \A s \in Segments : op.pageIn[s] = {}
    PROVE  SyncInv'
<1> USE DEF SyncInv
<1>1. \A h \in Heaps : (Missing(h)' <=> Missing(h)) /\ (Held(h)' <=> Held(h)) /\ Count(h)' = Count(h)
  BY SameTracked, HeapFacts DEF Missing, Held, Count
<1>2. ScanSync' /\ VictimSync'
  BY DEF ScanSync, VictimSync
<1>3. UseSync' /\ StatusSync' /\ CountSync'
  BY <1>1, SameTracked DEF UseSync, StatusSync, CountSync
<1>4. "unlockInFlight" \notin Behaviours => FlightSync'
  BY <1>1 DEF FlightSync, InFlight
<1>5. "noQueue" \notin Behaviours => OrderSync'
  BY DEF OrderSync
<1> QED
  BY <1>2, <1>3, <1>4, <1>5

(* After the scan there is at most one segment to make resident.           *)
LEMMA ScanDoneSyncs ==
    ASSUME StructInv, SyncInv, ScanDone
    PROVE  SyncInv'
<1> USE DEF SyncInv
<1>0. /\ op.pc = "scan" /\ op.kind = "exec" /\ op.list = <<>> /\ op.victims = {} /\ op.retry = FALSE
      /\ UNCHANGED <<life, status, locks, lastUsed, cache, currentFence, completed, resident, gpuUse>>
      /\ op \in FrameShape(op)
  BY DEF ScanDone, heapVars, device, StructInv, OpInv, Shape, FrameSync
<1>1. /\ op.size \in [Segments -> Nat] /\ op.pageIn \in [Segments -> SUBSET Heaps]
      /\ \A s \in Segments : op.size[s] > 0 <=> op.pageIn[s] # {}
      /\ \A s \in Segments : op.pageIn[s] \subseteq op.refs
      /\ \A s \in Segments : \A h \in op.pageIn[s] : HeapSegment[h] = s
      /\ \A g, h \in op.refs : HeapSegment[g] = HeapSegment[h]
  BY <1>0 DEF PageInSync, FrameSync
<1>2. ASSUME NEW s \in Segments, op.size[s] > 0, op' = MakeResident(op, s) PROVE SyncInv'
  <2>1. /\ op'.kind = op.kind /\ op'.heap = op.heap /\ op'.list = op.list /\ op'.refs = op.refs
        /\ op'.used = op.used /\ op'.pageIn = op.pageIn /\ op'.size = op.size
        /\ op'.queue = op.queue /\ op'.retry = FALSE /\ op'.victims = {} /\ op'.pc = "evict"
        /\ op'.seg = s
    BY <1>0, <1>2 DEF MakeResident, FrameShape
  <2>2. \A t \in Segments : t # s => op.pageIn[t] = {}
    BY <1>1, <1>2
  <2>3. FrameSync' /\ PageInSync'
    BY <1>0, <2>1, <2>2 DEF FrameSync, PageInSync
  <2> QED
    BY <1>0, <2>1, <2>3, FrameStepSyncs
<1>3. ASSUME \A s \in Segments : ~(op.size[s] > 0), op' = [op EXCEPT !.pc = "made"] PROVE SyncInv'
  <2>1. /\ op'.kind = op.kind /\ op'.heap = op.heap /\ op'.list = op.list /\ op'.refs = op.refs
        /\ op'.used = op.used /\ op'.pageIn = op.pageIn /\ op'.size = op.size
        /\ op'.queue = op.queue /\ op'.retry = FALSE /\ op'.victims = {} /\ op'.pc = "made"
    BY <1>0, <1>3 DEF FrameShape
  <2>2. \A t \in Segments : op.pageIn[t] = {}
    BY <1>1, <1>3
  <2>3. FrameSync' /\ PageInSync'
    BY <1>0, <2>1, <2>2 DEF FrameSync, PageInSync
  <2> QED
    BY <1>0, <2>1, <2>2, <2>3, FrameStepSyncs
<1>4. Local \in Segments /\ NonLocal \in Segments /\ \A s \in Segments : s = Local \/ s = NonLocal
  BY DEF Segments
<1> QED
  BY <1>2, <1>3, <1>4 DEF ScanDone

(* The submission is of heaps that are tracked, hence counted.             *)
LEMMA SubmitSyncs ==
    ASSUME StructInv, StructInv', SyncInv, Submit
    PROVE  SyncInv'
<1> USE DEF SyncInv
<1>0. /\ op.kind = "exec" /\ op.pc = "made" /\ op' = Idle
      /\ UNCHANGED <<life, locks, lastUsed, cache, completed, resident>>
      /\ status' = [h \in Heaps |-> IF h \in op.used THEN "RESIDENT" ELSE status[h]]
      /\ gpuUse' = [h \in Heaps |-> IF op.queue /\ h \in op.refs THEN currentFence ELSE gpuUse[h]]
      /\ currentFence' = IF op.queue THEN currentFence + 1 ELSE currentFence
  BY DEF Submit
<1>1. op.list = <<>> /\ op.victims = {} /\ currentFence \in Nat
  BY <1>0 DEF FrameSync, StructInv, Shape
<1>2. \A h \in op.refs : h \in Heaps /\ life[h] = "live" /\ (locks[h] > 0 \/ lastUsed[h] = currentFence)
  BY <1>1 DEF ScanSync, Occurs, StructInv, OpInv, Shape, FrameShape
<1>3. \A h \in Heaps : ~Missing(h) /\ (Held(h) <=> Tracked(h))
  BY <1>0, <1>1 DEF Missing, Held
<1>4. FrameSync' /\ PageInSync' /\ ScanSync' /\ VictimSync' /\ \A h \in Heaps : ~Missing(h)'
  BY <1>0, IdleSync
<1>5. UseSync'
  BY <1>0, <1>1, SameTracked DEF UseSync
<1>6. StatusSync'
  BY <1>0, SameTracked DEF StatusSync
<1>7. CountSync'
  <2>1. \A h \in Heaps : life[h] = "live" =>
           /\ Tracked(h) => resident[h] >= 1
           /\ HeapKind[h] # "unknown" => resident[h] = IF Tracked(h) THEN 1 ELSE 0
    BY <1>3 DEF CountSync, Count
  <2> QED
    BY <1>0, <2>1, SameTracked, IdleCount DEF StructInv, Shape
<1>8. "unlockInFlight" \notin Behaviours => FlightSync'
  <2> SUFFICES ASSUME "unlockInFlight" \notin Behaviours, NEW h \in Heaps
               PROVE  /\ gpuUse'[h] \in Nat /\ gpuUse'[h] < currentFence'
                      /\ gpuUse'[h] > completed' =>
                            life'[h] = "live" /\ (locks'[h] > 0 \/ lastUsed'[h] >= gpuUse'[h])
    BY <1>0, <1>4 DEF FlightSync, InFlight
  <2>1. gpuUse[h] \in Nat /\ gpuUse[h] < currentFence
    BY DEF FlightSync
  <2>2. CASE op.queue /\ h \in op.refs
    BY <1>0, <1>1, <1>2, <2>2
  <2>3. CASE ~(op.queue /\ h \in op.refs)
    <3>1. gpuUse'[h] = gpuUse[h]
      BY <1>0, <2>3
    <3> QED
      BY <1>0, <1>1, <2>1, <3>1 DEF FlightSync, InFlight
  <2> QED
    BY <2>2, <2>3
<1>9. "noQueue" \notin Behaviours => OrderSync'
  <2> SUFFICES ASSUME "noQueue" \notin Behaviours PROVE OrderSync'
    OBVIOUS
  <2>1. currentFence' = currentFence + 1
    BY <1>0 DEF OrderSync
  <2>2. \A h \in Heaps : lastUsed'[h] # currentFence'
    BY <1>0, <1>1, <2>1 DEF StructInv, FenceInv, Shape
  <2>3. \A s \in Segments : \A i \in DOMAIN cache'[s] : cache'[s][i] \in Heaps
    BY DEF StructInv, Shape
  <2> QED
    BY <1>0, <2>2, <2>3, IdleShape DEF OrderSync
<1> QED
  BY <1>4, <1>5, <1>6, <1>7, <1>8, <1>9

-----------------------------------------------------------------------------
(* EvictInternal and MakeResident.                                         *)

(* The heaps used by the operation in progress are listed.                 *)
LEMMA UsedListed ==
    ASSUME StructInv, SyncInv
    PROVE  \A h \in op.used : IsInList(h)
<1> SUFFICES ASSUME NEW h \in op.used PROVE IsInList(h)
  OBVIOUS
<1>1. h \in Heaps /\ locks[h] = 0 /\ lastUsed[h] = currentFence
  BY DEF SyncInv, FrameSync, ScanSync, StructInv, Shape, FrameShape
<1>2. lastUsed[h] > completed
  BY <1>1 DEF SyncInv, UseSync, StructInv, Shape
<1> QED
  BY <1>1, <1>2 DEF SyncInv, UseSync, Tracked, IsResidencyLocked

(* ID3D12Device::Evict lowers the counts of the unlinked heaps, and        *)
(* EvictInternal returns.                                                  *)
LEMMA ReturnSyncs ==
    ASSUME StructInv, StructInv', SyncInv, NEW out, EvictReturns(out),
           op.pc \in {"evict", "loop"},
           UNCHANGED <<status, locks, lastUsed, cache, currentFence, completed, gpuUse>>,
           resident' = [h \in Heaps |-> IF h \in op.victims /\ resident[h] > 0
                                        THEN resident[h] - 1 ELSE resident[h]]
    PROVE  SyncInv'
<1> USE DEF SyncInv
<1>0. op \in FrameShape(op) /\ resident \in [Heaps -> Nat] /\ op.victims \subseteq Heaps
  BY DEF StructInv, Shape, FrameShape
<1>1. \A h \in op.victims : ~Tracked(h) /\ ~Missing(h)
  BY DEF VictimSync, Tracked, IsResidencyLocked, StructInv, OpInv
<1>2. \A h \in Heaps : Held(h) <=> Tracked(h) \/ h \in op.victims
  BY DEF Held
<1>3. ASSUME NEW h \in Heaps, life[h] = "live"
      PROVE  LET count == IF Tracked(h) /\ ~Missing(h) THEN 1 ELSE 0
             IN  resident'[h] >= count /\ (HeapKind[h] # "unknown" => resident'[h] = count)
  <2>1. /\ resident[h] >= Count(h)
        /\ HeapKind[h] # "unknown" => resident[h] = Count(h)
    BY <1>3 DEF CountSync
  <2>2. CASE h \in op.victims
    <3>1. Count(h) = 1 /\ ~Tracked(h)
      BY <1>1, <1>2, <2>2 DEF Count
    <3>2. resident'[h] = resident[h] - 1
      BY <1>0, <2>1, <2>2, <3>1
    <3> QED
      BY <1>0, <2>1, <3>1, <3>2
  <2>3. CASE h \notin op.victims
    <3>1. resident'[h] = resident[h] /\ Count(h) = IF Tracked(h) /\ ~Missing(h) THEN 1 ELSE 0
      BY <1>2, <2>3 DEF Count
    <3> QED
      BY <2>1, <3>1
  <2> QED
    BY <2>2, <2>3
<1>4. CASE op.kind = "ensure"
  <2> DEFINE g == op.heap
  <2>1. /\ op' = Idle /\ g \in Heaps /\ life[g] = "absent"
        /\ life' = [life EXCEPT ![g] = IF out >= op.bytes THEN "ensured" ELSE "absent"]
    BY <1>4 DEF EvictReturns, StructInv, OpInv
  <2> HIDE DEF g
  <2>2. \A h \in Heaps : (life'[h] = "live" <=> life[h] = "live") /\ ~Missing(h)
    BY <1>4, <2>1, HeapFacts DEF StructInv, Shape, Missing, PageInSync
  <2>3. FrameSync' /\ PageInSync' /\ ScanSync' /\ VictimSync' /\ \A h \in Heaps : ~Missing(h)'
    BY <2>1, IdleSync
  <2>4. op.used = {}
    BY <1>4 DEF FrameSync
  <2>5. UseSync' /\ StatusSync'
    BY <2>4, SameTracked DEF UseSync, StatusSync
  <2>6. CountSync'
    <3>1. \A h \in Heaps : life'[h] = "live" =>
             /\ Tracked(h)' => resident'[h] >= 1
             /\ HeapKind[h] # "unknown" => resident'[h] = IF Tracked(h)' THEN 1 ELSE 0
      BY <1>3, <2>2, SameTracked
    <3> QED
      BY <2>1, <3>1, IdleCount DEF StructInv, Shape
  <2>7. "unlockInFlight" \notin Behaviours => FlightSync'
    BY <2>2, <2>3 DEF FlightSync, InFlight
  <2>8. "noQueue" \notin Behaviours => OrderSync'
    BY <1>4, <2>1, IdleShape DEF OrderSync
  <2> QED
    BY <2>3, <2>5, <2>6, <2>7, <2>8
<1>5. CASE op.kind # "ensure"
  <2>1. life' = life /\ \E late : op' = [op EXCEPT !.pc = "device", !.need = 0, !.evicted = 0,
                                                  !.victims = {}, !.late = late]
    BY <1>5 DEF EvictReturns, GivesUp, FrameSync
  <2>2. /\ op'.kind = op.kind /\ op'.heap = op.heap /\ op'.list = op.list /\ op'.refs = op.refs
        /\ op'.used = op.used /\ op'.pageIn = op.pageIn /\ op'.size = op.size
        /\ op'.queue = op.queue /\ op'.retry = op.retry /\ op'.victims = {} /\ op'.pc = "device"
        /\ op'.seg = op.seg
    BY <1>0, <2>1 DEF FrameShape
  <2>3. FrameSync' /\ PageInSync' /\ ScanSync' /\ VictimSync'
    BY <1>5, <2>2 DEF FrameSync, PageInSync, ScanSync, VictimSync
  <2>4. \A h \in Heaps : (Missing(h)' <=> Missing(h)) /\ (Held(h)' <=> Tracked(h))
    BY <2>2, SameTracked DEF Missing, Held
  <2>5. UseSync' /\ StatusSync'
    BY <2>2, SameTracked DEF UseSync, StatusSync
  <2>6. CountSync'
    BY <1>3, <2>1, <2>4 DEF CountSync, Count
  <2>7. "unlockInFlight" \notin Behaviours => FlightSync'
    BY <2>1, <2>4 DEF FlightSync, InFlight
  <2>8. "noQueue" \notin Behaviours => OrderSync'
    BY <2>2 DEF OrderSync
  <2> QED
    BY <2>3, <2>5, <2>6, <2>7, <2>8
<1> QED
  BY <1>4, <1>5

(* EvictInternal returns early or begins its loop.                         *)
LEMMA EvictBeginSyncs ==
    ASSUME StructInv, StructInv', SyncInv, EvictBegin
    PROVE  SyncInv'
<1>0. /\ op.pc = "evict" /\ op \in FrameShape(op) /\ op.victims = {} /\ op.retry = FALSE
      /\ UNCHANGED <<status, locks, lastUsed, cache, currentFence, completed, resident, gpuUse>>
  BY DEF EvictBegin, device, SyncInv, FrameSync, StructInv, Shape
<1>1. \/ \E out : EvictReturns(out)
      \/ /\ UNCHANGED life
         /\ \E need : op' = [op EXCEPT !.pc = "loop", !.need = need, !.evicted = 0, !.victims = {},
                                          !.late = {}]
  BY DEF EvictBegin
<1>2. ASSUME NEW out, EvictReturns(out) PROVE SyncInv'
  <2>1. resident' = [h \in Heaps |-> IF h \in op.victims /\ resident[h] > 0
                                     THEN resident[h] - 1 ELSE resident[h]]
    BY <1>0 DEF StructInv, Shape
  <2> QED
    BY <1>0, <1>2, <2>1, ReturnSyncs
<1>3. ASSUME NEW need, UNCHANGED life,
             op' = [op EXCEPT !.pc = "loop", !.need = need, !.evicted = 0, !.victims = {},
                              !.late = {}]
      PROVE  SyncInv'
  <2>1. /\ op'.kind = op.kind /\ op'.heap = op.heap /\ op'.list = op.list /\ op'.refs = op.refs
        /\ op'.used = op.used /\ op'.pageIn = op.pageIn /\ op'.size = op.size
        /\ op'.queue = op.queue /\ op'.retry = FALSE /\ op'.victims = {} /\ op'.pc = "loop"
        /\ op'.seg = op.seg
    BY <1>0, <1>3 DEF FrameShape
  <2>2. FrameSync' /\ PageInSync'
    BY <1>0, <2>1 DEF SyncInv, FrameSync, PageInSync
  <2> QED
    BY <1>0, <1>3, <2>1, <2>2, FrameStepSyncs
<1> QED
  BY <1>1, <1>2, <1>3

(* EvictInternal picks a head.                                             *)
LEMMA EvictPicksSyncs ==
    ASSUME StructInv, SyncInv, EvictPicks
    PROVE  SyncInv'
<1> USE DEF SyncInv
<1> DEFINE h == Head(cache[op.seg])
<1>0. /\ op.pc = "loop" /\ op \in FrameShape(op)
      /\ op' = [op EXCEPT !.pc = "wait", !.head = h, !.fence = lastUsed[h]]
      /\ UNCHANGED <<life, status, locks, lastUsed, cache, currentFence, completed, resident, gpuUse>>
  BY DEF EvictPicks, heapVars, device, StructInv, Shape
<1> HIDE DEF h
<1>1. /\ op'.kind = op.kind /\ op'.heap = op.heap /\ op'.list = op.list /\ op'.refs = op.refs
      /\ op'.used = op.used /\ op'.pageIn = op.pageIn /\ op'.size = op.size
      /\ op'.queue = op.queue /\ op'.retry = op.retry /\ op'.victims = op.victims
      /\ op'.pc = "wait" /\ op'.seg = op.seg
  BY <1>0 DEF FrameShape
<1>2. \A g \in Heaps : /\ Missing(g)' <=> Missing(g)
                       /\ Held(g)' <=> Held(g)
                       /\ Count(g)' = Count(g)
  BY <1>0, <1>1, SameTracked DEF Missing, Held, Count
<1>3. FrameSync' /\ PageInSync' /\ ScanSync'
  BY <1>0, <1>1 DEF FrameSync, PageInSync, ScanSync
<1>4. VictimSync'
  <2>1. op.victims \subseteq Heaps
    BY DEF StructInv, Shape, FrameShape
  <2> QED
    BY <1>0, <1>1, <1>2, <2>1, SameTracked DEF VictimSync
<1>5. UseSync' /\ StatusSync' /\ CountSync'
  BY <1>0, <1>1, <1>2, SameTracked DEF UseSync, StatusSync, CountSync
<1>6. "unlockInFlight" \notin Behaviours => FlightSync'
  BY <1>0, <1>2 DEF FlightSync, InFlight
<1>7. "noQueue" \notin Behaviours => OrderSync'
  BY <1>0, <1>1 DEF OrderSync
<1> QED
  BY <1>3, <1>4, <1>5, <1>6, <1>7

(* EvictInternal unlinks a head that the GPU is done with.                 *)
LEMMA EvictHeadSyncs ==
    ASSUME StructInv, StructInv', SyncInv, EvictHead
    PROVE  SyncInv'
<1> USE DEF SyncInv
<1> DEFINE s == op.seg
           h == Head(cache[s])
<1>0. /\ op.pc = "wait" /\ cache[s] # <<>> /\ lastUsed[h] # currentFence /\ lastUsed[h] <= completed
      /\ cache' = [cache EXCEPT ![s] = Tail(@)]
      /\ status' = [status EXCEPT ![h] = "PENDING"]
      /\ op' = [op EXCEPT !.pc = "loop", !.evicted = @ + HeapSize[h], !.victims = @ \cup {h},
                          !.head = NoHeap, !.fence = 0, !.next = NoHeap]
      /\ UNCHANGED <<life, locks, lastUsed, currentFence, completed, resident, gpuUse>>
  BY EvictHeadStep DEF EvictHead, IsCompleted, device
<1>1. op \in FrameShape(op) /\ s \in Segments /\ op.victims \subseteq Heaps
  BY DEF StructInv, Shape, FrameShape
<1>2. cache[s] \in Seq(Heaps) /\ Injective(cache[s])
  BY <1>1, ListFacts
<1>3. h \in Heaps /\ Occurs(h, cache[s])
  BY <1>0, <1>2, TailOfList
<1>4. /\ \A g : Occurs(g, Tail(cache[s])) <=> g # h /\ Occurs(g, cache[s])
      /\ \A C : AtEnd(cache[s], C) => AtEnd(Tail(cache[s]), C)
  BY <1>0, <1>2, TailKeeps
<1> HIDE DEF h, s
<1>5. HeapSegment[h] = s /\ locks[h] = 0 /\ IsInList(h)
  <2>1. HeapSegment[h] = s /\ ~(locks[h] > 0)
    BY <1>1, <1>3 DEF StructInv, LRUWellFormed, Occurs, IsResidencyLocked
  <2>2. locks[h] \in Nat
    BY <1>3 DEF StructInv, Shape
  <2>3. IsInList(h)
    BY <1>3, <2>1 DEF IsInList, Occurs
  <2> QED
    BY <2>1, <2>2, <2>3
<1>6. \A t \in Segments : cache'[t] = IF t = s THEN Tail(cache[s]) ELSE cache[t]
  BY <1>0, <1>1 DEF StructInv, Shape
<1>7. \A g \in Heaps : IsInList(g)' <=> IsInList(g) /\ g # h
  <2> SUFFICES ASSUME NEW g \in Heaps
               PROVE  Occurs(g, cache'[HeapSegment[g]])
                        <=> Occurs(g, cache[HeapSegment[g]]) /\ g # h
    BY DEF IsInList, Occurs
  <2>1. HeapSegment[g] \in Segments
    BY HeapFacts
  <2>2. CASE HeapSegment[g] = s
    BY <1>4, <1>6, <2>1, <2>2
  <2>3. CASE HeapSegment[g] # s
    BY <1>5, <1>6, <2>1, <2>3
  <2> QED
    BY <2>2, <2>3
<1>8. /\ op'.kind = op.kind /\ op'.heap = op.heap /\ op'.list = op.list /\ op'.refs = op.refs
      /\ op'.used = op.used /\ op'.pageIn = op.pageIn /\ op'.size = op.size
      /\ op'.queue = op.queue /\ op'.retry = op.retry /\ op'.victims = op.victims \cup {h}
      /\ op'.pc = "loop" /\ op'.seg = op.seg
  BY <1>0, <1>1 DEF FrameShape
<1>9. \A g \in Heaps : Missing(g)' <=> Missing(g)
  BY <1>0, <1>8 DEF Missing
<1>10. ~Missing(h) /\ h \notin op.used
  <2>1. h \notin op.used
    BY <1>0 DEF ScanSync
  <2>2. op.kind = "lock" => op.heap # h
    BY <1>5 DEF StructInv, OpInv
  <2> QED
    BY <1>0, <1>1, <1>3, <2>1, <2>2, HeapFacts
    DEF Missing, PageInSync, FrameShape
<1>11. FrameSync' /\ PageInSync' /\ ScanSync'
  BY <1>0, <1>8 DEF FrameSync, PageInSync, ScanSync
<1>12. VictimSync'
  BY <1>1, <1>3, <1>7, <1>8, <1>9, <1>10 DEF VictimSync
<1>13. \A g \in Heaps : g # h => (Tracked(g)' <=> Tracked(g))
  BY <1>0, <1>7 DEF Tracked, IsResidencyLocked
<1>14. UseSync'
  BY <1>0, <1>3, <1>13 DEF UseSync, StructInv, Shape
<1>15. StatusSync'
  BY <1>0, <1>3, <1>5, <1>7, <1>8 DEF StatusSync
<1>16. CountSync'
  <2>1. \A g \in Heaps : Held(g)' <=> Held(g)
    BY <1>0, <1>5, <1>8, <1>13 DEF Held, Tracked
  <2> QED
    BY <1>0, <1>9, <2>1 DEF CountSync, Count
<1>17. "unlockInFlight" \notin Behaviours => FlightSync'
  BY <1>0, <1>9 DEF FlightSync, InFlight
<1>18. "noQueue" \notin Behaviours => OrderSync'
  <2> SUFFICES ASSUME "noQueue" \notin Behaviours PROVE OrderSync'
    OBVIOUS
  <2> DEFINE C == {g \in Heaps : lastUsed[g] = currentFence}
  <2>1. \A t \in Segments : AtEnd(cache[t], C)
    BY ListFacts DEF OrderSync, AtEnd
  <2>2. \A t \in Segments : AtEnd(cache'[t], C)
    BY <1>1, <1>4, <1>6, <2>1
  <2>3. \A t \in Segments : \A i \in DOMAIN cache'[t] : cache'[t][i] \in Heaps
    BY DEF StructInv, Shape
  <2> QED
    BY <1>0, <1>8, <2>2, <2>3 DEF OrderSync, AtEnd
<1> QED
  BY <1>11, <1>12, <1>14, <1>15, <1>16, <1>17, <1>18

(* ID3D12Device::Evict of the unlinked heaps.                              *)
LEMMA EvictEndSyncs ==
    ASSUME StructInv, StructInv', SyncInv, EvictEnd
    PROVE  SyncInv'
<1>1. /\ op.pc = "loop" /\ EvictReturns(op.evicted)
      /\ UNCHANGED <<status, locks, lastUsed, cache, currentFence, completed, gpuUse>>
      /\ resident' = [h \in Heaps |-> IF h \in op.victims /\ resident[h] > 0
                                      THEN resident[h] - 1 ELSE resident[h]]
  BY DEF EvictEnd
<1> QED
  BY <1>1, ReturnSyncs

(* ID3D12Device::MakeResident counts exactly the heaps that were missing.  *)
LEMMA PageInSyncs ==
    ASSUME StructInv, SyncInv, PageIn
    PROVE  SyncInv'
<1> USE DEF SyncInv
<1>0. /\ op.pc = "device" /\ op.kind \in {"lock", "exec"} /\ op.victims = {} /\ op \in FrameShape(op)
      /\ resident' = [h \in Heaps |-> IF h \in op.pageIn[op.seg] THEN resident[h] + 1 ELSE resident[h]]
      /\ op' = [op EXCEPT !.pc = "made", !.late = {}]
      /\ UNCHANGED <<life, status, locks, lastUsed, cache, currentFence, completed, gpuUse>>
      /\ resident \in [Heaps -> Nat]
  BY DEF PageIn, heapVars, FrameSync, StructInv, Shape, FrameShape
<1>1. /\ op'.kind = op.kind /\ op'.heap = op.heap /\ op'.list = op.list /\ op'.refs = op.refs
      /\ op'.used = op.used /\ op'.pageIn = op.pageIn /\ op'.size = op.size
      /\ op'.queue = op.queue /\ op'.retry = op.retry /\ op'.victims = {} /\ op'.pc = "made"
  BY <1>0 DEF FrameShape
<1>2. FrameSync' /\ PageInSync' /\ ScanSync' /\ VictimSync'
  BY <1>0, <1>1 DEF FrameSync, PageInSync, ScanSync, VictimSync
<1>3. \A h \in Heaps : Missing(h) <=> h \in op.pageIn[op.seg]
  <2> SUFFICES ASSUME NEW h \in Heaps
               PROVE  h \in op.pageIn[HeapSegment[h]] <=> h \in op.pageIn[op.seg]
    BY <1>0 DEF Missing
  <2>1. HeapSegment[h] \in Segments /\ op.seg \in Segments
    BY <1>0, HeapFacts DEF FrameShape
  <2> QED
    BY <1>0, <2>1 DEF PageInSync
<1>4. \A h \in Heaps : ~Missing(h)'
  BY <1>1 DEF Missing
<1>5. \A h \in Heaps : Held(h)' <=> Held(h) \/ Missing(h)
  <2> SUFFICES ASSUME NEW h \in Heaps PROVE Held(h)' <=> Held(h) \/ Missing(h)
    OBVIOUS
  <2>1. Held(h) <=> Tracked(h)
    BY <1>0 DEF Held
  <2>2. CASE op.kind = "lock"
    <3>1. Missing(h) <=> h = op.heap
      BY <1>0, <2>2 DEF Missing, PageInSync
    <3>2. Held(h)' <=> Tracked(h) \/ h = op.heap
      BY <1>0, <1>1, <2>2, SameTracked DEF Held
    <3> QED
      BY <2>1, <3>1, <3>2
  <2>3. CASE op.kind = "exec"
    <3>1. Missing(h) => h \in op.used
      BY <1>0, <2>3, HeapFacts DEF Missing, PageInSync
    <3>2. Missing(h) => Tracked(h)
      BY <3>1, UsedListed DEF Tracked
    <3>3. Held(h)' <=> Tracked(h)
      BY <1>0, <1>1, <2>3, SameTracked DEF Held
    <3> QED
      BY <2>1, <3>2, <3>3
  <2> QED
    BY <1>0, <2>2, <2>3
<1>6. CountSync'
  <2> SUFFICES ASSUME NEW h \in Heaps, life[h] = "live"
               PROVE  /\ resident'[h] >= Count(h)'
                      /\ HeapKind[h] # "unknown" => resident'[h] = Count(h)'
    BY <1>0 DEF CountSync
  <2>1. /\ resident[h] >= Count(h) /\ resident[h] \in Nat
        /\ HeapKind[h] # "unknown" => resident[h] = Count(h)
    BY <1>0 DEF CountSync
  <2>2. CASE Missing(h)
    <3>1. Count(h) = 0 /\ Count(h)' = 1 /\ resident'[h] = resident[h] + 1
      BY <1>0, <1>3, <1>4, <1>5, <2>2 DEF Count
    <3> QED
      BY <2>1, <3>1
  <2>3. CASE ~Missing(h)
    <3>1. Count(h)' = Count(h) /\ resident'[h] = resident[h]
      BY <1>0, <1>3, <1>4, <1>5, <2>3 DEF Count
    <3> QED
      BY <2>1, <3>1
  <2> QED
    BY <2>2, <2>3
<1>7. UseSync' /\ StatusSync'
  BY <1>0, <1>1, SameTracked DEF UseSync, StatusSync
<1>8. "unlockInFlight" \notin Behaviours => FlightSync'
  BY <1>0, <1>4 DEF FlightSync, InFlight
<1>9. "noQueue" \notin Behaviours => OrderSync'
  BY <1>0, <1>1 DEF OrderSync
<1> QED
  BY <1>2, <1>6, <1>7, <1>8, <1>9

(* Budget updates and completions on the GPU leave the manager's view      *)
(* alone.                                                                  *)
LEMMA OthersSync ==
    ASSUME StructInv, SyncInv,
           UNCHANGED <<life, status, locks, lastUsed, cache, currentFence, op, resident, gpuUse>>,
           completed' = completed \/ GpuCompletes
    PROVE  SyncInv'
<1> USE DEF SyncInv
<1>1. completed' \in Nat /\ completed' < currentFence /\ completed' >= completed
  <2>1. completed \in Nat /\ currentFence \in Nat /\ completed < currentFence
    BY DEF UseSync, StructInv, Shape
  <2> QED
    BY <2>1 DEF GpuCompletes, LastSignaledFence
<1>2. \A h \in Heaps : (Missing(h)' <=> Missing(h)) /\ (Held(h)' <=> Held(h)) /\ Count(h)' = Count(h)
  BY SameTracked DEF Missing, Held, Count
<1>3. FrameSync' /\ PageInSync' /\ ScanSync' /\ StatusSync' /\ CountSync'
  BY <1>2, SameTracked DEF FrameSync, PageInSync, ScanSync, StatusSync, CountSync
<1>4. VictimSync'
  <2>1. op.victims \subseteq Heaps
    BY DEF StructInv, Shape, FrameShape
  <2> QED
    BY <1>2, <2>1, SameTracked DEF VictimSync
<1>5. UseSync'
  <2>1. \A h \in Heaps : lastUsed[h] \in Nat
    BY DEF StructInv, Shape
  <2> QED
    BY <1>1, <2>1, SameTracked DEF UseSync
<1>6. "unlockInFlight" \notin Behaviours => FlightSync'
  <2> SUFFICES ASSUME "unlockInFlight" \notin Behaviours PROVE FlightSync'
    OBVIOUS
  <2>1. \A h \in Heaps : InFlight(h)' => InFlight(h)
    BY <1>1 DEF InFlight, FlightSync, UseSync
  <2> QED
    BY <1>2, <2>1 DEF FlightSync
<1>7. "noQueue" \notin Behaviours => OrderSync'
  BY DEF OrderSync
<1> QED
  BY <1>3, <1>4, <1>5, <1>6, <1>7

(* Steps that neither create heaps nor touch what they are.                *)
LEMMA CreatedKept ==
    ASSUME StructInv, StructInv', CreatedSync,
           \A h \in Heaps : life'[h] = "created" =>
              /\ life[h] = "created" /\ resident'[h] = resident[h]
              /\ status'[h] = status[h] \/ status'[h] = "RESIDENT",
           op'.victims \subseteq op.victims
    PROVE  CreatedSync'
<1>1. op.victims \subseteq Heaps
  BY DEF StructInv, Shape, FrameShape
<1> QED
  BY <1>1 DEF CreatedSync

(* A created heap stays as D3D12 has created it until it is inserted.      *)
LEMMA StepCreated ==
    ASSUME Orderly, StructInv, StructInv', SyncInv, CreatedSync, [Next]_vars
    PROVE  CreatedSync'
<1> DEFINE Kept == \A h \in Heaps : life'[h] = "created" =>
                      /\ life[h] = "created" /\ resident'[h] = resident[h]
                      /\ status'[h] = status[h] \/ status'[h] = "RESIDENT"
<1>1. ASSUME NEW h \in Heaps, CreatePageable(h) PROVE CreatedSync'
  <2>1. /\ HeapKind[h] \in {"resident", "unknown"} /\ h \notin op.victims
        /\ life' = [life EXCEPT ![h] = IF HeapKind[h] = "unknown" THEN "live" ELSE "created"]
        /\ status' = [status EXCEPT ![h] = StatusAtCreation(HeapKind[h])]
        /\ \E count \in CountAtCreation(HeapKind[h]) : resident' = [resident EXCEPT ![h] = count]
    BY <1>1, ResidencyAssumption DEF CreatePageable, Orderly, AllKinds
  <2>2. /\ HeapKind[h] = "resident" => status'[h] = "RESIDENT" /\ resident'[h] = 1
        /\ HeapKind[h] = "unknown" => life'[h] = "live"
        /\ \A g \in Heaps : g # h => /\ status'[g] = status[g] /\ resident'[g] = resident[g]
                                     /\ life'[g] = life[g]
    BY <2>1 DEF StatusAtCreation, CountAtCreation, StructInv, Shape, SyncInv, StatusSync
  <2>3. op'.victims = op.victims /\ op.victims \subseteq Heaps
    <3>1. PICK late \in SUBSET Heaps : op' = [op EXCEPT !.late = late]
      BY <1>1, CreatedFrame
    <3> QED
      BY <3>1 DEF StructInv, Shape, FrameShape
  <2> QED
    BY <2>1, <2>2, <2>3 DEF CreatedSync
<1>2. ASSUME NEW h \in Heaps, InsertCreated(h) \/ DestroyHeap(h) PROVE CreatedSync'
  <2>1. Kept
    BY <1>2 DEF InsertCreated, DestroyHeap, device, StructInv, Shape, SyncInv, StatusSync
  <2>2. op'.victims = op.victims
    <3>1. op' = op \/ \E n : op' = [op EXCEPT !.next = n]
      BY <1>2 DEF InsertCreated, DestroyHeap
    <3> QED
      BY <3>1 DEF StructInv, Shape, FrameShape
  <2> QED
    BY <2>1, <2>2, CreatedKept
<1>3. ASSUME UNCHANGED <<life, status, resident>>, op' = op PROVE CreatedSync'
  BY <1>3 DEF CreatedSync
<1>4. ASSUME UNCHANGED <<life, status, resident>>, op'.victims = {} PROVE CreatedSync'
  BY <1>4 DEF CreatedSync
<1>5. ASSUME NEW h \in Heaps, EnsureInBudget(h) \/ LockHeap(h) PROVE CreatedSync'
  <2>1. UNCHANGED <<life, status, resident>>
    BY <1>5 DEF EnsureInBudget, LockHeap, heapVars, device
  <2>2. CASE op' = op
    BY <1>3, <2>1, <2>2
  <2>3. CASE EnsureInBudget(h)
    <3>1. op'.victims = {}
      BY <2>3, IdleShape DEF EnsureInBudget, FrameShape
    <3> QED
      BY <1>4, <2>1, <3>1
  <2>4. CASE LockHeap(h) /\ op' # op
    <3>1. op'.victims = {}
      <4> DEFINE s == HeapSegment[h]
                 pages == [Idle.pageIn EXCEPT ![s] = {h}]
                 sizes == [Idle.size EXCEPT ![s] = HeapSize[h]]
      <4>1. op' = MakeResident([Idle EXCEPT !.kind = "lock", !.heap = h,
                                            !.pageIn = pages, !.size = sizes], s)
        BY <2>4, IdleShape DEF LockHeap, MakeResident, FrameShape
      <4> HIDE DEF pages, sizes, s
      <4> QED
        BY <4>1, IdleShape DEF MakeResident, FrameShape
    <3> QED
      BY <1>4, <2>1, <3>1
  <2> QED
    BY <1>5, <2>2, <2>3, <2>4
<1>6. ASSUME NEW h \in Heaps, UnlockHeap(h) PROVE CreatedSync'
  BY <1>3, <1>6 DEF UnlockHeap, device
<1>7. ASSUME NEW list \in ResidencyLists, NEW queue \in BOOLEAN, ExecuteCommandLists(list, queue)
      PROVE  CreatedSync'
  <2>1. op'.victims = {}
    BY <1>7, IdleShape DEF ExecuteCommandLists, FrameShape
  <2> QED
    BY <1>4, <1>7, <2>1 DEF ExecuteCommandLists, heapVars, device
<1>8. CASE FinishLock \/ Submit
  <2>1. Kept
    BY <1>8 DEF FinishLock, Submit, device, StructInv, Shape, SyncInv, StatusSync
  <2> QED
    BY <1>8, <2>1, IdleShape, CreatedKept DEF FinishLock, Submit
<1>9. op \in FrameShape(op) /\ resident \in [Heaps -> Nat]
  BY DEF StructInv, Shape
<1>10. ASSUME NEW out, EvictReturns(out),
              resident' = [h \in Heaps |-> IF h \in op.victims /\ resident[h] > 0
                                           THEN resident[h] - 1 ELSE resident[h]],
              status' = status
       PROVE  CreatedSync'
  <2>1. op'.victims = {}
    <3>1. op' = Idle \/ \E late : op' = [op EXCEPT !.pc = "device", !.need = 0, !.evicted = 0,
                                                   !.victims = {}, !.late = late]
      BY <1>10 DEF EvictReturns
    <3> QED
      BY <1>9, <3>1, IdleShape DEF FrameShape
  <2>2. life' = life \/ (op.heap \in Heaps /\
                         \E l \in {"ensured", "absent"} : life' = [life EXCEPT ![op.heap] = l])
    BY <1>10 DEF EvictReturns, StructInv, OpInv
  <2>3. \A h \in Heaps : life'[h] = "created" => life[h] = "created"
    BY <2>2 DEF StructInv, Shape
  <2>4. Kept
    BY <1>9, <1>10, <2>3 DEF CreatedSync
  <2> QED
    BY <2>1, <2>4, CreatedKept
<1>11. CASE EvictEnd
  BY <1>10, <1>11 DEF EvictEnd
<1>12. CASE EvictBegin
  <2>1. UNCHANGED <<status, resident>> /\ op.victims = {}
    BY <1>12 DEF EvictBegin, device, SyncInv, FrameSync
  <2>2. resident' = [h \in Heaps |-> IF h \in op.victims /\ resident[h] > 0
                                     THEN resident[h] - 1 ELSE resident[h]]
    BY <1>9, <2>1
  <2>3. \/ \E out : EvictReturns(out)
        \/ /\ UNCHANGED life
           /\ \E need : op' = [op EXCEPT !.pc = "loop", !.need = need, !.evicted = 0, !.victims = {},
                                         !.late = {}]
    BY <1>12 DEF EvictBegin
  <2>4. ASSUME NEW need, op' = [op EXCEPT !.pc = "loop", !.need = need, !.evicted = 0,
                                          !.victims = {}, !.late = {}]
        PROVE  op'.victims = {}
    BY <1>9, <2>4 DEF FrameShape
  <2> QED
    BY <1>4, <1>10, <2>1, <2>2, <2>3, <2>4
<1>13. CASE EvictHead
  <2> DEFINE h == Head(cache[op.seg])
  <2>1. /\ h \in Heaps /\ Occurs(h, cache[op.seg]) /\ op.seg \in Segments
        /\ status' = [status EXCEPT ![h] = "PENDING"] /\ UNCHANGED <<life, resident>>
        /\ op' = [op EXCEPT !.pc = "loop", !.evicted = @ + HeapSize[h], !.victims = @ \cup {h},
                            !.head = NoHeap, !.fence = 0, !.next = NoHeap]
    BY <1>13, EvictHeadStep DEF EvictHead, device
  <2> HIDE DEF h
  <2>2. life[h] = "live"
    BY <2>1 DEF StructInv, LRUWellFormed, Occurs
  <2>3. op'.victims = op.victims \cup {h} /\ \A g \in Heaps : g # h => status'[g] = status[g]
    BY <1>9, <2>1 DEF FrameShape, SyncInv, StatusSync
  <2> QED
    BY <2>1, <2>2, <2>3 DEF CreatedSync
<1>14. CASE PageIn
  <2>1. /\ op.seg \in Segments /\ UNCHANGED <<life, status>>
        /\ resident' = [h \in Heaps |-> IF h \in op.pageIn[op.seg] THEN resident[h] + 1 ELSE resident[h]]
        /\ op' = [op EXCEPT !.pc = "made", !.late = {}]
    BY <1>9, <1>14 DEF PageIn, heapVars, FrameShape
  <2>2. Kept
    <3> SUFFICES ASSUME NEW h \in Heaps, life[h] = "created" PROVE resident'[h] = resident[h]
      BY <2>1
    <3>1. h \notin op.pageIn[op.seg]
      BY <2>1, NotLiveApart
    <3> QED
      BY <2>1, <3>1
  <2>3. op'.victims = op.victims
    BY <1>9, <2>1 DEF FrameShape
  <2> QED
    BY <2>2, <2>3, CreatedKept
<1>15. CASE ScanHeap \/ ScanDone \/ EvictPicks
  <2>1. UNCHANGED <<life, status, resident>>
    BY <1>15 DEF ScanHeap, ScanDone, EvictPicks, heapVars, device
  <2>2. op'.victims = op.victims
    <3>1. CASE ScanHeap
      <4> DEFINE h == Head(op.list)
                 rest == Tail(op.list)
                 s == HeapSegment[h]
                 next == [op EXCEPT !.list = rest]
                 pages == [next.pageIn EXCEPT ![s] = @ \cup {h}]
                 sizes == [next.size EXCEPT ![s] = @ + HeapSize[h]]
      <4>1. \/ op' = next
            \/ op' = [next EXCEPT !.used = @ \cup {h}]
            \/ op' = [next EXCEPT !.used = @ \cup {h}, !.pageIn[s] = @ \cup {h}, !.size[s] = @ + HeapSize[h]]
        BY <3>1 DEF ScanHeap
      <4> HIDE DEF h, rest, s
      <4>2. \/ op' = next
            \/ op' = [next EXCEPT !.used = @ \cup {h}]
            \/ op' = [next EXCEPT !.used = @ \cup {h}, !.pageIn = pages, !.size = sizes]
        BY <1>9, <4>1 DEF FrameShape
      <4> HIDE DEF pages, sizes
      <4> QED
        BY <1>9, <4>2 DEF FrameShape
    <3>2. CASE ScanDone
      BY <1>9, <3>2 DEF ScanDone, MakeResident, FrameShape
    <3>3. CASE EvictPicks
      <4>1. \E h, fence : op' = [op EXCEPT !.pc = "wait", !.head = h, !.fence = fence]
        BY <3>3 DEF EvictPicks
      <4> QED
        BY <1>9, <4>1 DEF FrameShape
    <3> QED
      BY <1>15, <3>1, <3>2, <3>3
  <2> QED
    BY <2>1, <2>2 DEF CreatedSync
<1>16. ~PageInFails /\ ~OpFails
  BY DEF PageInFails, OpFails, Orderly
<1>17. CASE \/ BudgetWorkerUpdates \/ GpuCompletes \/ UNCHANGED vars
            \/ \E s \in Segments, bytes \in Reservations : SetVideoMemoryReservation(s, bytes)
            \/ \E s \in Segments : QueryVideoMemoryInfo(s)
            \/ \E s \in Segments, budget \in OsBudgets : OsChangesBudget(s, budget)
  BY <1>3, <1>17
     DEF BudgetWorkerUpdates, GpuCompletes, SetVideoMemoryReservation, QueryVideoMemoryInfo,
         OsChangesBudget, vars, heapVars, device
<1> QED
  BY <1>1, <1>2, <1>5, <1>6, <1>7, <1>8, <1>11, <1>12, <1>13, <1>14, <1>15, <1>16, <1>17
     DEF Next, ManagerStep

-----------------------------------------------------------------------------
(* Initially no heap has been created.                                     *)
LEMMA InitCreated == Init => CreatedSync
  BY IdleShape DEF Init, CreatedSync

(* Initially there is no heap.                                             *)
LEMMA InitSync == Init => SyncInv
<1> SUFFICES ASSUME Init PROVE SyncInv
  OBVIOUS
<1> USE DEF Init
<1>1. /\ op.kind = "none" /\ op.pc = "idle" /\ op.list = <<>> /\ op.refs = {} /\ op.used = {}
      /\ op.victims = {} /\ op.retry = FALSE /\ op.pageIn = [s \in Segments |-> {}]
      /\ op.size = [s \in Segments |-> 0]
  BY IdleShape, IdleRest
<1>2. FrameSync /\ PageInSync /\ ScanSync /\ VictimSync
  BY <1>1 DEF FrameSync, PageInSync, ScanSync, VictimSync
<1>3. UseSync /\ CountSync
  BY DEF UseSync, CountSync
<1>4. StatusSync
  BY HeapFacts DEF StatusSync, IsInList
<1>5. FlightSync /\ OrderSync
  BY <1>1 DEF FlightSync, OrderSync, InFlight
<1> QED
  BY <1>2, <1>3, <1>4, <1>5 DEF SyncInv

(* Every step keeps the manager and D3D12 in sync.                         *)
LEMMA StepSync ==
    ASSUME Orderly, StructInv, StructInv', SyncInv, CreatedSync, [Next]_vars
    PROVE  SyncInv'
<1>1. ASSUME NEW h \in Heaps,
             \/ EnsureInBudget(h) \/ CreatePageable(h) \/ InsertCreated(h) \/ DestroyHeap(h)
             \/ LockHeap(h) \/ UnlockHeap(h)
      PROVE  SyncInv'
  BY <1>1, EnsureSyncs, PageableSyncs, InsertSyncs, DestroySyncs, LockSyncs, UnlockSyncs
<1>2. ASSUME NEW list \in ResidencyLists, NEW queue \in BOOLEAN, ExecuteCommandLists(list, queue)
      PROVE  SyncInv'
  BY <1>2, ExecuteSyncs
<1>3. CASE ManagerStep
  BY <1>3, FinishLockSyncs, ScanSyncs, ScanDoneSyncs, SubmitSyncs, EvictBeginSyncs,
     EvictPicksSyncs, EvictHeadSyncs, EvictEndSyncs, PageInSyncs DEF ManagerStep
<1>4. ~PageInFails /\ ~OpFails
  BY DEF PageInFails, OpFails, Orderly
<1>5. ASSUME NEW s \in Segments,
             \/ \E bytes \in Reservations : SetVideoMemoryReservation(s, bytes)
             \/ QueryVideoMemoryInfo(s)
             \/ \E budget \in OsBudgets : OsChangesBudget(s, budget)
      PROVE  SyncInv'
  BY <1>5, OthersSync
     DEF SetVideoMemoryReservation, QueryVideoMemoryInfo, OsChangesBudget, heapVars, device
<1>6. CASE BudgetWorkerUpdates \/ GpuCompletes
  BY <1>6, OthersSync DEF BudgetWorkerUpdates, GpuCompletes, heapVars, device
<1>7. CASE UNCHANGED vars
  BY <1>7, OthersSync DEF vars, heapVars, device
<1> QED
  BY <1>1, <1>2, <1>3, <1>4, <1>5, <1>6, <1>7 DEF Next

-----------------------------------------------------------------------------
(* The manager and D3D12 stay in sync, whatever clients do short of mixed  *)
(* residency lists, as long as no call of the device or the OS fails.      *)
THEOREM InSync == ASSUME Orderly PROVE Spec => [](StructInv /\ SyncInv /\ CreatedSync)
<1>1. Init => StructInv /\ SyncInv /\ CreatedSync
  BY InitStruct, InitSync, InitCreated
<1>2. StructInv /\ SyncInv /\ CreatedSync /\ [Next]_vars => (StructInv /\ SyncInv /\ CreatedSync)'
  BY OrderlyClients, StepStruct, StepSync, StepCreated
<1> QED
  BY <1>1, <1>2, PTL DEF Spec

(* Between operations D3D12 counts a heap exactly once if the manager      *)
(* lists it or has it locked, and not at all otherwise.                    *)
THEOREM CountsAgree == ASSUME Orderly PROVE Spec => []RefcountInSync
<1>1. StructInv /\ SyncInv => RefcountInSync
  BY IdleFacts DEF RefcountInSync
<1> QED
  BY <1>1, InSync, PTL

(* A locked heap is resident, on the device and for the manager, in every  *)
(* step of every operation.                                                *)
THEOREM LockedStaysResident == ASSUME Orderly PROVE Spec => []LockedIsResident
<1>1. StructInv /\ SyncInv => LockedIsResident
  <2> SUFFICES ASSUME StructInv, SyncInv, NEW h \in Heaps, locks[h] > 0
               PROVE  resident[h] > 0 /\ status[h] = "RESIDENT"
    BY DEF LockedIsResident, IsResidencyLocked
  <2>1. status[h] = "RESIDENT" /\ life[h] = "live" /\ resident[h] >= Count(h) /\ resident[h] \in Nat
    BY DEF SyncInv, StatusSync, CountSync, StructInv, LocksInv, Shape
  <2>2. Held(h)
    BY DEF Held, Tracked, IsResidencyLocked
  <2>3. ~Missing(h)
    <3> SUFFICES ASSUME h \in op.pageIn[HeapSegment[h]] PROVE FALSE
      BY DEF Missing
    <3>1. HeapSegment[h] \in Segments
      BY HeapFacts
    <3>2. op.kind \in {"none", "ensure", "lock", "exec"}
      BY DEF StructInv, Shape, FrameShape
    <3>3. op.kind = "lock" => h = op.heap
      BY DEF SyncInv, PageInSync
    <3>4. op.kind = "exec" => h \in op.used
      BY <3>1 DEF SyncInv, PageInSync
    <3>5. op.kind \in {"lock", "exec"}
      BY <3>1, <3>2 DEF SyncInv, PageInSync
    <3> QED
      BY <3>3, <3>4, <3>5 DEF SyncInv, ScanSync, StructInv, OpInv
  <2> QED
    BY <2>1, <2>2, <2>3 DEF Count
<1> QED
  BY <1>1, InSync, PTL

(* If clients keep a heap locked until the GPU is done with it, or do not  *)
(* lock it at all, the GPU never uses a heap that is not resident.         *)
THEOREM GpuUsesResidentHeaps ==
    ASSUME Orderly, "unlockInFlight" \notin Behaviours
    PROVE  Spec => []InFlightIsResident
<1>1. StructInv /\ SyncInv => InFlightIsResident
  <2> SUFFICES ASSUME StructInv, SyncInv, NEW h \in Heaps, InFlight(h)
               PROVE  resident[h] > 0
    BY DEF InFlightIsResident
  <2>1. /\ life[h] = "live" /\ ~Missing(h) /\ gpuUse[h] \in Nat
        /\ locks[h] > 0 \/ lastUsed[h] >= gpuUse[h]
    BY DEF SyncInv, FlightSync
  <2>2. Tracked(h)
    <3>1. CASE locks[h] > 0
      BY <3>1 DEF Tracked, IsResidencyLocked
    <3>2. CASE lastUsed[h] >= gpuUse[h]
      <4>1. lastUsed[h] > completed
        BY <2>1, <3>2 DEF InFlight, SyncInv, UseSync, StructInv, Shape
      <4> QED
        BY <4>1 DEF SyncInv, UseSync
    <3> QED
      BY <2>1, <3>1, <3>2
  <2>3. resident[h] >= Count(h) /\ resident[h] \in Nat
    BY <2>1 DEF SyncInv, CountSync, StructInv, Shape
  <2> QED
    BY <2>1, <2>2, <2>3 DEF Count, Held
<1> QED
  BY <1>1, InSync, PTL

(* If every submission signals a queue, EvictInternal gives up at a head   *)
(* only when the whole list is used by the current submission.             *)
THEOREM NothingPassedOver ==
    ASSUME Orderly, "noQueue" \notin Behaviours
    PROVE  Spec => []ThrashOnlyWhenAllUsed
<1>1. StructInv /\ SyncInv => ThrashOnlyWhenAllUsed
  <2> SUFFICES ASSUME StructInv, SyncInv, NEW s \in Segments, cache[s] # <<>>,
                      lastUsed[Head(cache[s])] = currentFence, NEW i \in DOMAIN cache[s]
               PROVE  lastUsed[cache[s][i]] = currentFence
    BY DEF ThrashOnlyWhenAllUsed
  <2>1. cache[s] \in Seq(Heaps)
    BY ListFacts
  <2>2. Head(cache[s]) = cache[s][1] /\ 1 \in DOMAIN cache[s] /\ (i = 1 \/ 1 < i)
    BY <2>1
  <2> QED
    BY <2>2 DEF SyncInv, OrderSync
<1> QED
  BY <1>1, InSync, PTL

-----------------------------------------------------------------------------
(* The statistics.                                                         *)

(* The number of heaps and the sum of their sizes fit in the integers of   *)
(* the code.                                                               *)
FitsInWord == Cardinality(Heaps) < Word /\ SumOver(HeapSize, Heaps) < Word

LockedHeaps == {h \in Heaps : locks[h] > 0}

(* mStats counts the locked heaps.                                         *)
CountsLocked ==
    stats = [count |-> Cardinality(LockedHeaps), usage |-> SumOver(HeapSize, LockedHeaps)]

(* A heap that is resident for the manager is locked or listed.            *)
ResidentTracked == \A h \in Heaps : life[h] = "live" /\ status[h] = "RESIDENT" => Tracked(h)

StatInv == CountsLocked /\ ResidentTracked

(* Any set of heaps fits in the integers of the code.                      *)
LEMMA SetFits ==
    ASSUME FitsInWord, NEW S, S \subseteq Heaps
    PROVE  /\ IsFiniteSet(S) /\ Cardinality(S) \in Nat /\ Cardinality(S) < Word
           /\ SumOver(HeapSize, S) \in Nat /\ SumOver(HeapSize, S) < Word
<1>1. IsFiniteSet(S) /\ Cardinality(S) <= Cardinality(Heaps) /\ Cardinality(S) \in Nat
      /\ Cardinality(Heaps) \in Nat
  BY SizeFacts, FS_Subset, FS_CardinalityType
<1>2. SumOver(HeapSize, S) \in Nat /\ SumOver(HeapSize, Heaps) \in Nat
      /\ SumOver(HeapSize, S) <= SumOver(HeapSize, Heaps)
  BY SizeFacts, SumWithin
<1> QED
  BY <1>1, <1>2, SizeFacts DEF FitsInWord

(* One heap more.                                                          *)
LEMMA OneMore ==
    ASSUME FitsInWord, NEW S, S \subseteq Heaps, NEW h \in Heaps, h \notin S
    PROVE  /\ Cardinality(S \cup {h}) = Cardinality(S) + 1
           /\ SumOver(HeapSize, S \cup {h}) = SumOver(HeapSize, S) + HeapSize[h]
           /\ (Cardinality(S) + 1) % Word = Cardinality(S) + 1
           /\ (SumOver(HeapSize, S) + HeapSize[h]) % Word = SumOver(HeapSize, S) + HeapSize[h]
<1>1. PICK T : T = S \cup {h} /\ T \subseteq Heaps
  OBVIOUS
<1>2. /\ IsFiniteSet(S) /\ Cardinality(S) \in Nat /\ SumOver(HeapSize, S) \in Nat
      /\ Cardinality(T) \in Nat /\ Cardinality(T) < Word
      /\ SumOver(HeapSize, T) \in Nat /\ SumOver(HeapSize, T) < Word
  BY <1>1, SetFits
<1>3. Cardinality(T) = Cardinality(S) + 1
  BY <1>1, <1>2, FS_AddElement
<1>4. \A x \in S \cup {h} : HeapSize[x] \in Int
  BY SizeFacts
<1>5. SumOver(HeapSize, T) = SumOver(HeapSize, S) + HeapSize[h]
  BY <1>1, <1>2, <1>4, SumAdd
<1>6. \A n \in Nat : n < Word => n % Word = n
  BY SizeFacts
<1> QED
  BY <1>1, <1>2, <1>3, <1>5, <1>6

(* Locking a heap that is not locked adds it to mStats.                    *)
LEMMA LockCounted ==
    ASSUME FitsInWord, StructInv, CountsLocked, NEW h \in Heaps, locks[h] = 0,
           locks' = [locks EXCEPT ![h] = @ + 1], stats' = AddStats(1, h)
    PROVE  CountsLocked'
<1>1. locks \in [Heaps -> Nat]
  BY DEF StructInv, Shape
<1> DEFINE S == LockedHeaps
<1>2. S \subseteq Heaps /\ h \notin S
  BY DEF LockedHeaps
<1>3. LockedHeaps' = S \cup {h}
  BY <1>1 DEF LockedHeaps
<1>4. stats.count = Cardinality(S) /\ stats.usage = SumOver(HeapSize, S)
  BY DEF CountsLocked
<1> HIDE DEF S
<1>5. PICK n \in Nat, u \in Nat : n = Cardinality(S) /\ u = SumOver(HeapSize, S)
  BY <1>2, SetFits
<1>6. (n + 1) % Word = Cardinality(S \cup {h}) /\ (u + HeapSize[h]) % Word = SumOver(HeapSize, S \cup {h})
  BY <1>2, <1>5, OneMore
<1>7. 1 * HeapSize[h] = HeapSize[h]
  BY SizeFacts
<1>8. stats' = [count |-> (n + 1) % Word, usage |-> (u + HeapSize[h]) % Word]
  BY <1>4, <1>5, <1>7 DEF AddStats
<1> QED
  BY <1>3, <1>6, <1>8 DEF CountsLocked

(* The last unlock takes the heap out of mStats.                           *)
LEMMA UnlockCounted ==
    ASSUME FitsInWord, StructInv, CountsLocked, NEW h \in Heaps, locks[h] = 1,
           locks' = [locks EXCEPT ![h] = @ - 1], stats' = AddStats(-1, h)
    PROVE  CountsLocked'
<1>1. locks \in [Heaps -> Nat]
  BY DEF StructInv, Shape
<1> DEFINE S == LockedHeaps'
<1>2. S \subseteq Heaps /\ h \notin S
  BY <1>1 DEF LockedHeaps
<1>3. LockedHeaps = S \cup {h}
  BY <1>1 DEF LockedHeaps
<1>4. PICK n \in Nat, u \in Nat, z \in Nat :
         /\ n = Cardinality(S) /\ u = SumOver(HeapSize, S) /\ n < Word /\ u < Word
         /\ z = HeapSize[h]
  BY <1>2, SetFits, SizeFacts
<1>5. stats.count = n + 1 /\ stats.usage = u + z
  BY <1>2, <1>3, <1>4, OneMore DEF CountsLocked
<1>6. \A k \in Nat : k < Word => k % Word = k
  BY SizeFacts
<1>7. (n + 1 + (-1)) % Word = n /\ (u + z + (-1) * z) % Word = u
  <2>1. n + 1 + (-1) = n /\ u + z + (-1) * z = u
    BY <1>4
  <2> QED
    BY <1>4, <1>6, <2>1
<1>8. stats' = [count |-> n, usage |-> u]
  BY <1>4, <1>5, <1>7 DEF AddStats
<1> QED
  BY <1>4, <1>8 DEF CountsLocked

(* Steps that lock no heap and unlock none.                                *)
LEMMA CountsKept ==
    ASSUME CountsLocked, UNCHANGED stats, \A h \in Heaps : locks'[h] > 0 <=> locks[h] > 0
    PROVE  CountsLocked'
<1>1. LockedHeaps' = LockedHeaps
  BY DEF LockedHeaps
<1> QED
  BY <1>1 DEF CountsLocked

(* Steps that lock, list and make resident nothing, and take nothing away. *)
LEMMA StatKept ==
    ASSUME StatInv, UNCHANGED <<stats, locks, status>>,
           \A h \in Heaps : life'[h] = "live" => life[h] = "live",
           \A h \in Heaps : life'[h] = "live" /\ Tracked(h) => Tracked(h)'
    PROVE  StatInv'
<1>1. CountsLocked'
  BY CountsKept DEF StatInv
<1> QED
  BY <1>1 DEF StatInv, ResidentTracked

(* A heap that is live as soon as D3D12 has created it is not resident for *)
(* the manager.                                                            *)
LEMMA PageableCounts ==
    ASSUME Orderly, StructInv, StatInv, NEW h \in Heaps, CreatePageable(h),
           status \in [Heaps -> {"UNKNOWN", "PENDING", "RESIDENT"}]
    PROVE  StatInv'
<1>0. /\ HeapKind[h] \in {"resident", "unknown"} /\ UNCHANGED <<locks, stats, cache>>
      /\ life' = [life EXCEPT ![h] = IF HeapKind[h] = "unknown" THEN "live" ELSE "created"]
      /\ status' = [status EXCEPT ![h] = StatusAtCreation(HeapKind[h])]
  BY ResidencyAssumption DEF CreatePageable, Orderly, AllKinds
<1>1. /\ life'[h] = "live" => status'[h] = "UNKNOWN"
      /\ \A g \in Heaps : g # h => life'[g] = life[g] /\ status'[g] = status[g]
  BY <1>0 DEF StatusAtCreation, StructInv, Shape
<1>2. CountsLocked'
  BY <1>0, CountsKept DEF StatInv
<1>3. \A g \in Heaps : Tracked(g)' <=> Tracked(g)
  BY <1>0, SameTracked
<1> QED
  BY <1>1, <1>2, <1>3 DEF StatInv, ResidentTracked

(* InsertHeap lists the heap that becomes live.                            *)
LEMMA InsertCounts ==
    ASSUME StructInv, StatInv, NEW h \in Heaps, InsertCreated(h)
    PROVE  StatInv'
<1>0. /\ life[h] # "live" /\ life' = [life EXCEPT ![h] = "live"]
      /\ cache' = InsertHeap(cache, h) /\ UNCHANGED <<locks, stats, status>>
  BY DEF InsertCreated
<1>1. \A t \in Segments : ~Occurs(h, cache[t])
  BY <1>0, NotLiveUnused
<1>2. \A g \in Heaps : Occurs(g, cache'[HeapSegment[g]]) <=> g = h \/ Occurs(g, cache[HeapSegment[g]])
  BY <1>0, <1>1, ListFacts, InsertedMembers
<1>3. \A g \in Heaps : Tracked(g) \/ g = h => Tracked(g)'
  BY <1>0, <1>2 DEF Tracked, IsResidencyLocked, IsInList, Occurs
<1>4. CountsLocked'
  BY <1>0, CountsKept DEF StatInv
<1>5. \A g \in Heaps : g # h => life'[g] = life[g]
  BY <1>0 DEF StructInv, Shape
<1> QED
  BY <1>0, <1>3, <1>4, <1>5 DEF StatInv, ResidentTracked

(* DestroyHeap unlinks a heap that is not locked.                          *)
LEMMA DestroyCounts ==
    ASSUME StructInv, StatInv, NEW h \in Heaps, DestroyHeap(h),
           status \in [Heaps -> {"UNKNOWN", "PENDING", "RESIDENT"}]
    PROVE  StatInv'
<1>0. /\ cache' = RemoveFromList(h) /\ UNCHANGED <<locks, stats>>
      /\ life' = [life EXCEPT ![h] = "absent"] /\ status' = [status EXCEPT ![h] = "UNKNOWN"]
  BY DEF DestroyHeap
<1>1. \A g \in Heaps : IsInList(g) /\ g # h => IsInList(g)'
  BY <1>0, RemovedMembers DEF IsInList, Occurs
<1>2. CountsLocked'
  BY <1>0, CountsKept DEF StatInv
<1>3. ASSUME NEW g \in Heaps, life'[g] = "live", status'[g] = "RESIDENT" PROVE Tracked(g)'
  <2>1. g # h /\ life[g] = "live" /\ status[g] = "RESIDENT"
    BY <1>0, <1>3 DEF StructInv, Shape
  <2> QED
    BY <1>0, <1>1, <2>1 DEF StatInv, ResidentTracked, Tracked, IsResidencyLocked
<1> QED
  BY <1>2, <1>3 DEF StatInv, ResidentTracked

(* LockHeap moves a listed heap from the list to mStats.                   *)
LEMMA LockCounts ==
    ASSUME FitsInWord, StructInv, SyncInv, StatInv, NEW h \in Heaps, LockHeap(h)
    PROVE  StatInv'
<1>0. op = Idle /\ UNCHANGED <<life, status>>
  BY DEF LockHeap
<1>1. CASE MustPageIn(h)
  <2>1. UNCHANGED <<locks, cache, stats>>
    BY <1>1 DEF LockHeap
  <2> QED
    BY <1>0, <2>1, SameTracked, StatKept
<1>2. CASE ~MustPageIn(h)
  <2>0. /\ locks' = [locks EXCEPT ![h] = @ + 1] /\ cache' = RemoveFromList(h)
        /\ stats' = IF IsInList(h) /\ status[h] = "RESIDENT" THEN AddStats(1, h) ELSE stats
        /\ IsInList(h) \/ locks[h] > 0
    BY <1>2 DEF LockHeap, MustPageIn, IsResidencyLocked
  <2>1. locks'[h] > 0 /\ \A g \in Heaps : g # h => locks'[g] = locks[g]
    BY <2>0 DEF StructInv, Shape
  <2>2. \A g \in Heaps : IsInList(g) /\ g # h => IsInList(g)'
    BY <2>0, RemovedMembers DEF IsInList, Occurs
  <2>3. \A g \in Heaps : Tracked(g) => Tracked(g)'
    BY <2>1, <2>2 DEF Tracked, IsResidencyLocked
  <2>4. CountsLocked'
    <3>1. CASE IsInList(h)
      <4>1. locks[h] = 0 /\ status[h] = "RESIDENT"
        BY <1>0, <3>1, IdleFacts, HeapFacts
           DEF StructInv, LRUWellFormed, IsInList, Shape, IsResidencyLocked
      <4> QED
        BY <2>0, <3>1, <4>1, LockCounted DEF StatInv
    <3>2. CASE ~IsInList(h)
      BY <2>0, <2>1, <3>2, CountsKept DEF StatInv
    <3> QED
      BY <3>1, <3>2
  <2> QED
    BY <1>0, <2>3, <2>4 DEF StatInv, ResidentTracked
<1> QED
  BY <1>1, <1>2

(* LockHeap counts the heap it has paged in.                               *)
LEMMA FinishLockCounts ==
    ASSUME FitsInWord, StructInv, SyncInv, StatInv, FinishLock
    PROVE  StatInv'
<1> DEFINE h == op.heap
<1>0. /\ UNCHANGED <<life, cache>> /\ stats' = AddStats(1, h)
      /\ status' = [status EXCEPT ![h] = "RESIDENT"] /\ locks' = [locks EXCEPT ![h] = @ + 1]
      /\ h \in Heaps /\ locks[h] = 0
  BY DEF FinishLock, StructInv, OpInv
<1> HIDE DEF h
<1>1. CountsLocked'
  BY <1>0, LockCounted DEF StatInv
<1>2. locks'[h] > 0 /\ \A g \in Heaps : g # h => locks'[g] = locks[g] /\ status'[g] = status[g]
  BY <1>0 DEF StructInv, Shape, SyncInv, StatusSync
<1> QED
  BY <1>0, <1>1, <1>2 DEF StatInv, ResidentTracked, Tracked, IsResidencyLocked, IsInList

(* UnlockHeap moves a heap from mStats to the list.                        *)
LEMMA UnlockCounts ==
    ASSUME FitsInWord, StructInv, SyncInv, StatInv, NEW h \in Heaps, UnlockHeap(h)
    PROVE  StatInv'
<1>0. /\ UNCHANGED <<life, status>> /\ locks' = [locks EXCEPT ![h] = @ - 1] /\ locks[h] > 0
      /\ locks[h] > 1 => UNCHANGED <<cache, stats>>
      /\ ~(locks[h] > 1) => cache' = InsertHeap(cache, h) /\ stats' = AddStats(-1, h)
  BY DEF UnlockHeap, IsResidencyLocked
<1>1. /\ \A g \in Heaps : g # h => locks'[g] = locks[g]
      /\ locks[h] > 1 => locks'[h] > 0
      /\ ~(locks[h] > 1) => locks[h] = 1
  BY <1>0 DEF StructInv, Shape
<1>2. CASE locks[h] > 1
  <2>1. CountsLocked'
    BY <1>0, <1>1, <1>2, CountsKept DEF StatInv
  <2> QED
    BY <1>0, <1>1, <1>2, <2>1 DEF StatInv, ResidentTracked, Tracked, IsResidencyLocked, IsInList
<1>3. CASE ~(locks[h] > 1)
  <2>1. CountsLocked'
    BY <1>0, <1>1, <1>3, UnlockCounted DEF StatInv
  <2>2. \A t \in Segments : ~Occurs(h, cache[t])
    BY <1>0 DEF StructInv, LRUWellFormed, Occurs, IsResidencyLocked
  <2>3. \A g \in Heaps : Occurs(g, cache'[HeapSegment[g]]) <=> g = h \/ Occurs(g, cache[HeapSegment[g]])
    BY <1>0, <1>3, <2>2, ListFacts, InsertedMembers
  <2>4. \A g \in Heaps : Tracked(g) => Tracked(g)'
    BY <1>1, <2>3 DEF Tracked, IsResidencyLocked, IsInList, Occurs
  <2> QED
    BY <1>0, <2>1, <2>4 DEF StatInv, ResidentTracked
<1> QED
  BY <1>2, <1>3

(* ExecuteCommandLists lists the heaps it scans.                           *)
LEMMA ScanCounts ==
    ASSUME StructInv, StatInv, ScanHeap
    PROVE  StatInv'
<1> DEFINE h == Head(op.list)
<1>0. /\ UNCHANGED <<life, status, locks, stats>>
      /\ op.list # <<>> /\ op.list \in Seq(Heaps)
      /\ UNCHANGED cache \/ cache' = InsertHeap(RemoveFromList(h), h)
  BY DEF ScanHeap, StructInv, Shape, FrameShape
<1>1. h \in Heaps
  BY <1>0
<1> HIDE DEF h
<1>2. CASE UNCHANGED cache
  BY <1>0, <1>2, SameTracked, StatKept
<1>3. CASE cache' = InsertHeap(RemoveFromList(h), h)
  <2>1. /\ RemoveFromList(h) \in [Segments -> Seq(Heaps)]
        /\ \A t \in Segments : ~Occurs(h, RemoveFromList(h)[t])
    BY <1>1, RemovedFromLists
  <2>2. \A g \in Heaps : Occurs(g, cache'[HeapSegment[g]])
                           <=> g = h \/ Occurs(g, RemoveFromList(h)[HeapSegment[g]])
    BY <1>1, <1>3, <2>1, InsertedMembers
  <2>3. \A g \in Heaps : IsInList(g) => IsInList(g)'
    BY <1>1, <2>2, RemovedMembers DEF IsInList, Occurs
  <2> QED
    BY <1>0, <2>3, StatKept DEF Tracked, IsResidencyLocked
<1> QED
  BY <1>0, <1>2, <1>3

(* The heaps a submission marks resident are listed.                       *)
LEMMA SubmitCounts ==
    ASSUME StructInv, SyncInv, StatInv, Submit
    PROVE  StatInv'
<1>0. /\ UNCHANGED <<life, locks, cache, stats>>
      /\ \A h \in Heaps : status'[h] = IF h \in op.used THEN "RESIDENT" ELSE status[h]
  BY DEF Submit
<1>1. CountsLocked'
  BY <1>0, CountsKept DEF StatInv
<1>2. \A h \in op.used : Tracked(h)
  BY UsedListed DEF Tracked
<1> QED
  BY <1>0, <1>1, <1>2, SameTracked DEF StatInv, ResidentTracked

(* EvictInternal unlinks a heap and marks it pending.                      *)
LEMMA EvictHeadCounts ==
    ASSUME StructInv, SyncInv, StatInv, EvictHead
    PROVE  StatInv'
<1> DEFINE s == op.seg
           h == Head(cache[s])
<1>0. /\ cache[s] # <<>> /\ cache' = [cache EXCEPT ![s] = Tail(@)]
      /\ status' = [status EXCEPT ![h] = "PENDING"] /\ UNCHANGED <<life, locks, stats>>
  BY EvictHeadStep DEF EvictHead
<1>1. s \in Segments
  BY DEF StructInv, Shape, FrameShape
<1>2. cache[s] \in Seq(Heaps) /\ Injective(cache[s])
  BY <1>1, ListFacts
<1>3. \A g : Occurs(g, Tail(cache[s])) <=> g # h /\ Occurs(g, cache[s])
  BY <1>0, <1>2, TailKeeps
<1> HIDE DEF h, s
<1>4. \A t \in Segments : cache'[t] = IF t = s THEN Tail(cache[s]) ELSE cache[t]
  BY <1>0, <1>1 DEF StructInv, Shape
<1>5. \A g \in Heaps : IsInList(g) /\ g # h => IsInList(g)'
  <2> SUFFICES ASSUME NEW g \in Heaps, Occurs(g, cache[HeapSegment[g]]), g # h
               PROVE  Occurs(g, cache'[HeapSegment[g]])
    BY DEF IsInList, Occurs
  <2> QED
    BY <1>3, <1>4, HeapFacts
<1>6. \A g \in Heaps : status'[g] = "RESIDENT" => g # h /\ status[g] = "RESIDENT"
  BY <1>0 DEF SyncInv, StatusSync
<1>7. CountsLocked'
  BY <1>0, CountsKept DEF StatInv
<1> QED
  BY <1>0, <1>5, <1>6, <1>7 DEF StatInv, ResidentTracked, Tracked, IsResidencyLocked

(* Every step keeps the counts exact.                                      *)
LEMMA StepStat ==
    ASSUME Orderly, FitsInWord, StructInv, SyncInv, StatInv, [Next]_vars
    PROVE  StatInv'
<1>0. status \in [Heaps -> {"UNKNOWN", "PENDING", "RESIDENT"}]
  BY DEF SyncInv, StatusSync
<1>1. ASSUME UNCHANGED <<life, stats, locks, status, cache>> PROVE StatInv'
  BY <1>1, SameTracked, StatKept
<1>2. ASSUME NEW h \in Heaps, EnsureInBudget(h) PROVE StatInv'
  BY <1>1, <1>2 DEF EnsureInBudget, heapVars
<1>3. ASSUME NEW h \in Heaps,
             CreatePageable(h) \/ InsertCreated(h) \/ DestroyHeap(h) \/ LockHeap(h) \/ UnlockHeap(h)
      PROVE  StatInv'
  BY <1>0, <1>3, PageableCounts, InsertCounts, DestroyCounts, LockCounts, UnlockCounts
<1>4. ASSUME NEW list, NEW queue, ExecuteCommandLists(list, queue) PROVE StatInv'
  BY <1>1, <1>4 DEF ExecuteCommandLists, heapVars
<1>5. CASE FinishLock \/ ScanHeap \/ Submit \/ EvictHead
  BY <1>5, FinishLockCounts, ScanCounts, SubmitCounts, EvictHeadCounts
<1>6. CASE ScanDone \/ EvictPicks \/ PageIn
  BY <1>1, <1>6 DEF ScanDone, EvictPicks, PageIn, heapVars
<1>7. CASE EvictBegin \/ EvictEnd
  <2>1. UNCHANGED <<stats, locks, status, cache>>
    BY <1>7 DEF EvictBegin, EvictEnd
  <2>2. \A h \in Heaps : life'[h] = "live" => life[h] = "live"
    <3>1. CASE UNCHANGED life
      BY <3>1
    <3>2. CASE \E x \in {"ensured", "absent"} : life' = [life EXCEPT ![op.heap] = x]
      BY <3>2 DEF StructInv, Shape
    <3> QED
      BY <1>7, <3>1, <3>2 DEF EvictBegin, EvictEnd, EvictReturns
  <2> QED
    BY <2>1, <2>2, SameTracked, StatKept
<1>8. ~PageInFails /\ ~OpFails
  BY DEF PageInFails, OpFails, Orderly
<1>9. ASSUME NEW s \in Segments,
             \/ \E bytes \in Reservations : SetVideoMemoryReservation(s, bytes)
             \/ QueryVideoMemoryInfo(s)
             \/ \E budget \in OsBudgets : OsChangesBudget(s, budget)
      PROVE  StatInv'
  BY <1>1, <1>9 DEF SetVideoMemoryReservation, QueryVideoMemoryInfo, OsChangesBudget, heapVars
<1>10. CASE BudgetWorkerUpdates \/ GpuCompletes \/ UNCHANGED vars
  BY <1>1, <1>10 DEF BudgetWorkerUpdates, GpuCompletes, vars, heapVars
<1> QED
  BY <1>2, <1>3, <1>4, <1>5, <1>6, <1>7, <1>8, <1>9, <1>10 DEF Next, ManagerStep

(* The counts are exact before anything is created.                        *)
LEMMA InitStat == Init => StatInv
<1> SUFFICES ASSUME Init PROVE StatInv
  OBVIOUS
<1>1. LockedHeaps = {}
  BY DEF Init, LockedHeaps
<1>2. Cardinality({}) = 0 /\ SumOver(HeapSize, {}) = 0
  BY FS_EmptySet, SumEmpty
<1> QED
  BY <1>1, <1>2 DEF Init, StatInv, CountsLocked, ResidentTracked

(* The heaps that are resident for the manager are the locked ones and the *)
(* resident ones in the lists, and no heap is both.                        *)
LEMMA StatSplit ==
    ASSUME FitsInWord, StructInv, SyncInv, StatInv, op = Idle
    PROVE  StatsExact
<1> DEFINE now == {h \in Heaps : life[h] = "live" /\ status[h] = "RESIDENT"}
           listed == {h \in Heaps : IsInList(h) /\ status[h] = "RESIDENT"}
           locked == LockedHeaps
<1>1. now = locked \cup listed /\ locked \cap listed = {} /\ now \subseteq Heaps
      /\ locked \subseteq Heaps /\ listed \subseteq Heaps
  <2>1. \A h \in Heaps : IsInList(h) => life[h] = "live" /\ ~(locks[h] > 0)
    BY HeapFacts DEF StructInv, LRUWellFormed, IsInList, IsResidencyLocked
  <2>2. \A h \in Heaps : locks[h] > 0 => life[h] = "live" /\ status[h] = "RESIDENT"
    BY IdleFacts DEF StructInv, LocksInv
  <2>3. \A h \in now : h \in locked \/ h \in listed
    BY DEF StatInv, ResidentTracked, Tracked, IsResidencyLocked, LockedHeaps
  <2> QED
    BY <2>1, <2>2, <2>3 DEF LockedHeaps
<1>2. /\ stats.count = Cardinality(locked) /\ stats.usage = SumOver(HeapSize, locked)
  BY DEF StatInv, CountsLocked
<1>3. GetStats = [count |-> (stats.count + Cardinality(listed)) % Word,
                  usage |-> (stats.usage + SumOver(HeapSize, listed)) % Word]
  BY DEF GetStats, SumOver
<1>4. ASSUME op = Idle => GetStats = [count |-> Cardinality(now), usage |-> SumOver(HeapSize, now)]
      PROVE  StatsExact
  BY <1>4 DEF StatsExact, SumOver
<1> HIDE DEF now, listed, locked
<1>5. PICK a \in Nat, b \in Nat, c \in Nat, d \in Nat :
         /\ a = Cardinality(locked) /\ b = Cardinality(listed)
         /\ c = SumOver(HeapSize, locked) /\ d = SumOver(HeapSize, listed)
         /\ IsFiniteSet(locked) /\ IsFiniteSet(listed)
  BY <1>1, SetFits
<1>6. Cardinality(now) = a + b
  <2>1. Cardinality(locked \cap listed) = 0
    BY <1>1, FS_EmptySet
  <2>2. Cardinality(locked \cup listed) =
           Cardinality(locked) + Cardinality(listed) - Cardinality(locked \cap listed)
    BY <1>5, FS_Union
  <2> QED
    BY <1>1, <1>5, <2>1, <2>2
<1>7. SumOver(HeapSize, now) = c + d
  <2>1. \A h \in locked \cup listed : HeapSize[h] \in Int
    BY <1>1, SizeFacts
  <2> QED
    BY <1>1, <1>5, <2>1, SumUnion
<1>8. Cardinality(now) < Word /\ SumOver(HeapSize, now) < Word
  BY <1>1, SetFits
<1>9. (a + b) % Word = a + b /\ (c + d) % Word = c + d
  <2>1. \A n \in Nat : n < Word => n % Word = n
    BY SizeFacts
  <2> QED
    BY <1>6, <1>7, <1>8, <2>1
<1> QED
  BY <1>2, <1>3, <1>4, <1>5, <1>6, <1>7, <1>9

(* As long as the heaps fit in the integers of the code, GetStats counts   *)
(* each resident heap once, whether mStats or the lists hold it.           *)
THEOREM StatsStayExact == ASSUME Orderly, FitsInWord PROVE Spec => []StatsExact
<1>1. Init => StatInv
  BY InitStat
<1>2. StructInv /\ SyncInv /\ StatInv /\ [Next]_vars => StatInv'
  BY StepStat
<1>3. StructInv /\ SyncInv /\ StatInv => StatsExact
  BY StatSplit DEF StatsExact
<1> QED
  BY <1>1, <1>2, <1>3, InSync, PTL DEF Spec

-----------------------------------------------------------------------------
(* The budget.                                                             *)

(* Every heap is a resource heap that D3D12 creates resident.              *)
ResourceHeapsOnly == \A h \in Heaps : HeapKind[h] = "resident"

(* The heaps of segment s in video memory, whose sizes the OS adds up.     *)
InMemory(s) == {h \in Heaps : resident[h] > 0 /\ HeapSegment[h] = s}

(* Those of them that were there when EvictInternal queried the usage.     *)
Present(s) == {h \in Heaps : resident[h] > 0 /\ HeapSegment[h] = s /\ h \notin op.late}

(* Those that stay when the heaps taken off the list so far are evicted.   *)
Staying(s) == {h \in Present(s) : h \notin op.victims}

SizeInv == \A s \in Segments : op.size[s] = SumOver(HeapSize, op.pageIn[s])

BytesInv == op.kind # "ensure" /\ op.pc \in {"evict", "loop", "wait", "device"} => op.bytes = op.size[op.seg]

(* What is still to be evicted covers the excess over the budget.          *)
LoopInv ==
    op.pc \in {"loop", "wait"} /\ op.kind # "ensure" =>
        /\ op.need \in Int /\ op.evicted \in Int
        /\ NotificationsDisabled /\ info[op.seg].Budget > 0 =>
              SumOver(HeapSize, Staying(op.seg)) - info[op.seg].CurrentReservation + op.bytes
                  - info[op.seg].Budget <= op.need - op.evicted

(* D3D12 counts no heap that does not exist, and the manager does not list *)
(* the heaps that were created since the query.                            *)
AbsentInv ==
    /\ \A h \in Heaps : life[h] \in {"absent", "ensured"} => resident[h] = 0
    /\ \A h \in op.late : life[h] = "created"

BudgetInv == SizeInv /\ BytesInv /\ LoopInv /\ PagedInWithinBudget

(* The subtraction of the reservation may wrap around, but never to a      *)
(* smaller value.                                                          *)
LEMMA WrapsUp ==
    ASSUME NEW w \in Nat, NEW bytes \in Nat, NEW usage \in Nat, NEW reservation \in Nat,
           bytes + usage < w
    PROVE  bytes + usage - reservation <= (bytes + ((usage - reservation) % w)) % w
<1> DEFINE z == usage - reservation
           m == z % w
<1>1. z \in Int /\ m \in 0..(w - 1) /\ (bytes + m) % w \in 0..(w - 1) /\ m \in Int
  OBVIOUS
<1>2. \A n \in Nat : n < w => n % w = n
  OBVIOUS
<1>3. CASE z >= 0
  <2>1. z < w /\ z \in Nat /\ bytes + z \in Nat /\ bytes + z < w
    BY <1>1, <1>3
  <2> QED
    BY <1>2, <2>1
<1>4. CASE z < 0 /\ bytes + z < 0
  BY <1>1, <1>4
<1>5. CASE z < 0 /\ bytes + z >= 0
  <2>1. z \in -w..-1 /\ -w < z
    BY <1>1, <1>5
  <2>2. m = z + w
    BY <2>1
  <2>3. bytes + z \in Nat /\ bytes + z < w
    BY <1>1, <1>5
  <2>4. PICK y \in Nat : y = bytes + z /\ y < w
    BY <2>3
  <2>5. (y + w) % w = y
    BY <2>4
  <2>6. bytes + m = y + w
    BY <1>1, <2>2, <2>4
  <2> QED
    BY <2>4, <2>5, <2>6
<1> QED
  BY <1>1, <1>3, <1>4, <1>5

(* Steps that leave mMutex free.                                           *)
LEMMA IdleBudget == ASSUME op' = Idle PROVE BudgetInv'
<1>1. /\ op'.pc = "idle" /\ op'.kind = "none" /\ op'.pageIn = [s \in Segments |-> {}]
      /\ op'.size = [s \in Segments |-> 0]
  BY IdleShape, IdleRest
<1>2. SizeInv'
  BY <1>1, SumEmpty DEF SizeInv
<1> QED
  BY <1>1, <1>2 DEF BudgetInv, BytesInv, LoopInv, PagedInWithinBudget

(* The usages of the segment that is evicted from, as sums.                *)
LEMMA UsageSum ==
    /\ OsUsage(op.seg) = SumOver(HeapSize, InMemory(op.seg))
    /\ UsageAtQuery(op.seg) = SumOver(HeapSize, Present(op.seg))
    /\ UsageAtQuery(op.seg)' = SumOver(HeapSize, Present(op.seg)')
<1>0. \A r, s : UsageOf(r, s) = SumOver(HeapSize, {h \in Heaps : r[h] > 0 /\ HeapSegment[h] = s})
  BY DEF UsageOf, SumOver
<1>1. OsUsage(op.seg) = SumOver(HeapSize, InMemory(op.seg))
  BY <1>0 DEF OsUsage, InMemory
<1>2. ASSUME NEW r, NEW late, NEW s
      PROVE  UsageOf([h \in Heaps |-> IF h \in late THEN 0 ELSE r[h]], s) =
                SumOver(HeapSize, {h \in Heaps : r[h] > 0 /\ HeapSegment[h] = s /\ h \notin late})
  <2> DEFINE r0 == [h \in Heaps |-> IF h \in late THEN 0 ELSE r[h]]
  <2>1. {h \in Heaps : r0[h] > 0 /\ HeapSegment[h] = s} =
           {h \in Heaps : r[h] > 0 /\ HeapSegment[h] = s /\ h \notin late}
    OBVIOUS
  <2> HIDE DEF r0
  <2>2. UsageOf(r0, s) = SumOver(HeapSize, {h \in Heaps : r0[h] > 0 /\ HeapSegment[h] = s})
    BY <1>0
  <2> QED
    BY <2>1, <2>2 DEF r0
<1>3. UsageAtQuery(op.seg) = SumOver(HeapSize, Present(op.seg))
  BY <1>2 DEF UsageAtQuery, Present
<1>4. UsageAtQuery(op.seg)' = SumOver(HeapSize, Present(op.seg)')
  BY <1>2 DEF UsageAtQuery, Present
<1> QED
  BY <1>1, <1>3, <1>4

(* Steps of others that neither destroy a heap nor change the info.        *)
LEMMA SameBudget ==
    ASSUME BudgetInv, UNCHANGED <<op, info, resident, cache, lastUsed, currentFence>>
    PROVE  BudgetInv'
<1>1. Staying(op.seg)' = Staying(op.seg) /\ Present(op.seg)' = Present(op.seg)
  BY DEF Staying, Present
<1>2. UsageAtQuery(op.seg)' = UsageAtQuery(op.seg)
  BY <1>1, UsageSum
<1> QED
  BY <1>1, <1>2 DEF BudgetInv, SizeInv, BytesInv, LoopInv, PagedInWithinBudget

(* Frames before EvictInternal.                                            *)
LEMMA EarlyBudget ==
    ASSUME op'.pc \in {"scan", "evict", "made"}, SizeInv',
           op'.pc = "evict" /\ op'.kind # "ensure" => op'.bytes = op'.size[op'.seg]
    PROVE  BudgetInv'
  BY DEF BudgetInv, BytesInv, LoopInv, PagedInWithinBudget

(* EnsureInBudget pages nothing in.                                        *)
LEMMA EnsureBudget ==
    ASSUME NEW h \in Heaps, EnsureInBudget(h) PROVE BudgetInv'
<1>1. /\ op'.pc = "evict" /\ op'.kind = "ensure" /\ op'.pageIn = [s \in Segments |-> {}]
      /\ op'.size = [s \in Segments |-> 0]
  BY DEF EnsureInBudget, Idle
<1>2. SizeInv'
  BY <1>1, SumEmpty DEF SizeInv
<1> QED
  BY <1>1, <1>2, EarlyBudget

(* ExecuteCommandLists starts with nothing to page in.                     *)
LEMMA ExecuteBudget ==
    ASSUME NEW list, NEW queue, ExecuteCommandLists(list, queue) PROVE BudgetInv'
<1>1. /\ op'.pc = "scan" /\ op'.kind = "exec" /\ op'.pageIn = [s \in Segments |-> {}]
      /\ op'.size = [s \in Segments |-> 0]
  BY DEF ExecuteCommandLists, Idle
<1>2. SizeInv'
  BY <1>1, SumEmpty DEF SizeInv
<1> QED
  BY <1>1, <1>2, EarlyBudget

(* LockHeap pages in one heap.                                             *)
LEMMA LockBudget ==
    ASSUME NEW h \in Heaps, LockHeap(h) PROVE BudgetInv'
<1>0. op = Idle
  BY DEF LockHeap
<1>1. CASE MustPageIn(h)
  <2> DEFINE s == HeapSegment[h]
             pages == [Idle.pageIn EXCEPT ![s] = {h}]
             sizes == [Idle.size EXCEPT ![s] = HeapSize[h]]
  <2>2. op' = [[Idle EXCEPT !.kind = "lock", !.heap = h, !.pageIn = pages, !.size = sizes]
                EXCEPT !.pc = "evict", !.seg = s, !.bytes = sizes[s], !.retry = FALSE]
    BY <1>1, IdleShape DEF LockHeap, MakeResident, FrameShape
  <2>3. /\ s \in Segments /\ pages[s] = {h} /\ sizes[s] = HeapSize[h]
        /\ \A t \in Segments : t # s => pages[t] = {} /\ sizes[t] = 0
    BY IdleRest, HeapFacts
  <2> HIDE DEF pages, sizes
  <2>4. /\ op'.kind = "lock" /\ op'.pc = "evict" /\ op'.pageIn = pages /\ op'.size = sizes
        /\ op'.seg = s /\ op'.bytes = sizes[s]
    BY <2>2, IdleShape DEF FrameShape
  <2>5. SumOver(HeapSize, {h}) = HeapSize[h]
    <3>1. /\ {} \cup {h} = {h} /\ IsFiniteSet({}) /\ h \notin {}
          /\ \A x \in {} \cup {h} : HeapSize[x] \in Int
      BY FS_EmptySet, SizeFacts
    <3>2. SumOver(HeapSize, {} \cup {h}) = SumOver(HeapSize, {}) + HeapSize[h]
      BY <3>1, SumAdd
    <3> QED
      BY <3>1, <3>2, SumEmpty, SizeFacts
  <2>6. SizeInv'
    BY <2>3, <2>4, <2>5, SumEmpty DEF SizeInv
  <2> QED
    BY <2>4, <2>6, EarlyBudget
<1>2. CASE ~MustPageIn(h)
  <2>1. op' = Idle
    BY <1>0, <1>2 DEF LockHeap
  <2> QED
    BY <2>1, IdleBudget
<1> QED
  BY <1>1, <1>2

(* The sizes are of the heaps collected so far.                            *)
LEMMA ScanBudget ==
    ASSUME StructInv, SyncInv, BudgetInv, ScanHeap
    PROVE  BudgetInv'
<1> DEFINE h == Head(op.list)
           rest == Tail(op.list)
           s == HeapSegment[h]
           next == [op EXCEPT !.list = rest]
           pages == [op.pageIn EXCEPT ![s] = @ \cup {h}]
           sizes == [op.size EXCEPT ![s] = @ + HeapSize[h]]
<1>0. /\ op.pc = "scan" /\ op.kind = "exec" /\ op.list # <<>> /\ op.list \in Seq(Heaps)
      /\ op \in FrameShape(op)
  BY DEF ScanHeap, StructInv, OpInv, Shape, FrameShape
<1>1. h \in Heaps /\ s \in Segments
  BY <1>0, HeapFacts
<1>2. /\ next.pc = "scan" /\ next.kind = "exec" /\ next.pageIn = op.pageIn /\ next.size = op.size
      /\ next \in FrameShape(next) /\ next.used = op.used
  <2>1. rest \in Seq(Heaps)
    BY <1>0
  <2> QED
    BY <1>0, <2>1 DEF FrameShape
<1>3. \/ op' = next
      \/ op' = [next EXCEPT !.used = @ \cup {h}]
      \/ /\ op' = [next EXCEPT !.used = @ \cup {h}, !.pageIn[s] = @ \cup {h},
                               !.size[s] = @ + HeapSize[h]]
         /\ ~IsResidencyLocked(h) /\ lastUsed[h] # currentFence
  BY DEF ScanHeap
<1> HIDE DEF h, s, rest, next
<1>4. ASSUME op'.pageIn = op.pageIn, op'.size = op.size, op'.pc = "scan" PROVE BudgetInv'
  BY <1>4, EarlyBudget DEF BudgetInv, SizeInv
<1>5. CASE op' = next \/ op' = [next EXCEPT !.used = @ \cup {h}]
  BY <1>2, <1>4, <1>5 DEF FrameShape
<1>6. CASE /\ op' = [next EXCEPT !.used = @ \cup {h}, !.pageIn[s] = @ \cup {h},
                                 !.size[s] = @ + HeapSize[h]]
           /\ ~IsResidencyLocked(h) /\ lastUsed[h] # currentFence
  <2>1. op' = [next EXCEPT !.used = @ \cup {h}, !.pageIn = pages, !.size = sizes]
    BY <1>2, <1>6 DEF FrameShape
  <2>2. op.pageIn \in [Segments -> SUBSET Heaps] /\ op.size \in [Segments -> Nat]
    BY DEF SyncInv, FrameSync
  <2>3. \A t \in Segments : /\ pages[t] = IF t = s THEN op.pageIn[t] \cup {h} ELSE op.pageIn[t]
                            /\ sizes[t] = IF t = s THEN op.size[t] + HeapSize[h] ELSE op.size[t]
    BY <1>1, <2>2, SizeFacts, AddedToEntry
  <2> HIDE DEF pages, sizes
  <2>4. op'.pageIn = pages /\ op'.size = sizes /\ op'.pc = "scan"
    BY <1>2, <2>1 DEF FrameShape
  <2>5. h \notin op.pageIn[s]
    BY <1>0, <1>1, <1>6 DEF SyncInv, PageInSync, ScanSync
  <2>6. SumOver(HeapSize, op.pageIn[s] \cup {h}) = SumOver(HeapSize, op.pageIn[s]) + HeapSize[h]
    <3>1. PICK P : P = op.pageIn[s] /\ P \subseteq Heaps /\ h \notin P
      BY <1>1, <2>2, <2>5
    <3>2. IsFiniteSet(P) /\ \A x \in P \cup {h} : HeapSize[x] \in Int
      BY <1>1, <3>1, SizeFacts, FS_Subset
    <3> QED
      BY <3>1, <3>2, SumAdd
  <2>7. SizeInv'
    BY <1>1, <2>3, <2>4, <2>6 DEF BudgetInv, SizeInv
  <2> QED
    BY <2>4, <2>7, EarlyBudget
<1> QED
  BY <1>3, <1>5, <1>6

(* MakeResident is called with the size that was added up.                 *)
LEMMA ScanDoneBudget ==
    ASSUME StructInv, BudgetInv, ScanDone
    PROVE  BudgetInv'
<1>0. op \in FrameShape(op)
  BY DEF StructInv, Shape
<1>1. ASSUME NEW s \in Segments, op' = MakeResident(op, s) PROVE BudgetInv'
  <2>1. /\ op'.pageIn = op.pageIn /\ op'.size = op.size /\ op'.pc = "evict"
        /\ op'.seg = s /\ op'.bytes = op.size[s]
    BY <1>0, <1>1 DEF MakeResident, FrameShape
  <2> QED
    BY <2>1, EarlyBudget DEF BudgetInv, SizeInv
<1>2. ASSUME op' = [op EXCEPT !.pc = "made"] PROVE BudgetInv'
  <2>1. op'.pageIn = op.pageIn /\ op'.size = op.size /\ op'.pc = "made"
    BY <1>0, <1>2 DEF FrameShape
  <2> QED
    BY <2>1, EarlyBudget DEF BudgetInv, SizeInv
<1> QED
  BY <1>1, <1>2 DEF ScanDone, Segments

(* EvictInternal returns to MakeResident.                                  *)
LEMMA ReturnBudget ==
    ASSUME StructInv, BudgetInv, NEW out, EvictReturns(out), op.pc \in {"evict", "loop"},
           UNCHANGED <<cache, lastUsed, currentFence>>,
           NEW late, late = IF op.pc = "loop" THEN op.late ELSE {},
           NEW P, P = {h \in Heaps : resident'[h] > 0 /\ HeapSegment[h] = op.seg /\ h \notin late},
           op.kind # "ensure" /\ NotificationsDisabled /\ info'[op.seg].Budget > 0 =>
              \/ SumOver(HeapSize, P) - info'[op.seg].CurrentReservation + op.bytes
                    <= info'[op.seg].Budget
              \/ cache[op.seg] = <<>>
              \/ lastUsed[Head(cache[op.seg])] = currentFence
    PROVE  BudgetInv'
<1>1. CASE op' = Idle
  BY <1>1, IdleBudget
<1>2. CASE op' # Idle
  <2>1. op.kind # "ensure"
        /\ op' = [op EXCEPT !.pc = "device", !.need = 0, !.evicted = 0, !.victims = {},
                            !.late = late]
    BY <1>2 DEF EvictReturns
  <2>2. /\ op'.pc = "device" /\ op'.kind = op.kind /\ op'.seg = op.seg /\ op'.bytes = op.bytes
        /\ op'.pageIn = op.pageIn /\ op'.size = op.size /\ op'.late = late
    BY <2>1 DEF StructInv, Shape, FrameShape
  <2>3. op.bytes = op.size[op.seg]
    BY <2>1 DEF BudgetInv, BytesInv
  <2>4. UsageAtQuery(op.seg)' = SumOver(HeapSize, P)
    <3>1. Present(op.seg)' = P
      BY <2>2 DEF Present
    <3> QED
      BY <3>1, UsageSum
  <2>5. PagedInWithinBudget'
    BY <2>1, <2>2, <2>3, <2>4 DEF PagedInWithinBudget
  <2>6. SizeInv' /\ BytesInv' /\ LoopInv'
    BY <2>2, <2>3 DEF BudgetInv, SizeInv, BytesInv, LoopInv
  <2> QED
    BY <2>5, <2>6 DEF BudgetInv
<1> QED
  BY <1>1, <1>2

(* The heaps to page in are not in video memory yet.                       *)
LEMMA PageInFits ==
    ASSUME FitsInWord, ResourceHeapsOnly, StructInv, SyncInv, BudgetInv,
           op.pc = "evict", op.kind # "ensure"
    PROVE  /\ op.bytes \in Nat /\ SumOver(HeapSize, InMemory(op.seg)) \in Nat
           /\ op.bytes + SumOver(HeapSize, InMemory(op.seg)) < Word
<1> DEFINE s == op.seg
           A == op.pageIn[s]
           B == InMemory(s)
<1>1. s \in Segments /\ op.pageIn \in [Segments -> SUBSET Heaps]
  BY DEF StructInv, Shape, FrameShape, SyncInv, FrameSync
<1>2. A \subseteq Heaps /\ B \subseteq Heaps
  BY <1>1 DEF InMemory
<1>3. \A h \in A : life[h] = "live" /\ Missing(h)
  <2>1. op.kind # "none"
    BY DEF SyncInv, FrameSync
  <2>2. op.kind \in {"lock", "exec"}
    BY <2>1 DEF StructInv, Shape, FrameShape
  <2>3. \A h \in A : HeapSegment[h] = s
    BY <1>1 DEF SyncInv, PageInSync
  <2>4. CASE op.kind = "lock"
    BY <1>2, <2>3, <2>4 DEF SyncInv, PageInSync, StructInv, OpInv, Missing
  <2>5. CASE op.kind = "exec"
    BY <1>1, <2>3, <2>5 DEF SyncInv, PageInSync, FrameSync, StructInv, OpInv, Missing
  <2> QED
    BY <2>2, <2>4, <2>5
<1>4. A \cap B = {}
  <2> SUFFICES ASSUME NEW h \in A, h \in B PROVE FALSE
    OBVIOUS
  <2>1. h \in Heaps /\ resident[h] > 0
    BY DEF InMemory
  <2>2. resident[h] = 0
    BY <1>3, <2>1 DEF SyncInv, CountSync, Count, ResourceHeapsOnly
  <2> QED
    BY <2>1, <2>2
<1>5. op.bytes = SumOver(HeapSize, A)
  BY <1>1 DEF BudgetInv, SizeInv, BytesInv
<1> HIDE DEF A, B
<1>6. SumOver(HeapSize, A \cup B) = SumOver(HeapSize, A) + SumOver(HeapSize, B)
  <2>1. IsFiniteSet(A) /\ IsFiniteSet(B) /\ \A h \in A \cup B : HeapSize[h] \in Int
    BY <1>2, SetFits, SizeFacts
  <2> QED
    BY <1>4, <2>1, SumUnion
<1>7. /\ SumOver(HeapSize, A) \in Nat /\ SumOver(HeapSize, B) \in Nat
      /\ SumOver(HeapSize, A \cup B) < Word
  BY <1>2, SetFits
<1> QED
  BY <1>5, <1>6, <1>7 DEF B

(* EvictInternal reads the budget and decides how much to evict.           *)
LEMMA EvictBeginBudget ==
    ASSUME FitsInWord, ResourceHeapsOnly, StructInv, SyncInv, InfoInv, InfoInv', BudgetInv, EvictBegin
    PROVE  BudgetInv'
<1> DEFINE s == op.seg
           budget == info'[s].Budget
           usage == (op.bytes + info'[s].CurrentUsage) % Word
           reservation == info'[s].CurrentReservation
           P == {h \in Heaps : resident'[h] > 0 /\ HeapSegment[h] = op.seg /\ h \notin {}}
<1>0. /\ op.pc = "evict" /\ UNCHANGED <<cache, lastUsed, currentFence, resident>>
      /\ NotificationsDisabled => info' = UpdateMemorySegment(s)
      /\ \/ NothingToEvict(budget, usage) /\ EvictReturns(IF op.retry THEN 0 ELSE op.bytes)
         \/ op' = [op EXCEPT !.pc = "loop", !.need = usage - budget, !.evicted = 0, !.victims = {},
                            !.late = {}]
  BY DEF EvictBegin, device
<1>1. op \in FrameShape(op) /\ s \in Segments /\ op.victims = {}
  BY <1>0 DEF StructInv, Shape, FrameShape, SyncInv, FrameSync
<1>2. info'[s] \in SegmentInfo
  BY <1>1 DEF InfoInv
<1>3. budget \in Int /\ reservation \in Nat /\ info'[s].CurrentUsage \in Nat
  BY <1>2, SizeFacts DEF SegmentInfo
<1>4. /\ P = InMemory(op.seg)
      /\ P = {h \in Heaps : resident'[h] > 0 /\ HeapSegment[h] = op.seg /\ h \notin {}}
  BY <1>0 DEF InMemory
<1> HIDE DEF P
<1>5. ASSUME op.kind # "ensure"
      PROVE  op.bytes \in Nat /\ usage \in Int /\ SumOver(HeapSize, P) \in Nat
  <2>1. op.bytes \in Nat /\ SumOver(HeapSize, P) \in Nat
    BY <1>0, <1>4, <1>5, PageInFits
  <2> QED
    BY <1>3, <2>1, SizeFacts
<1>6. ASSUME op.kind # "ensure", NotificationsDisabled, budget > 0
      PROVE  SumOver(HeapSize, P) - reservation + op.bytes <= usage
  <2>1. info'[s] = Refreshed(info[s], s, OsUsage(s))
    BY <1>0, <1>1, <1>6, UpdatedInfo
  <2>2. ~(IsUMA /\ s = NonLocal)
    BY <1>6 DEF InfoInv
  <2>3. info[s] \in SegmentInfo /\ osBudget \in [Segments -> Nat]
    BY <1>1 DEF InfoInv
  <2>4. OsUsage(s) = SumOver(HeapSize, P)
    BY <1>4, UsageSum
  <2>5. info'[s].CurrentUsage = (SumOver(HeapSize, P) - reservation) % Word
    <3>1. PICK u \in Nat : u = OsUsage(s)
      BY <1>5, <1>6, <2>4
    <3>2. info'[s] = Refreshed(info[s], s, u)
      BY <2>1, <3>1
    <3>3. info'[s].CurrentUsage = (u - info'[s].CurrentReservation) % Word
      BY <1>1, <2>2, <2>3, <3>2, RefreshedInfo
    <3> QED
      BY <2>4, <3>1, <3>3
  <2>6. PICK u \in Nat, b \in Nat, r \in Nat : u = SumOver(HeapSize, P) /\ b = op.bytes /\ r = reservation
                                              /\ b + u < Word
    BY <1>0, <1>3, <1>4, <1>5, <1>6, PageInFits
  <2>7. b + u - r <= (b + ((u - r) % Word)) % Word
    BY <2>6, WrapsUp, SizeFacts
  <2>8. usage = (b + ((u - r) % Word)) % Word
    <3>1. PICK c \in Int : c = (u - r) % Word
      BY <2>6, SizeFacts
    <3>2. info'[s].CurrentUsage = c
      BY <2>5, <2>6, <3>1
    <3>3. op.bytes + info'[s].CurrentUsage = b + c
      BY <2>6, <3>2
    <3> QED
      BY <3>1, <3>3
  <2>9. u - r + b = b + u - r
    BY <2>6
  <2> QED
    BY <2>6, <2>7, <2>8, <2>9
<1>7. CASE NothingToEvict(budget, usage) /\ EvictReturns(IF op.retry THEN 0 ELSE op.bytes)
  <2>1. ASSUME op.kind # "ensure", NotificationsDisabled, budget > 0
        PROVE  SumOver(HeapSize, P) - reservation + op.bytes <= budget
    <3>1. usage <= budget
      BY <1>3, <1>7, <2>1 DEF NothingToEvict
    <3> QED
      BY <1>3, <1>5, <1>6, <2>1, <3>1
  <2>2. PICK late : late = {} /\ late = IF op.pc = "loop" THEN op.late ELSE {}
    BY <1>0
  <2>3. P = {g \in Heaps : resident'[g] > 0 /\ HeapSegment[g] = op.seg /\ g \notin late}
    BY <1>4, <2>2
  <2>4. UNCHANGED <<cache, lastUsed, currentFence>> /\ op.pc \in {"evict", "loop"}
    BY <1>0
  <2> QED
    BY <1>7, <2>1, <2>2, <2>3, <2>4, ReturnBudget
<1>8. CASE op' = [op EXCEPT !.pc = "loop", !.need = usage - budget, !.evicted = 0, !.victims = {},
                            !.late = {}]
  <2> HIDE DEF usage, budget
  <2>1. /\ op'.pc = "loop" /\ op'.kind = op.kind /\ op'.seg = op.seg /\ op'.bytes = op.bytes
        /\ op'.pageIn = op.pageIn /\ op'.size = op.size /\ op'.need = usage - budget
        /\ op'.evicted = 0 /\ op'.victims = {} /\ op'.late = {}
    BY <1>1, <1>8 DEF FrameShape
  <2>2. Staying(op.seg)' = P
    BY <1>4, <2>1 DEF Staying, Present
  <2>3. LoopInv'
    <3> SUFFICES ASSUME op.kind # "ensure"
                 PROVE  /\ op'.need \in Int /\ op'.evicted \in Int
                        /\ NotificationsDisabled /\ budget > 0 =>
                              SumOver(HeapSize, P) - reservation + op.bytes - budget
                                  <= op'.need - op'.evicted
      BY <2>1, <2>2 DEF LoopInv, budget
    <3>1. op'.need \in Int /\ op'.evicted = 0
      BY <1>3, <1>5, <2>1
    <3>2. ASSUME NotificationsDisabled, budget > 0
          PROVE  SumOver(HeapSize, P) - reservation + op.bytes - budget <= usage - budget
      BY <1>3, <1>5, <1>6, <3>2
    <3> QED
      BY <2>1, <3>1, <3>2
  <2>4. SizeInv' /\ BytesInv' /\ PagedInWithinBudget'
    BY <1>0, <2>1 DEF BudgetInv, SizeInv, BytesInv, PagedInWithinBudget
  <2> QED
    BY <2>3, <2>4 DEF BudgetInv
<1> QED
  BY <1>0, <1>7, <1>8

(* EvictInternal picks its next candidate.                                 *)
LEMMA EvictPicksBudget ==
    ASSUME StructInv, BudgetInv, EvictPicks
    PROVE  BudgetInv'
<1> DEFINE h == Head(cache[op.seg])
<1>0. /\ op.pc = "loop" /\ op' = [op EXCEPT !.pc = "wait", !.head = h, !.fence = lastUsed[h]]
      /\ UNCHANGED <<info, resident>> /\ op \in FrameShape(op)
  BY DEF EvictPicks, device, StructInv, Shape
<1> HIDE DEF h
<1>1. /\ op'.pc = "wait" /\ op'.kind = op.kind /\ op'.seg = op.seg /\ op'.bytes = op.bytes
      /\ op'.pageIn = op.pageIn /\ op'.size = op.size /\ op'.need = op.need
      /\ op'.evicted = op.evicted /\ op'.victims = op.victims /\ op'.late = op.late
  BY <1>0 DEF FrameShape
<1>2. Staying(op.seg)' = Staying(op.seg)
  BY <1>0, <1>1 DEF Staying, Present
<1> QED
  BY <1>0, <1>1, <1>2 DEF BudgetInv, SizeInv, BytesInv, LoopInv, PagedInWithinBudget

(* EvictInternal takes a heap off the list that is in video memory.        *)
LEMMA EvictHeadBudget ==
    ASSUME StructInv, SyncInv, InfoInv, AbsentInv, BudgetInv, EvictHead
    PROVE  BudgetInv'
<1> DEFINE s == op.seg
           h == Head(cache[s])
           S == Staying(s)
<1>0. /\ op.pc = "wait" /\ cache[s] # <<>> /\ lastUsed[h] # currentFence
      /\ op' = [op EXCEPT !.pc = "loop", !.evicted = @ + HeapSize[h], !.victims = @ \cup {h},
                          !.head = NoHeap, !.fence = 0, !.next = NoHeap]
      /\ UNCHANGED <<info, resident>>
  BY EvictHeadStep DEF EvictHead, device
<1>1. op \in FrameShape(op) /\ s \in Segments
  BY DEF StructInv, Shape, FrameShape
<1>2. cache[s] \in Seq(Heaps) /\ Injective(cache[s])
  BY <1>1, ListFacts
<1>3. h \in Heaps /\ Occurs(h, cache[s])
  BY <1>0, <1>2, TailOfList
<1> HIDE DEF h
<1>4. HeapSegment[h] = s /\ life[h] = "live" /\ IsInList(h)
  BY <1>1, <1>3 DEF StructInv, LRUWellFormed, Occurs, IsInList
<1>5. /\ op'.pc = "loop" /\ op'.kind = op.kind /\ op'.seg = op.seg /\ op'.bytes = op.bytes
      /\ op'.pageIn = op.pageIn /\ op'.size = op.size /\ op'.need = op.need
      /\ op'.evicted = op.evicted + HeapSize[h] /\ op'.victims = op.victims \cup {h}
      /\ op'.late = op.late
  BY <1>0, <1>1 DEF FrameShape
<1>6. SizeInv' /\ BytesInv' /\ PagedInWithinBudget'
  BY <1>0, <1>5 DEF BudgetInv, SizeInv, BytesInv, PagedInWithinBudget
<1>7. LoopInv'
  <2> SUFFICES ASSUME op.kind # "ensure"
               PROVE  LoopInv'
    BY <1>5 DEF LoopInv
  <2>1. ~Missing(h)
    <3>1. op.kind \in {"lock", "exec"}
      BY <1>0, <1>1 DEF SyncInv, FrameSync, FrameShape
    <3>2. CASE op.kind = "lock"
      BY <1>3, <1>4, <3>2 DEF SyncInv, PageInSync, StructInv, OpInv, Missing
    <3>3. CASE op.kind = "exec"
      BY <1>0, <1>1, <1>4, <3>3 DEF SyncInv, PageInSync, ScanSync, Missing
    <3> QED
      BY <3>1, <3>2, <3>3
  <2>2. resident[h] > 0
    <3>1. Count(h) = 1
      BY <1>4, <2>1 DEF Count, Held, Tracked
    <3> QED
      BY <1>3, <1>4, <3>1 DEF SyncInv, CountSync, StructInv, Shape
  <2>3. h \in S /\ S \subseteq Heaps
    BY <1>3, <1>4, <2>2 DEF Staying, Present, SyncInv, VictimSync, AbsentInv
  <2>4. Staying(op.seg)' = S \ {h}
    BY <1>0, <1>5 DEF Staying, Present
  <2> HIDE DEF S
  <2>5. SumOver(HeapSize, S) = HeapSize[h] + SumOver(HeapSize, S \ {h})
    <3>1. IsFiniteSet(S) /\ \A x \in S : HeapSize[x] \in Int
      BY <2>3, SizeFacts, FS_Subset
    <3> QED
      BY <2>3, <3>1, SumRemove
  <2>6. SumOver(HeapSize, S \ {h}) \in Nat /\ HeapSize[h] \in Nat
    <3>1. S \ {h} \subseteq Heaps
      BY <2>3
    <3> QED
      BY <1>3, <3>1, SizeFacts, SumWithin
  <2>7. op.need \in Int /\ op.evicted \in Int /\ op'.evicted \in Int
    BY <1>0, <1>5, <2>6 DEF BudgetInv, LoopInv
  <2>8. info[s].CurrentReservation \in Int /\ info[s].Budget \in Int
    BY <1>1 DEF InfoInv, SegmentInfo
  <2>9. op.bytes \in Int
    BY <1>0, <1>1 DEF BudgetInv, BytesInv, SyncInv, FrameSync
  <2>10. ASSUME NotificationsDisabled, info[s].Budget > 0
         PROVE  SumOver(HeapSize, S \ {h}) - info[s].CurrentReservation + op.bytes - info[s].Budget
                   <= op.need - (op.evicted + HeapSize[h])
    <3>1. SumOver(HeapSize, S) - info[s].CurrentReservation + op.bytes - info[s].Budget
             <= op.need - op.evicted
      BY <1>0, <2>10 DEF BudgetInv, LoopInv, S
    <3> QED
      BY <2>5, <2>6, <2>7, <2>8, <2>9, <3>1
  <2> QED
    BY <1>0, <1>5, <2>4, <2>7, <2>10 DEF LoopInv
<1> QED
  BY <1>6, <1>7 DEF BudgetInv

(* After ID3D12Device::Evict only the heaps that were to stay are left.    *)
LEMMA EvictEndBudget ==
    ASSUME ResourceHeapsOnly, StructInv, SyncInv, CreatedSync, InfoInv, AbsentInv, BudgetInv, EvictEnd
    PROVE  BudgetInv'
<1> DEFINE s == op.seg
           P == {h \in Heaps : resident'[h] > 0 /\ HeapSegment[h] = op.seg /\ h \notin op.late}
<1>0. /\ op.pc = "loop" /\ EvictStops /\ EvictReturns(op.evicted)
      /\ UNCHANGED <<cache, lastUsed, currentFence, info>>
      /\ \A h \in Heaps : resident'[h] = IF h \in op.victims /\ resident[h] > 0
                                        THEN resident[h] - 1 ELSE resident[h]
  BY DEF EvictEnd
<1>1. s \in Segments
  BY DEF StructInv, Shape, FrameShape
<1>2. \A h \in Heaps : resident[h] \in Nat /\ resident[h] <= 1
  <2> SUFFICES ASSUME NEW h \in Heaps PROVE resident[h] <= 1
    BY DEF StructInv, Shape
  <2>1. CASE life[h] = "live"
    BY <2>1 DEF SyncInv, CountSync, Count, ResourceHeapsOnly
  <2>2. CASE life[h] # "live"
    BY <2>2 DEF AbsentInv, CreatedSync, StructInv, Shape
  <2> QED
    BY <2>1, <2>2
<1>3. P = Staying(op.seg)
  BY <1>0, <1>2 DEF Staying, Present
<1>4. /\ P = {h \in Heaps : resident'[h] > 0 /\ HeapSegment[h] = op.seg /\ h \notin op.late}
      /\ P \subseteq Heaps
  OBVIOUS
<1> HIDE DEF P
<1>5. ASSUME op.kind # "ensure", NotificationsDisabled, info[s].Budget > 0, op.evicted >= op.need
      PROVE  SumOver(HeapSize, P) - info[s].CurrentReservation + op.bytes <= info[s].Budget
  <2>1. SumOver(HeapSize, P) - info[s].CurrentReservation + op.bytes - info[s].Budget
           <= op.need - op.evicted
    BY <1>0, <1>3, <1>5 DEF BudgetInv, LoopInv
  <2>2. op.need \in Int /\ op.evicted \in Int
    BY <1>0, <1>5 DEF BudgetInv, LoopInv
  <2>3. info[s].CurrentReservation \in Int /\ info[s].Budget \in Int
    BY <1>1 DEF InfoInv, SegmentInfo
  <2>4. op.bytes \in Int
    BY <1>0, <1>1, <1>5 DEF BudgetInv, BytesInv, SyncInv, FrameSync
  <2>5. SumOver(HeapSize, P) \in Nat
    BY <1>4, SizeFacts, SumWithin
  <2> QED
    BY <1>5, <2>1, <2>2, <2>3, <2>4, <2>5
<1> QED
  BY <1>0, <1>4, <1>5, ReturnBudget DEF EvictStops

(* The device has paged the heaps in.                                      *)
LEMMA PageInBudget ==
    ASSUME StructInv, BudgetInv, PageIn
    PROVE  BudgetInv'
<1>1. op'.pageIn = op.pageIn /\ op'.size = op.size /\ op'.pc = "made"
  BY DEF PageIn, StructInv, Shape, FrameShape
<1> QED
  BY <1>1, EarlyBudget DEF BudgetInv, SizeInv

(* A heap destroyed in between only makes room, and leaves a list that is  *)
(* used by the current submission so.                                      *)
LEMMA DestroyBudget ==
    ASSUME Orderly, "noQueue" \notin Behaviours, StructInv, SyncInv, InfoInv, BudgetInv,
           NEW h \in Heaps, DestroyHeap(h)
    PROVE  BudgetInv'
<1>0. h # op.head /\ op' = op
  <2>1. h # op.head
    BY HeapFacts, IdleShape, OrderlyClients DEF DestroyHeap, MayDestroy, CandidateLives
  <2> QED
    BY <2>1 DEF DestroyHeap
<1>1. CASE op = Idle
  <2>1. op' = Idle
    BY <1>0, <1>1
  <2> QED
    BY <2>1, IdleBudget
<1>2. CASE op # Idle
  <2> DEFINE s == op.seg
             old == cache[s]
             new == RemoveFromList(h)[s]
  <2>0. /\ cache' = RemoveFromList(h) /\ lastUsed' = [lastUsed EXCEPT ![h] = 0]
        /\ resident' = [resident EXCEPT ![h] = 0] /\ UNCHANGED <<op, info, currentFence>>
    BY <1>0 DEF DestroyHeap
  <2>1. s \in Segments
    BY DEF StructInv, Shape, FrameShape
  <2>2. \A g \in Heaps : resident'[g] > 0 => resident[g] > 0
    BY <2>0 DEF StructInv, Shape
  <2>3. /\ Staying(op.seg)' \subseteq Staying(op.seg) /\ Present(op.seg)' \subseteq Present(op.seg)
        /\ Staying(op.seg) \subseteq Heaps /\ Present(op.seg) \subseteq Heaps
    BY <2>0, <2>2 DEF Staying, Present
  <2>4. PICK a \in Nat, a1 \in Nat, b \in Nat, b1 \in Nat :
           /\ a = SumOver(HeapSize, Staying(op.seg)) /\ a1 = SumOver(HeapSize, Staying(op.seg)') /\ a1 <= a
           /\ b = UsageAtQuery(op.seg) /\ b1 = UsageAtQuery(op.seg)' /\ b1 <= b
    <3>1. \A S, T : S \subseteq T /\ T \subseteq Heaps =>
             /\ SumOver(HeapSize, S) \in Nat /\ SumOver(HeapSize, T) \in Nat
             /\ SumOver(HeapSize, S) <= SumOver(HeapSize, T)
      <4> SUFFICES ASSUME NEW S, NEW T, S \subseteq T, T \subseteq Heaps
                   PROVE  /\ SumOver(HeapSize, S) \in Nat /\ SumOver(HeapSize, T) \in Nat
                          /\ SumOver(HeapSize, S) <= SumOver(HeapSize, T)
        OBVIOUS
      <4>1. IsFiniteSet(T) /\ \A x \in T : HeapSize[x] \in Nat
        BY SizeFacts, FS_Subset
      <4> QED
        BY <4>1, SumWithin
    <3> QED
      BY <2>3, <3>1, UsageSum
  <2>5. /\ info[s].CurrentReservation \in Int /\ info[s].Budget \in Int
        /\ op.size[s] \in Int
    BY <2>1 DEF InfoInv, SegmentInfo, SyncInv, FrameSync
  <2>6. SizeInv' /\ BytesInv'
    BY <2>0 DEF BudgetInv, SizeInv, BytesInv
  <2>7. LoopInv'
    <3> SUFFICES ASSUME op.pc \in {"loop", "wait"}, op.kind # "ensure",
                        NotificationsDisabled, info[s].Budget > 0
                 PROVE  a1 - info[s].CurrentReservation + op.bytes - info[s].Budget
                           <= op.need - op.evicted
      BY <2>0, <2>4 DEF LoopInv, BudgetInv
    <3>1. a - info[s].CurrentReservation + op.bytes - info[s].Budget <= op.need - op.evicted
      BY <2>4 DEF LoopInv, BudgetInv
    <3>2. op.need \in Int /\ op.evicted \in Int /\ op.bytes \in Int
      BY <2>5 DEF BudgetInv, LoopInv, BytesInv
    <3> QED
      BY <2>4, <2>5, <3>1, <3>2
  <2>8. ASSUME lastUsed[Head(old)] = currentFence, old # <<>>
        PROVE  new = <<>> \/ lastUsed'[Head(new)] = currentFence
    <3>1. /\ new \in Seq(Heaps) /\ Within(new, old) /\ ~Occurs(h, new) /\ old \in Seq(Heaps)
      BY <2>1, RemovedFromLists, ListFacts
    <3>2. \A i \in DOMAIN old : lastUsed[old[i]] = currentFence
      <4>1. Head(old) = old[1] /\ 1 \in DOMAIN old /\ \A i \in DOMAIN old : i = 1 \/ 1 < i
        BY <2>8, <3>1
      <4> QED
        BY <2>1, <2>8, <4>1 DEF SyncInv, OrderSync
    <3> HIDE DEF new, old
    <3> SUFFICES ASSUME new # <<>> PROVE lastUsed'[Head(new)] = currentFence
      OBVIOUS
    <3>3. Head(new) = new[1] /\ 1 \in DOMAIN new /\ Head(new) \in Heaps
      BY <3>1
    <3>4. Head(new) # h /\ lastUsed[Head(new)] = currentFence
      BY <3>1, <3>2, <3>3 DEF Occurs, Within
    <3> QED
      BY <2>0, <3>3, <3>4 DEF StructInv, Shape
  <2>9. old = <<>> => new = <<>>
    <3>1. new \in Seq(Heaps) /\ Within(new, old)
      BY <2>1, RemovedFromLists
    <3> HIDE DEF new, old
    <3>2. new # <<>> => 1 \in DOMAIN new
      BY <3>1
    <3> QED
      BY <3>1, <3>2 DEF Within
  <2>10. PagedInWithinBudget'
    <3> SUFFICES ASSUME op.pc = "device", ~op.retry, NotificationsDisabled, info[s].Budget > 0
                 PROVE  \/ b1 - info[s].CurrentReservation + op.size[s] <= info[s].Budget
                        \/ new = <<>>
                        \/ lastUsed'[Head(new)] = currentFence
      BY <2>0, <2>4 DEF PagedInWithinBudget
    <3>1. \/ b - info[s].CurrentReservation + op.size[s] <= info[s].Budget
          \/ old = <<>>
          \/ lastUsed[Head(old)] = currentFence
      BY <2>4 DEF BudgetInv, PagedInWithinBudget
    <3> HIDE DEF new, old
    <3>2. b - info[s].CurrentReservation + op.size[s] <= info[s].Budget =>
             b1 - info[s].CurrentReservation + op.size[s] <= info[s].Budget
      BY <2>4, <2>5
    <3> QED
      BY <2>8, <2>9, <3>1, <3>2
  <2> QED
    BY <2>6, <2>7, <2>10 DEF BudgetInv
<1> QED
  BY <1>1, <1>2

(* A heap that D3D12 creates in between is not in the usage that was       *)
(* queried, nor in a list.                                                 *)
LEMMA PageableBudget ==
    ASSUME StructInv, BudgetInv, AbsentInv, NEW h \in Heaps, CreatePageable(h)
    PROVE  BudgetInv'
<1>0. /\ UNCHANGED <<cache, info, currentFence>> /\ life[h] # "live" /\ resident[h] = 0
      /\ op' = op \/ op' = [op EXCEPT !.late = @ \cup {h}]
      /\ op.pc \in {"loop", "wait", "device"} =>
            UNCHANGED <<lastUsed, resident, op>> \/ op' = [op EXCEPT !.late = @ \cup {h}]
  BY DEF CreatePageable, AbsentInv
<1>1. op \in FrameShape(op)
  BY DEF StructInv, Shape
<1>2. /\ op'.pc = op.pc /\ op'.kind = op.kind /\ op'.seg = op.seg /\ op'.bytes = op.bytes
      /\ op'.pageIn = op.pageIn /\ op'.size = op.size /\ op'.need = op.need
      /\ op'.evicted = op.evicted /\ op'.victims = op.victims /\ op'.retry = op.retry
      /\ op'.late \in {op.late, op.late \cup {h}}
      /\ op.pc \in {"loop", "wait", "device"} =>
            UNCHANGED <<lastUsed, resident, op>> \/ op'.late = op.late \cup {h}
  BY <1>0, <1>1 DEF FrameShape
<1>3. \A g \in Heaps : g # h => resident'[g] = resident[g] /\ lastUsed'[g] = lastUsed[g]
  BY DEF CreatePageable, StructInv, Shape
<1>4. op.pc \in {"loop", "wait", "device"} => Present(op.seg)' = Present(op.seg)
  BY <1>0, <1>2, <1>3 DEF Present
<1>5. op.pc \in {"loop", "wait", "device"} =>
         Staying(op.seg)' = Staying(op.seg) /\ UsageAtQuery(op.seg)' = UsageAtQuery(op.seg)
  BY <1>2, <1>4, UsageSum DEF Staying
<1>6. cache[op.seg] # <<>> => lastUsed'[Head(cache[op.seg])] = lastUsed[Head(cache[op.seg])]
  <2> SUFFICES ASSUME cache[op.seg] # <<>>
               PROVE  lastUsed'[Head(cache[op.seg])] = lastUsed[Head(cache[op.seg])]
    OBVIOUS
  <2>1. op.seg \in Segments
    BY <1>1 DEF FrameShape
  <2>2. Head(cache[op.seg]) \in Heaps /\ Occurs(Head(cache[op.seg]), cache[op.seg])
    BY <2>1, ListFacts, TailOfList
  <2> QED
    BY <1>0, <1>3, <2>1, <2>2, NotLiveUnused
<1> QED
  BY <1>0, <1>2, <1>5, <1>6 DEF BudgetInv, SizeInv, BytesInv, LoopInv, PagedInWithinBudget

(* Every step keeps D3D12 from counting heaps that do not exist.           *)
LEMMA StepAbsent ==
    ASSUME Orderly, ResourceHeapsOnly, StructInv, SyncInv, AbsentInv, [Next]_vars
    PROVE  AbsentInv'
<1>0. op \in FrameShape(op) /\ Idle.late = {}
  BY DEF StructInv, Shape, Idle
<1>1. ASSUME UNCHANGED <<life, resident>>, op'.late \in {op.late, {}} PROVE AbsentInv'
  BY <1>1 DEF AbsentInv
<1>2. ASSUME NEW h \in Heaps, CreatePageable(h) PROVE AbsentInv'
  <2>1. /\ life' = [life EXCEPT ![h] = "created"] /\ resident' = [resident EXCEPT ![h] = 1]
        /\ op' = op \/ op' = [op EXCEPT !.late = @ \cup {h}]
    BY <1>2 DEF CreatePageable, ResourceHeapsOnly, CountAtCreation
  <2>2. op'.late \subseteq op.late \cup {h} /\ op.late \subseteq Heaps
    BY <1>0, <2>1 DEF FrameShape
  <2> QED
    BY <2>1, <2>2 DEF AbsentInv, StructInv, Shape
<1>3. ASSUME NEW h \in Heaps, DestroyHeap(h) PROVE AbsentInv'
  <2>1. /\ life[h] = "live" /\ life' = [life EXCEPT ![h] = "absent"]
        /\ resident' = [resident EXCEPT ![h] = 0]
        /\ op' = op \/ op' = [op EXCEPT !.next = BehindHead(op.seg)]
    BY <1>3 DEF DestroyHeap
  <2>2. op'.late = op.late /\ op.late \subseteq Heaps
    BY <1>0, <2>1 DEF FrameShape
  <2> QED
    BY <2>1, <2>2 DEF AbsentInv, StructInv, Shape
<1>4. ASSUME NEW h \in Heaps, InsertCreated(h) PROVE AbsentInv'
  <2>1. op' = Idle /\ life' = [life EXCEPT ![h] = "live"] /\ UNCHANGED resident
    BY <1>4 DEF InsertCreated, device
  <2> QED
    BY <1>0, <2>1 DEF AbsentInv, StructInv, Shape
<1>5. CASE EvictBegin \/ EvictEnd
  <2>1. \A h \in Heaps : resident[h] = 0 => resident'[h] = 0
    BY <1>5 DEF EvictBegin, EvictEnd, device
  <2>2. op'.late \in {op.late, {}} /\ op.late \subseteq Heaps
    BY <1>0, <1>5 DEF EvictBegin, EvictEnd, EvictReturns, FrameShape
  <2>3. CASE UNCHANGED life
    BY <2>1, <2>2, <2>3 DEF AbsentInv
  <2>4. CASE /\ op.kind = "ensure" /\ op' = Idle
             /\ \E x \in {"ensured", "absent"} : life' = [life EXCEPT ![op.heap] = x]
    <3>1. op.heap \in Heaps /\ life[op.heap] = "absent"
      BY <2>4 DEF StructInv, OpInv
    <3> QED
      BY <1>0, <2>1, <2>4, <3>1 DEF AbsentInv, StructInv, Shape
  <2> QED
    BY <1>5, <2>3, <2>4 DEF EvictBegin, EvictEnd, EvictReturns
<1>6. CASE PageIn
  <2>1. /\ UNCHANGED life /\ op.pc = "device" /\ op.seg \in Segments
        /\ \A h \in Heaps : h \notin op.pageIn[op.seg] => resident'[h] = resident[h]
        /\ op'.late = {}
    BY <1>6 DEF PageIn, heapVars, StructInv, Shape, FrameShape
  <2>2. \A h \in Heaps : h \in op.pageIn[op.seg] => life[h] = "live"
    <3>1. op.kind \in {"lock", "exec"}
      BY <2>1 DEF SyncInv, FrameSync, StructInv, Shape, FrameShape
    <3>2. CASE op.kind = "lock"
      BY <2>1, <3>2 DEF SyncInv, PageInSync, StructInv, OpInv
    <3>3. CASE op.kind = "exec"
      BY <2>1, <3>3 DEF SyncInv, PageInSync, FrameSync, StructInv, OpInv
    <3> QED
      BY <3>1, <3>2, <3>3
  <2> QED
    BY <2>1, <2>2 DEF AbsentInv
<1>7. ASSUME NEW h \in Heaps, EnsureInBudget(h) \/ LockHeap(h) \/ UnlockHeap(h) PROVE AbsentInv'
  <2>1. op = Idle /\ UNCHANGED <<life, resident>>
    BY <1>7 DEF EnsureInBudget, LockHeap, UnlockHeap, heapVars, device
  <2>2. CASE UNCHANGED op
    BY <1>1, <2>1, <2>2
  <2>3. CASE EnsureInBudget(h)
    <3>1. op'.late = {}
      BY <2>3 DEF EnsureInBudget, Idle
    <3> QED
      BY <1>1, <2>1, <3>1
  <2>4. CASE LockHeap(h) /\ MustPageIn(h)
    <3>1. op'.late = {}
      BY <2>4 DEF LockHeap, MakeResident, Idle
    <3> QED
      BY <1>1, <2>1, <3>1
  <2> QED
    BY <1>7, <2>2, <2>3, <2>4 DEF LockHeap, UnlockHeap
<1>8. ASSUME NEW list, NEW queue, ExecuteCommandLists(list, queue) PROVE AbsentInv'
  <2>1. UNCHANGED <<life, resident>> /\ op'.late = {}
    BY <1>8 DEF ExecuteCommandLists, heapVars, device, Idle
  <2> QED
    BY <1>1, <2>1
<1>9. CASE FinishLock \/ ScanHeap \/ ScanDone \/ Submit \/ EvictPicks \/ EvictHead
  <2>1. UNCHANGED <<life, resident>>
    BY <1>9 DEF FinishLock, ScanHeap, ScanDone, Submit, EvictPicks, EvictHead, heapVars, device
  <2>2. CASE FinishLock \/ Submit
    BY <1>0, <1>1, <2>1, <2>2 DEF FinishLock, Submit
  <2>3. CASE ScanHeap
    BY <1>0, <1>1, <2>1, <2>3 DEF ScanHeap, FrameShape
  <2>4. CASE ScanDone
    BY <1>0, <1>1, <2>1, <2>4 DEF ScanDone, MakeResident, FrameShape
  <2>5. CASE EvictPicks \/ EvictHead
    BY <1>0, <1>1, <2>1, <2>5 DEF EvictPicks, EvictHead, FrameShape
  <2> QED
    BY <1>9, <2>2, <2>3, <2>4, <2>5
<1>10. ~PageInFails /\ ~OpFails
  BY DEF PageInFails, OpFails, Orderly
<1>11. ASSUME NEW s \in Segments,
              \/ \E bytes \in Reservations : SetVideoMemoryReservation(s, bytes)
              \/ QueryVideoMemoryInfo(s)
              \/ \E budget \in OsBudgets : OsChangesBudget(s, budget)
       PROVE  AbsentInv'
  BY <1>1, <1>11 DEF SetVideoMemoryReservation, QueryVideoMemoryInfo, OsChangesBudget, heapVars, device
<1>12. CASE BudgetWorkerUpdates \/ GpuCompletes \/ UNCHANGED vars
  BY <1>1, <1>12 DEF BudgetWorkerUpdates, GpuCompletes, vars, heapVars, device
<1> QED
  BY <1>2, <1>3, <1>4, <1>5, <1>6, <1>7, <1>8, <1>9, <1>10, <1>11, <1>12 DEF Next, ManagerStep

(* Every step keeps the account of the budget.                             *)
LEMMA StepBudget ==
    ASSUME Orderly, FitsInWord, ResourceHeapsOnly, "noQueue" \notin Behaviours,
           StructInv, SyncInv, CreatedSync, InfoInv, InfoInv', AbsentInv, BudgetInv, [Next]_vars
    PROVE  BudgetInv'
<1>1. ASSUME NEW h \in Heaps,
             EnsureInBudget(h) \/ CreatePageable(h) \/ LockHeap(h) \/ DestroyHeap(h)
      PROVE  BudgetInv'
  BY <1>1, EnsureBudget, PageableBudget, LockBudget, DestroyBudget
<1>2. ASSUME NEW h \in Heaps, InsertCreated(h) \/ UnlockHeap(h) PROVE BudgetInv'
  BY <1>2, IdleBudget DEF InsertCreated, UnlockHeap
<1>3. ASSUME NEW list, NEW queue, ExecuteCommandLists(list, queue) PROVE BudgetInv'
  BY <1>3, ExecuteBudget
<1>4. CASE FinishLock \/ Submit
  BY <1>4, IdleBudget DEF FinishLock, Submit
<1>5. CASE ScanHeap \/ ScanDone \/ EvictBegin \/ EvictPicks \/ EvictHead \/ EvictEnd \/ PageIn
  BY <1>5, ScanBudget, ScanDoneBudget, EvictBeginBudget, EvictPicksBudget, EvictHeadBudget,
     EvictEndBudget, PageInBudget
<1>6. ~PageInFails /\ ~OpFails
  BY DEF PageInFails, OpFails, Orderly
<1>7. ASSUME NEW s \in Segments,
             (\E bytes \in Reservations : SetVideoMemoryReservation(s, bytes)) \/ QueryVideoMemoryInfo(s)
      PROVE  BudgetInv'
  BY <1>7, IdleBudget DEF SetVideoMemoryReservation, QueryVideoMemoryInfo
<1>8. CASE BudgetWorkerUpdates
  BY <1>8, IdleBudget DEF BudgetWorkerUpdates
<1>9. ASSUME NEW s \in Segments, NEW budget \in OsBudgets, OsChangesBudget(s, budget) PROVE BudgetInv'
  BY <1>9, SameBudget DEF OsChangesBudget, heapVars
<1>10. CASE GpuCompletes \/ UNCHANGED vars
  BY <1>10, SameBudget DEF GpuCompletes, vars, heapVars, device
<1> QED
  BY <1>1, <1>2, <1>3, <1>4, <1>5, <1>6, <1>7, <1>8, <1>9, <1>10 DEF Next, ManagerStep

(* When the info is pulled from the OS, MakeResident asks the device to    *)
(* page heaps in with the segment within its budget, as far as the heaps   *)
(* go that were there when EvictInternal queried the usage, unless the     *)
(* list has nothing left to evict.  The unsigned subtraction of the        *)
(* reservation cannot break it: it may only overstate the usage.           *)
THEOREM PageInStaysWithinBudget ==
    ASSUME Orderly, FitsInWord, ResourceHeapsOnly, "noQueue" \notin Behaviours
    PROVE  Spec => []PagedInWithinBudget
<1> DEFINE Inv == InfoInv /\ AbsentInv /\ BudgetInv
<1>1. Init => Inv
  <2> SUFFICES ASSUME Init PROVE Inv
    OBVIOUS
  <2>1. AbsentInv
    BY DEF Init, AbsentInv, Idle
  <2>2. op.kind = "none" /\ op.pc = "idle" /\ \A s \in Segments : op.size[s] = 0 /\ op.pageIn[s] = {}
    BY IdleShape, IdleRest DEF Init
  <2>3. BudgetInv
    BY <2>2, SumEmpty DEF BudgetInv, SizeInv, BytesInv, LoopInv, PagedInWithinBudget
  <2> QED
    BY <2>1, <2>3, InitInfo
<1>2. StructInv /\ SyncInv /\ CreatedSync /\ Inv /\ [Next]_vars => Inv'
  BY StepInfo, StepAbsent, StepBudget
<1>3. Inv => PagedInWithinBudget
  BY DEF BudgetInv
<1> QED
  BY <1>1, <1>2, <1>3, InSync, PTL DEF Spec

=============================================================================
