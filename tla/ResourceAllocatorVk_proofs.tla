--------------------- MODULE ResourceAllocatorVk_proofs ---------------------
(***************************************************************************)
(* Proofs about the Vulkan resource allocator, for any number of threads,  *)
(* workers, resources, device memories and memory types.                   *)
(***************************************************************************)
EXTENDS ResourceAllocatorVk, SetSums

(* What the proofs assume of the calls: a resource needs memory.  With     *)
(* requirements of size 0 the call returns and the resource is left        *)
(* behind, as vk_empty_requirements.cfg shows.                             *)
RequestsHaveSize == \A cfg \in Configs : \A request \in cfg.requests : request.size > 0

-----------------------------------------------------------------------------
Fetching == {"allocate", "count", "ready", "deallocate", "uncount"}

Memory == [chain : {"sub", "device"}, type : MemoryTypeIndices, blocks : Nat, size : Nat]
Resource == [state : {"created", "bound"}, request : config.requests,
             memory : MemoryIds \cup {"none"}]
Call == [pc : Creating \cup Fetching \cup {"drop"}, resource : ResourceIds \cup {"none"},
         request : config.requests, type : MemoryTypeIndices \cup {NoType},
         chain : {"sub", "device"}, memory : MemoryIds \cup {"none"}, count : Int]

(* The state of the allocator and of the calls in progress.                *)
TypeOK ==
    /\ config \in Configs /\ isCreated \in BOOLEAN
    /\ memories \in [MemoryIds -> Memory \cup {NoMemory}]
    /\ resources \in [ResourceIds -> Resource \cup {NoResource}]
    /\ call \in [Callers -> Call \cup {Idle}]
    /\ usedCount \in [MemoryTypeIndices -> [DeviceMemoryAllocators -> Int]]

(* What a memory type must be for a request.                               *)
Suits(request, type) ==
    /\ type \in MemoryTypeIndices /\ type \in request.memoryTypeBits
    /\ request.requiredPropertyFlags \subseteq config.memoryTypes[type]

IsCreating(t) == t \in Threads /\ call[t].pc \in Creating

(* A call knows what it works on: a creation its resource, which nobody    *)
(* else has, and memory of the chain, type and size that was asked for.    *)
CallOK(t) ==
    /\ call[t].pc # "idle" => isCreated /\ (t \in Threads => t \in config.threads)
    /\ IsCreating(t) =>
         /\ call[t].resource \in ResourceIds /\ resources[call[t].resource].state = "created"
         /\ resources[call[t].resource].request = call[t].request
    /\ call[t].pc \in {"allocate", "count", "prefetch", "ready", "bind"} =>
         Suits(call[t].request, call[t].type)
    /\ call[t].pc \in Holding =>
         /\ call[t].memory \in MemoryIds /\ memories[call[t].memory] # NoMemory
         /\ memories[call[t].memory].type = call[t].type
         /\ memories[call[t].memory].chain = call[t].chain
         /\ memories[call[t].memory].size = call[t].request.size
    /\ call[t].pc \in {"uncount", "drop"} => call[t].type \in MemoryTypeIndices
    /\ call[t].pc \in {"prefetch", "drop"} => t \in Threads /\ call[t].chain = "sub"
    /\ call[t].pc = "prefetch" => config.prefetch
    /\ t \in Workers /\ call[t].pc # "idle" =>
         call[t].pc \in Fetching /\ call[t].chain = "sub" /\ config.prefetch

CallInv == \A t \in Callers : CallOK(t)

OneCreator ==
    \A t, u \in Threads :
      IsCreating(t) /\ IsCreating(u) /\ call[t].resource = call[u].resource => t = u

(* A bound resource has memory of its size, of a type that suits it.       *)
BoundInv ==
    \A r \in ResourceIds : resources[r].state = "bound" =>
      /\ isCreated
      /\ resources[r].memory \in MemoryIds /\ memories[resources[r].memory] # NoMemory
      /\ Suits(resources[r].request, memories[resources[r].memory].type)
      /\ memories[resources[r].memory].size = resources[r].request.size

(* The two parts of NothingLeaks; the first needs requests with a size.    *)
CreatedInv ==
    RequestsHaveSize =>
      \A r \in ResourceIds : resources[r].state = "created" => CreatorsOf(r) # {}

BlocksOK(m) ==
    memories[m] # NoMemory =>
      /\ isCreated
      /\ memories[m].blocks = Cardinality(UsersOf(m)) + Cardinality(HoldersOf(m))

BlocksInv == \A m \in MemoryIds : BlocksOK(m)

(* A pre-fetch belongs to a slab allocator that a bound resource or a call *)
(* refers to: whoever takes the last reference away drops the pre-fetch.   *)
IsReferring(t) ==
    t \in Threads /\ call[t].chain = "sub" /\ call[t].pc \in Holding \cup {"uncount", "drop"}

CallRefers(t, type, size) ==
    IsReferring(t) /\ call[t].type = type /\ call[t].request.size = size

ResourceRefers(r, type, size) ==
    LET m == resources[r].memory
    IN  /\ resources[r].state = "bound"
        /\ memories[m].chain = "sub" /\ memories[m].type = type /\ memories[m].size = size

IsReferenced(type, size) ==
    \/ \E r \in ResourceIds : ResourceRefers(r, type, size)
    \/ \E t \in Threads : CallRefers(t, type, size)

IsPrefetched(type, size) ==
    \E w \in Workers :
      call[w].pc # "idle" /\ call[w].type = type /\ call[w].request.size = size

PrefetchOK(w) == call[w].pc # "idle" => IsReferenced(call[w].type, call[w].request.size)

PrefetchInv == \A w \in Workers : PrefetchOK(w)

VkInv == TypeOK /\ CallInv /\ OneCreator /\ BoundInv /\ CreatedInv /\ BlocksInv /\ PrefetchInv

-----------------------------------------------------------------------------
(* Every non-empty bounded set of natural numbers has a largest element.   *)
LEMMA LargestNat ==
  ASSUME NEW n \in Nat, NEW S, S \subseteq 1..n, S # {}
  PROVE  \E x \in S : \A y \in S : y <= x
<1> DEFINE U == {k \in Nat : \A y \in S : y <= k}
<1>1. n \in U
  OBVIOUS
<1>2. PICK k \in U : \A j \in U : k <= j
  <2> HIDE DEF U
  <2>1. U \subseteq Nat
    BY DEF U
  <2>2. QED
    BY <1>1, <2>1, SmallestNat
<1>3. k \in S
  <2> SUFFICES ASSUME k \notin S PROVE FALSE
    OBVIOUS
  <2>1. PICK y \in S : TRUE
    OBVIOUS
  <2>2. k - 1 \in Nat /\ \A z \in S : z <= k - 1
    BY <1>2, <2>1
  <2>3. k - 1 \in U
    BY <2>2
  <2>4. QED
    BY <2>3, <1>2
<1>4. QED
  BY <1>2, <1>3

(* The requirements of every request are well-formed.                      *)
LEMMA RequestType ==
  ASSUME config \in Configs, NEW request \in config.requests
  PROVE  /\ request.size \in Nat
         /\ request.memoryTypeBits \subseteq Nat
         /\ request.neverSubAllocate \in BOOLEAN
         /\ config.onDemand \in BOOLEAN /\ config.prefetch \in BOOLEAN
BY ResourceAllocatorVkAssumption
   DEF IsConfig, GpResourceAllocationCreateInfo, GpAllocatorCreateInfo

(* FindMemoryTypeIndex returns a memory type only if it suits the request. *)
LEMMA FoundTypeSuits ==
  ASSUME config \in Configs, NEW request \in config.requests,
         FindMemoryTypeIndex(request) # NoType
  PROVE  Suits(request, FindMemoryTypeIndex(request))
<1> DEFINE candidates == {type \in MemoryTypeIndices \cap request.memoryTypeBits :
                            request.requiredPropertyFlags \subseteq config.memoryTypes[type]}
<1>1. candidates # {}
  BY DEF FindMemoryTypeIndex
<1>2. PICK n \in Nat : MemoryTypeIndices = 1..n
  <2>1. config.memoryTypes \in Seq(PropertyFlags)
    BY ResourceAllocatorVkAssumption DEF IsConfig
  <2>2. MemoryTypeIndices = 1..Len(config.memoryTypes) /\ Len(config.memoryTypes) \in Nat
    BY <2>1 DEF MemoryTypeIndices
  <2>3. QED
    BY <2>2
<1>3. \E type \in candidates : \A other \in candidates : other <= type
  <2>1. candidates \subseteq 1..n
    BY <1>2
  <2>2. QED
    BY <1>1, <2>1, LargestNat
<1>4. FindMemoryTypeIndex(request) \in candidates
  BY <1>1, <1>3 DEF FindMemoryTypeIndex
<1>5. QED
  BY <1>4 DEF Suits

-----------------------------------------------------------------------------
(* What a step of caller t leaves alone.                                   *)
OtherCallsKept(t) == \A u \in Callers \ {t} : call'[u] = call[u]
OtherResourcesKept(r) == \A q \in ResourceIds \ {r} : resources'[q] = resources[q]
OtherMemoriesKept(m) == \A o \in MemoryIds \ {m} : memories'[o] = memories[o]

(* Device memory that is neither freed nor replaced.                       *)
KindKept(m) ==
    /\ memories'[m] # NoMemory /\ memories'[m].chain = memories[m].chain
    /\ memories'[m].type = memories[m].type /\ memories'[m].size = memories[m].size

LEMMA CallersFinite == IsFiniteSet(Callers) /\ Threads \cap Workers = {}
BY ResourceAllocatorVkAssumption, FS_Union DEF Callers

(* How the holders of a block change with the call of one caller.          *)
LEMMA HoldersChange ==
  ASSUME NEW t, NEW m, OtherCallsKept(t)
  PROVE  /\ Cardinality(HoldersOf(m)) \in Nat /\ Cardinality(HoldersOf(m))' \in Nat
         /\ Cardinality(HoldersOf(m))' =
              Cardinality(HoldersOf(m)) + (IF t \in HoldersOf(m)' THEN 1 ELSE 0)
                                        - (IF t \in HoldersOf(m) THEN 1 ELSE 0)
<1>1. IsFiniteSet(HoldersOf(m))
  BY CallersFinite, FS_Subset DEF HoldersOf
<1>2. HoldersOf(m)' \ {t} = HoldersOf(m) \ {t}
  BY DEF HoldersOf, OtherCallsKept
<1>3. QED
  BY <1>1, <1>2, DifferInOne

(* How the users of a memory change with one resource.                     *)
LEMMA UsersChange ==
  ASSUME NEW r, NEW m, OtherResourcesKept(r)
  PROVE  /\ Cardinality(UsersOf(m)) \in Nat /\ Cardinality(UsersOf(m))' \in Nat
         /\ Cardinality(UsersOf(m))' =
              Cardinality(UsersOf(m)) + (IF r \in UsersOf(m)' THEN 1 ELSE 0)
                                      - (IF r \in UsersOf(m) THEN 1 ELSE 0)
<1>1. IsFiniteSet(UsersOf(m))
  BY ResourceAllocatorVkAssumption, FS_Subset DEF UsersOf
<1>2. UsersOf(m)' \ {r} = UsersOf(m) \ {r}
  BY DEF UsersOf, OtherResourcesKept
<1>3. QED
  BY <1>1, <1>2, DifferInOne

(* A call that the step is not about is still right, unless its resource   *)
(* or its memory was changed.                                              *)
LEMMA CallKept ==
  ASSUME NEW u, CallOK(u), call'[u] = call[u], UNCHANGED <<config, isCreated>>,
         IsCreating(u) =>
           /\ resources'[call[u].resource].state = resources[call[u].resource].state
           /\ resources'[call[u].resource].request = resources[call[u].resource].request,
         call[u].pc \in Holding => KindKept(call[u].memory)
  PROVE  CallOK(u)'
BY DEF CallOK, IsCreating, Suits, MemoryTypeIndices, NoMemory, KindKept

(* No call takes over the resource of another.                             *)
LEMMA OneCreatorKept ==
  ASSUME OneCreator, NEW t, OtherCallsKept(t),
         IsCreating(t)' =>
           \/ IsCreating(t) /\ call'[t].resource = call[t].resource
           \/ CreatorsOf(call'[t].resource) = {}
  PROVE  OneCreator'
BY DEF OneCreator, OtherCallsKept, CreatorsOf, IsCreating, Callers

(* No resource is left without a creator.                                  *)
LEMMA CreatedKept ==
  ASSUME CreatedInv, NEW t \in Callers, OtherCallsKept(t),
         RequestsHaveSize => \A r \in ResourceIds : resources'[r].state = "created" =>
           \/ IsCreating(t)' /\ call'[t].resource = r
           \/ /\ resources[r].state = "created"
              /\ ~ (IsCreating(t) /\ call[t].resource = r)
  PROVE  CreatedInv'
BY DEF CreatedInv, OtherCallsKept, CreatorsOf, IsCreating, Callers

(* The bound resources a step is not about keep their memory.              *)
LEMMA BoundKept ==
  ASSUME BoundInv, UNCHANGED <<config, isCreated>>,
         \A r \in ResourceIds : resources'[r].state = "bound" =>
           /\ resources'[r] = resources[r] /\ KindKept(resources[r].memory)
  PROVE  BoundInv'
BY DEF BoundInv, Suits, MemoryTypeIndices, NoMemory, KindKept

(* By how much a step changes the blocks that caller t holds and resource  *)
(* r uses.                                                                 *)
Taken(o, t, r) ==
    (IF t \in HoldersOf(o)' THEN 1 ELSE 0) - (IF t \in HoldersOf(o) THEN 1 ELSE 0)
    + (IF r \in UsersOf(o)' THEN 1 ELSE 0) - (IF r \in UsersOf(o) THEN 1 ELSE 0)

(* The blocks of a memory change with what one caller holds and one        *)
(* resource uses.                                                          *)
LEMMA BlocksKept ==
  ASSUME NEW o, BlocksOK(o), NEW t, OtherCallsKept(t), NEW r, OtherResourcesKept(r),
         memories'[o] # NoMemory =>
           /\ isCreated' /\ memories[o] # NoMemory
           /\ memories'[o].blocks = memories[o].blocks + Taken(o, t, r)
  PROVE  BlocksOK(o)'
<1> DEFINE H == Cardinality(HoldersOf(o))
           U == Cardinality(UsersOf(o))
<1>1. /\ H \in Nat /\ H' \in Nat
      /\ H' = H + (IF t \in HoldersOf(o)' THEN 1 ELSE 0) - (IF t \in HoldersOf(o) THEN 1 ELSE 0)
  BY HoldersChange
<1>2. /\ U \in Nat /\ U' \in Nat
      /\ U' = U + (IF r \in UsersOf(o)' THEN 1 ELSE 0) - (IF r \in UsersOf(o) THEN 1 ELSE 0)
  BY UsersChange
<1>3. memories[o] # NoMemory => memories[o].blocks = U + H
  BY DEF BlocksOK
<1> HIDE DEF H, U
<1>4. memories'[o] # NoMemory => isCreated' /\ memories'[o].blocks = U' + H'
  BY <1>1, <1>2, <1>3 DEF Taken
<1>5. QED
  BY <1>4 DEF BlocksOK, H, U, NoMemory

(* A pre-fetch goes on while somebody refers to its slab allocator.        *)
LEMMA PrefetchKept ==
  ASSUME PrefetchInv,
         \A w \in Workers : call'[w].pc # "idle" =>
           /\ call[w].pc # "idle" /\ call'[w].type = call[w].type
           /\ call'[w].request = call[w].request,
         \A type, size : IsPrefetched(type, size)' /\ IsReferenced(type, size) =>
           IsReferenced(type, size)'
  PROVE  PrefetchInv'
<1> SUFFICES ASSUME NEW w \in Workers, call'[w].pc # "idle", NEW type, type = call'[w].type,
                    NEW size, size = call'[w].request.size
             PROVE  IsReferenced(type, size)'
  BY DEF PrefetchInv, PrefetchOK
<1>1. IsReferenced(type, size)
  BY DEF PrefetchInv, PrefetchOK
<1>2. IsPrefetched(type, size)'
  BY DEF IsPrefetched
<1> QED
  BY <1>1, <1>2

(* The step of one caller t, after which what it referred to is referred   *)
(* to by it or another.                                                    *)
LEMMA ReferencesKept ==
  ASSUME PrefetchInv, NEW t \in Callers, OtherCallsKept(t),
         t \in Workers /\ call'[t].pc # "idle" =>
           /\ call[t].pc # "idle" /\ call'[t].type = call[t].type
           /\ call'[t].request = call[t].request,
         \A type, size : \A r \in ResourceIds : ResourceRefers(r, type, size) =>
           IsReferenced(type, size)',
         \A type, size : IsPrefetched(type, size)' /\ CallRefers(t, type, size) =>
           IsReferenced(type, size)'
  PROVE  PrefetchInv'
<1>1. ASSUME NEW w \in Workers, call'[w].pc # "idle"
      PROVE  /\ call[w].pc # "idle" /\ call'[w].type = call[w].type
             /\ call'[w].request = call[w].request
  BY <1>1 DEF OtherCallsKept, Callers
<1>2. ASSUME NEW type, NEW size, IsPrefetched(type, size)', IsReferenced(type, size)
      PROVE  IsReferenced(type, size)'
  <2>1. ASSUME NEW u \in Threads \ {t}, CallRefers(u, type, size)
        PROVE  IsReferenced(type, size)'
    <3>1. call'[u] = call[u]
      BY DEF OtherCallsKept, Callers
    <3>2. CallRefers(u, type, size)'
      BY <2>1, <3>1 DEF CallRefers, IsReferring
    <3> QED
      BY <3>2 DEF IsReferenced
  <2> QED
    BY <1>2, <2>1 DEF IsReferenced
<1> QED
  BY <1>1, <1>2, PrefetchKept

(* Memory that does not exist is neither used nor held.                    *)
LEMMA NoMemoryUnused ==
  ASSUME VkInv, NEW m \in MemoryIds, memories[m] = NoMemory
  PROVE  UsersOf(m) = {} /\ HoldersOf(m) = {}
<1>1. UsersOf(m) = {}
  BY DEF VkInv, BoundInv, UsersOf
<1>2. HoldersOf(m) = {}
  BY DEF VkInv, CallInv, CallOK, HoldersOf
<1> QED
  BY <1>1, <1>2

-----------------------------------------------------------------------------
(* Whether a step leaves the creation of caller t in it: its resource, or  *)
(* nothing if a request may need no memory.                                *)
CreationKept(t) ==
    /\ IsCreating(t)' => IsCreating(t) /\ call'[t].resource = call[t].resource
    /\ RequestsHaveSize => (IsCreating(t) => IsCreating(t)')

(* What becomes of the slab allocators that call t refers to.              *)
ReferenceKept(t) ==
    /\ t \in Workers /\ call'[t].pc # "idle" =>
         /\ call[t].pc # "idle" /\ call'[t].type = call[t].type
         /\ call'[t].request = call[t].request
    /\ \A type, size : IsPrefetched(type, size)' /\ CallRefers(t, type, size) =>
         IsReferenced(type, size)'

(* What becomes of memory o: it may be freed if only call t has a block,   *)
(* and its blocks change with what call t holds.                           *)
MemoryKept(t, o) ==
    /\ memories[o] # NoMemory =>
         KindKept(o) \/ (UsersOf(o) = {} /\ HoldersOf(o) \subseteq {t})
    /\ memories'[o] # NoMemory =>
         /\ isCreated
         /\ memories'[o].blocks = (IF memories[o] = NoMemory THEN 0 ELSE memories[o].blocks)
                                  + (IF t \in HoldersOf(o)' THEN 1 ELSE 0)
                                  - (IF t \in HoldersOf(o) THEN 1 ELSE 0)

(* A step of caller t that changes no resource, and the memory at most as  *)
(* far as it changes what t holds.                                         *)
LEMMA CallStep ==
  ASSUME VkInv, NEW t \in Callers, OtherCallsKept(t), UNCHANGED <<config, isCreated, resources>>,
         TypeOK', CallOK(t)', CreationKept(t), ReferenceKept(t),
         \A o \in MemoryIds : MemoryKept(t, o)
  PROVE  VkInv'
<1>1. CallInv'
  <2> SUFFICES ASSUME NEW u \in Callers \ {t} PROVE CallOK(u)'
    BY DEF CallInv
  <2>1. CallOK(u) /\ call'[u] = call[u]
    BY DEF VkInv, CallInv, OtherCallsKept
  <2>2. call[u].pc \in Holding => KindKept(call[u].memory)
    <3> SUFFICES ASSUME call[u].pc \in Holding PROVE KindKept(call[u].memory)
      OBVIOUS
    <3>1. call[u].memory \in MemoryIds /\ memories[call[u].memory] # NoMemory
      BY <2>1 DEF CallOK
    <3>2. u \in HoldersOf(call[u].memory)
      BY DEF HoldersOf
    <3> QED
      BY <3>1, <3>2 DEF MemoryKept
  <2> QED
    BY <2>1, <2>2, CallKept
<1>2. OneCreator' /\ CreatedInv'
  BY OneCreatorKept, CreatedKept DEF VkInv, CreationKept
<1>3. ASSUME NEW r \in ResourceIds, resources[r].state = "bound"
      PROVE  KindKept(resources[r].memory)
  <2>1. /\ resources[r].memory \in MemoryIds /\ memories[resources[r].memory] # NoMemory
        /\ r \in UsersOf(resources[r].memory)
    BY <1>3 DEF VkInv, BoundInv, UsersOf
  <2> QED
    BY <2>1 DEF MemoryKept
<1>4. BoundInv'
  BY <1>3, BoundKept DEF VkInv
<1>5. ASSUME NEW o \in MemoryIds PROVE BlocksOK(o)'
  <2>1. UsersOf(o)' = UsersOf(o)
    BY DEF UsersOf
  <2>2. /\ Cardinality(HoldersOf(o)) \in Nat /\ Cardinality(HoldersOf(o))' \in Nat
        /\ Cardinality(HoldersOf(o))' =
             Cardinality(HoldersOf(o)) + (IF t \in HoldersOf(o)' THEN 1 ELSE 0)
                                       - (IF t \in HoldersOf(o) THEN 1 ELSE 0)
    BY HoldersChange
  <2>3. Cardinality(UsersOf(o)) \in Nat
    BY ResourceAllocatorVkAssumption, FS_Subset, FS_CardinalityType DEF UsersOf
  <2>4. (IF memories[o] = NoMemory THEN 0 ELSE memories[o].blocks)
          = Cardinality(UsersOf(o)) + Cardinality(HoldersOf(o))
    <3>1. CASE memories[o] = NoMemory
      BY <3>1, NoMemoryUnused, FS_EmptySet
    <3>2. CASE memories[o] # NoMemory
      BY <3>2 DEF VkInv, BlocksInv, BlocksOK
    <3> QED
      BY <3>1, <3>2
  <2>5. memories'[o] # NoMemory =>
          isCreated' /\ memories'[o].blocks = Cardinality(UsersOf(o)) + Cardinality(HoldersOf(o))'
    <3> DEFINE H == Cardinality(HoldersOf(o))
    <3> HIDE DEF H
    <3> QED
      BY <2>2, <2>3, <2>4 DEF H, MemoryKept
  <2> QED
    BY <2>1, <2>5 DEF BlocksOK, NoMemory
<1>6. PrefetchInv'
  <2>1. ASSUME NEW type, NEW size, NEW r \in ResourceIds, ResourceRefers(r, type, size)
        PROVE  IsReferenced(type, size)'
    BY <1>3, <2>1 DEF ResourceRefers, IsReferenced, KindKept
  <2> QED
    BY <2>1, ReferencesKept DEF VkInv, ReferenceKept
<1> QED
  BY <1>1, <1>2, <1>4, <1>5, <1>6 DEF VkInv, BlocksInv

(* A step of caller t alone.                                               *)
LEMMA CallOnlyStep ==
  ASSUME VkInv, NEW t \in Callers, OtherCallsKept(t),
         UNCHANGED <<config, isCreated, memories, resources>>,
         TypeOK', CallOK(t)', CreationKept(t), ReferenceKept(t),
         \A o \in MemoryIds : t \in HoldersOf(o)' <=> t \in HoldersOf(o)
  PROVE  VkInv'
<1>1. ASSUME NEW o \in MemoryIds, memories[o] # NoMemory
      PROVE  KindKept(o) /\ isCreated /\ memories[o].blocks \in Nat
  BY <1>1 DEF VkInv, TypeOK, BlocksInv, BlocksOK, KindKept, Memory
<1>2. ASSUME NEW o \in MemoryIds, memories'[o] # NoMemory
      PROVE  memories'[o].blocks = (IF memories[o] = NoMemory THEN 0 ELSE memories[o].blocks)
                                   + (IF t \in HoldersOf(o)' THEN 1 ELSE 0)
                                   - (IF t \in HoldersOf(o) THEN 1 ELSE 0)
  <2>1. memories'[o] = memories[o] /\ memories[o] # NoMemory
    BY <1>2 DEF NoMemory
  <2>2. (IF t \in HoldersOf(o)' THEN 1 ELSE 0) = (IF t \in HoldersOf(o) THEN 1 ELSE 0)
    OBVIOUS
  <2> QED
    BY <1>1, <2>1, <2>2
<1>3. ASSUME NEW o \in MemoryIds, memories'[o] # NoMemory
      PROVE  isCreated
  BY <1>1, <1>3 DEF NoMemory
<1>4. \A o \in MemoryIds : MemoryKept(t, o)
  BY <1>1, <1>2, <1>3 DEF MemoryKept
<1>5. UNCHANGED <<config, isCreated, resources>>
  OBVIOUS
<1> QED
  BY <1>4, <1>5, CallStep

-----------------------------------------------------------------------------
(* What is known of a call in progress.                                    *)
LEMMA InCall ==
  ASSUME VkInv, NEW t \in Callers, call[t].pc # "idle"
  PROVE  /\ call[t] \in Call /\ CallOK(t) /\ isCreated /\ config \in Configs
         /\ call[t].request \in config.requests /\ call[t].request.size \in Nat
         /\ config.onDemand \in BOOLEAN /\ config.prefetch \in BOOLEAN
         /\ call[t].request.neverSubAllocate \in BOOLEAN
         /\ call[t].pc \notin {"require", "failed"} => call[t].type \in MemoryTypeIndices
<1>1. call[t] \in Call /\ CallOK(t) /\ config \in Configs
  BY DEF VkInv, TypeOK, CallInv, Idle
<1>2. call[t].request \in config.requests /\ isCreated
  BY <1>1 DEF Call, CallOK
<1>3. call[t].pc \notin {"require", "failed"} => call[t].type \in MemoryTypeIndices
  BY <1>1 DEF VkInv, TypeOK, Memory, CallOK, Suits, Call, Creating, Fetching, Holding
<1> QED
  BY <1>1, <1>2, <1>3, RequestType

(* A step that gives call t a new value.                                   *)
LEMMA Updated ==
  ASSUME TypeOK, NEW t \in Callers, NEW c \in Call \cup {Idle}, call' = [call EXCEPT ![t] = c]
  PROVE  call'[t] = c /\ OtherCallsKept(t) /\ call' \in [Callers -> Call \cup {Idle}]
BY DEF TypeOK, OtherCallsKept

(* A call that refers to its slab allocator and goes on to.                *)
LEMMA StillRefers ==
  ASSUME NEW t,
         IsReferring(t) => /\ IsReferring(t)' /\ call'[t].type = call[t].type
                           /\ call'[t].request = call[t].request,
         t \in Workers /\ call'[t].pc # "idle" =>
           /\ call[t].pc # "idle" /\ call'[t].type = call[t].type
           /\ call'[t].request = call[t].request
  PROVE  ReferenceKept(t)
BY DEF ReferenceKept, CallRefers, IsReferring, IsReferenced

(* With the requirements known, a creation looks for a memory type.        *)
LEMMA RequireStep ==
  ASSUME VkInv, NEW t \in Callers, GetMemoryRequirements(t)
  PROVE  VkInv'
<1> DEFINE type == FindMemoryTypeIndex(call[t].request)
<1>1. /\ UNCHANGED <<config, isCreated, memories, resources, usedCount>>
      /\ call[t].pc = "require"
  BY DEF GetMemoryRequirements
<1>2. /\ call[t] \in Call /\ CallOK(t) /\ isCreated /\ config \in Configs
      /\ call[t].request \in config.requests /\ call[t].request.neverSubAllocate \in BOOLEAN
  BY <1>1, InCall
<1>3. t \in Threads /\ t \notin Workers
  BY <1>1, <1>2, CallersFinite DEF CallOK, Fetching, Callers
<1>4. ~IsReferring(t)
  BY <1>1 DEF IsReferring, Holding
<1>5. CASE call[t].request.size = 0
  <2>1. ~RequestsHaveSize
    BY <1>2, <1>5 DEF RequestsHaveSize
  <2>2. call'[t] = Idle /\ OtherCallsKept(t) /\ call' \in [Callers -> Call \cup {Idle}]
    BY <1>5, Updated DEF VkInv, GetMemoryRequirements, Return
  <2>3. TypeOK'
    BY <1>1, <2>2 DEF VkInv, TypeOK, Memory, Resource, Call, MemoryTypeIndices
  <2>4. call'[t].pc = "idle"
    BY <2>2 DEF Idle
  <2>5. CallOK(t)' /\ CreationKept(t)
    BY <2>1, <2>4 DEF CallOK, Creating, Holding, CreationKept, IsCreating
  <2>6. ReferenceKept(t)
    BY <1>4, <2>4, StillRefers
  <2>7. \A o \in MemoryIds : t \in HoldersOf(o)' <=> t \in HoldersOf(o)
    BY <1>1, <2>4 DEF HoldersOf, Holding
  <2> QED
    BY <1>1, <2>2, <2>3, <2>5, <2>6, <2>7, CallOnlyStep
<1>6. CASE call[t].request.size # 0
  <2> DEFINE pc == IF type = NoType THEN "failed" ELSE "allocate"
             chain == IF call[t].request.neverSubAllocate THEN "device" ELSE "sub"
             c == [call[t] EXCEPT !.pc = pc, !.type = type, !.chain = chain]
  <2>1. call' = [call EXCEPT ![t] = c]
    BY <1>1, <1>6 DEF GetMemoryRequirements, VkInv, TypeOK
  <2>2. type # NoType => Suits(call[t].request, type)
    BY <1>2, FoundTypeSuits
  <2>3. type \in MemoryTypeIndices \cup {NoType}
    BY <2>2 DEF Suits
  <2> HIDE DEF type
  <2>4. /\ pc \in {"failed", "allocate"} /\ (pc = "allocate" => type # NoType)
        /\ chain \in {"sub", "device"}
    OBVIOUS
  <2> HIDE DEF pc, chain
  <2>5. /\ c \in Call /\ c.pc = pc /\ c.type = type /\ c.chain = chain
        /\ c.resource = call[t].resource /\ c.request = call[t].request
    BY <1>2, <2>3, <2>4 DEF Call, Creating
  <2> HIDE DEF c
  <2>6. call'[t] = c /\ OtherCallsKept(t) /\ call' \in [Callers -> Call \cup {Idle}]
    BY <2>1, <2>5, Updated DEF VkInv
  <2>7. TypeOK'
    BY <1>1, <2>6 DEF VkInv, TypeOK, Memory, Resource, Call, MemoryTypeIndices
  <2>8. CallOK(t)'
    BY <1>1, <1>2, <1>3, <2>2, <2>4, <2>5, <2>6
       DEF CallOK, IsCreating, Suits, MemoryTypeIndices, Creating, Holding
  <2>9. CreationKept(t) /\ ReferenceKept(t)
    BY <1>1, <1>3, <1>4, <2>4, <2>5, <2>6, StillRefers DEF CreationKept, IsCreating, Creating
  <2>10. \A o \in MemoryIds : t \in HoldersOf(o)' <=> t \in HoldersOf(o)
    BY <1>1, <2>4, <2>5, <2>6 DEF HoldersOf, Holding
  <2> QED
    BY <1>1, <2>6, <2>7, <2>8, <2>9, <2>10, CallOnlyStep
<1> QED
  BY <1>5, <1>6

(* A chain that fails passes the call on; a pre-fetch ends.                *)
LEMMA FailStep ==
  ASSUME VkInv, NEW t \in Callers, TryAllocateFails(t)
  PROVE  VkInv'
<1>1. /\ UNCHANGED <<config, isCreated, memories, resources, usedCount>>
      /\ call[t].pc = "allocate"
  BY DEF TryAllocateFails, IsAllocating
<1>2. call[t] \in Call /\ CallOK(t) /\ isCreated
  BY <1>1, InCall
<1> DEFINE c == IF t \in Workers THEN Idle
                ELSE IF call[t].chain = "sub" THEN [call[t] EXCEPT !.chain = "device"]
                ELSE [call[t] EXCEPT !.pc = "failed"]
<1>3. call' = [call EXCEPT ![t] = c]
  BY DEF TryAllocateFails
<1>4. /\ c \in Call \cup {Idle} /\ c.pc \in {"idle", "allocate", "failed"}
      /\ c.pc = "idle" <=> t \in Workers
      /\ c.pc # "idle" =>
           c.type = call[t].type /\ c.resource = call[t].resource /\ c.request = call[t].request
  <2>1. CASE t \in Workers
    BY <2>1 DEF Idle
  <2>2. CASE t \notin Workers /\ call[t].chain = "sub"
    BY <1>1, <1>2, <2>2 DEF Call
  <2>3. CASE t \notin Workers /\ call[t].chain # "sub"
    BY <1>1, <1>2, <2>3 DEF Call, Creating
  <2> QED
    BY <2>1, <2>2, <2>3
<1> HIDE DEF c
<1>5. call'[t] = c /\ OtherCallsKept(t) /\ call' \in [Callers -> Call \cup {Idle}]
  BY <1>3, <1>4, Updated DEF VkInv
<1>6. TypeOK'
  BY <1>1, <1>5 DEF VkInv, TypeOK, Memory, Resource, Call, MemoryTypeIndices
<1>7. CallOK(t)'
  BY <1>1, <1>2, <1>4, <1>5 DEF CallOK, IsCreating, Suits, MemoryTypeIndices, Creating, Holding
<1>8. CreationKept(t)
  BY <1>1, <1>4, <1>5, CallersFinite DEF CreationKept, IsCreating, Creating
<1>9. ReferenceKept(t)
  <2>1. ~IsReferring(t)
    BY <1>1 DEF IsReferring, Holding
  <2> QED
    BY <1>4, <1>5, <2>1, StillRefers
<1>10. \A o \in MemoryIds : t \in HoldersOf(o)' <=> t \in HoldersOf(o)
  BY <1>1, <1>4, <1>5 DEF HoldersOf, Holding
<1> QED
  BY <1>1, <1>5, <1>6, <1>7, <1>8, <1>9, <1>10, CallOnlyStep

-----------------------------------------------------------------------------
(* What follows once a call has a block.                                   *)
LEMMA AfterAllocateType ==
  ASSUME VkInv, NEW t \in Callers, call[t].pc # "idle"
  PROVE  /\ AfterAllocate(t) \in {"ready", "prefetch", "bind"}
         /\ AfterAllocate(t) = "ready" <=> t \in Workers
         /\ AfterAllocate(t) = "prefetch" => call[t].chain = "sub" /\ config.prefetch
BY DEF AfterAllocate

(* A call that looks for memory takes a block of memory m, which is of its *)
(* chain, type and size, be it old or new.                                 *)
LEMMA TakeStep ==
  ASSUME VkInv, NEW t \in Callers, call[t].pc = "allocate", NEW m \in MemoryIds,
         UNCHANGED <<config, isCreated, resources, usedCount>>,
         OtherMemoriesKept(m), memories' \in [MemoryIds -> Memory \cup {NoMemory}],
         memories'[m] = [chain |-> call[t].chain, type |-> call[t].type,
                         blocks |-> 1 + (IF memories[m] = NoMemory THEN 0 ELSE memories[m].blocks),
                         size |-> call[t].request.size],
         memories[m] # NoMemory => KindKept(m),
         NEW pc, pc = AfterAllocate(t) \/ pc = "count", NEW count \in Int,
         call' = [call EXCEPT ![t] = [call[t] EXCEPT !.pc = pc, !.memory = m, !.count = count]]
  PROVE  VkInv'
<1> DEFINE c == [call[t] EXCEPT !.pc = pc, !.memory = m, !.count = count]
<1>1. call[t] \in Call /\ CallOK(t) /\ isCreated /\ call[t].type \in MemoryTypeIndices
  BY InCall
<1>2. /\ pc \in {"count", "ready", "prefetch", "bind"} /\ (pc # "count" => (pc = "ready" <=> t \in Workers))
      /\ pc = "prefetch" => call[t].chain = "sub" /\ config.prefetch
  BY AfterAllocateType
<1>3. /\ c \in Call /\ c.pc = pc /\ c.memory = m /\ c.type = call[t].type
      /\ c.request = call[t].request /\ c.resource = call[t].resource /\ c.chain = call[t].chain
  BY <1>1, <1>2 DEF Call, Creating, Fetching
<1> HIDE DEF c
<1>4. call'[t] = c /\ OtherCallsKept(t) /\ call' \in [Callers -> Call \cup {Idle}]
  BY <1>3, Updated DEF VkInv, c
<1>5. TypeOK'
  BY <1>4 DEF VkInv, TypeOK, Memory, Resource, Call, MemoryTypeIndices
<1>6. CallOK(t)'
  <2>1. memories'[m] # NoMemory /\ t \in Workers \cup Threads /\ ~(t \in Workers /\ t \in Threads)
    BY CallersFinite DEF NoMemory, Callers
  <2> QED
    BY <1>1, <1>2, <1>3, <1>4, <2>1
       DEF CallOK, IsCreating, Suits, MemoryTypeIndices, Creating, Fetching, Holding, NoMemory
<1>7. CreationKept(t)
  BY <1>2, <1>3, <1>4, CallersFinite DEF CreationKept, IsCreating, Creating
<1>8. ReferenceKept(t)
  <2>1. ~IsReferring(t)
    BY DEF IsReferring, Holding
  <2> QED
    BY <1>2, <1>3, <1>4, <2>1, StillRefers
<1>9. ASSUME NEW o \in MemoryIds PROVE MemoryKept(t, o)
  <2>1. t \notin HoldersOf(o) /\ (t \in HoldersOf(o)' <=> o = m)
    BY <1>2, <1>3, <1>4 DEF HoldersOf, Holding
  <2>2. CASE o = m
    <3>1. memories[m] # NoMemory => memories[m].blocks \in Nat
      BY DEF VkInv, TypeOK, Memory
    <3> QED
      BY <1>1, <2>1, <2>2, <3>1 DEF MemoryKept
  <2>3. CASE o # m
    <3>1. memories'[o] = memories[o]
      BY <2>3 DEF OtherMemoriesKept
    <3>2. memories[o] # NoMemory => KindKept(o) /\ memories[o].blocks \in Nat
      BY <3>1 DEF KindKept, VkInv, TypeOK, Memory
    <3> QED
      BY <1>1, <2>1, <2>3, <3>1, <3>2 DEF MemoryKept
  <2> QED
    BY <2>2, <2>3
<1> QED
  BY <1>4, <1>5, <1>6, <1>7, <1>8, <1>9, CallStep

(* A block of memory in use or of the pool.                                *)
LEMMA ReuseStep ==
  ASSUME VkInv, NEW t \in Callers, ReuseMemory(t)
  PROVE  VkInv'
<1>1. PICK m \in MemoryIds :
        /\ memories[m].chain = call[t].chain /\ memories[m].type = call[t].type
        /\ memories[m].size = call[t].request.size
        /\ memories' = [memories EXCEPT ![m].blocks = @ + 1]
        /\ call' = [call EXCEPT ![t].pc = AfterAllocate(t), ![t].memory = m]
  BY DEF ReuseMemory
<1>2. call[t].pc = "allocate" /\ UNCHANGED <<config, isCreated, resources, usedCount>>
  BY DEF ReuseMemory, IsAllocating
<1>3. call[t] \in Call /\ call[t].count \in Int
  BY <1>2, InCall DEF Call
<1>4. memories[m] \in Memory
  <2>1. call[t].chain \in {"sub", "device"}
    BY <1>3 DEF Call
  <2> QED
    BY <1>1, <2>1 DEF VkInv, TypeOK, NoMemory
<1>5. /\ memories'[m] = [memories[m] EXCEPT !.blocks = memories[m].blocks + 1]
      /\ memories'[m] \in Memory /\ OtherMemoriesKept(m)
      /\ memories' \in [MemoryIds -> Memory \cup {NoMemory}]
  BY <1>1, <1>4 DEF VkInv, TypeOK, Memory, OtherMemoriesKept
<1>6. memories[m] # NoMemory /\ KindKept(m)
  BY <1>4, <1>5 DEF KindKept, Memory, NoMemory
<1>7. memories'[m] = [chain |-> call[t].chain, type |-> call[t].type,
                      blocks |-> 1 + (IF memories[m] = NoMemory THEN 0 ELSE memories[m].blocks),
                      size |-> call[t].request.size]
  <2>1. memories[m].blocks \in Nat
    BY <1>4 DEF Memory
  <2> QED
    BY <1>1, <1>4, <1>5, <1>6, <2>1 DEF Memory
<1>8. call' = [call EXCEPT ![t] = [call[t] EXCEPT !.pc = AfterAllocate(t), !.memory = m,
                                                  !.count = call[t].count]]
  BY <1>1, <1>3 DEF VkInv, TypeOK, Call
<1> QED
  BY <1>2, <1>3, <1>5, <1>6, <1>7, <1>8, TakeStep

(* New device memory, which is not counted yet.                            *)
LEMMA AllocateStep ==
  ASSUME VkInv, NEW t \in Callers, AllocateMemory(t)
  PROVE  VkInv'
<1> DEFINE count == usedCount[call[t].type][call[t].chain]
<1>1. PICK m \in MemoryIds :
        /\ memories[m] = NoMemory
        /\ memories' = [memories EXCEPT ![m] = [chain |-> call[t].chain, type |-> call[t].type,
                                                blocks |-> 1, size |-> call[t].request.size]]
        /\ call' = [call EXCEPT ![t].pc = "count", ![t].memory = m, ![t].count = count]
  BY DEF AllocateMemory
<1>2. call[t].pc = "allocate" /\ UNCHANGED <<config, isCreated, resources, usedCount>>
  BY DEF AllocateMemory, IsAllocating
<1>3. /\ call[t] \in Call /\ call[t].type \in MemoryTypeIndices /\ call[t].request.size \in Nat
      /\ call[t].chain \in {"sub", "device"}
  BY <1>2, InCall DEF Call
<1>4. count \in Int
  BY <1>3 DEF VkInv, TypeOK, DeviceMemoryAllocators
<1>5. /\ memories'[m] = [chain |-> call[t].chain, type |-> call[t].type,
                         blocks |-> 1 + (IF memories[m] = NoMemory THEN 0 ELSE memories[m].blocks),
                         size |-> call[t].request.size]
      /\ OtherMemoriesKept(m) /\ memories' \in [MemoryIds -> Memory \cup {NoMemory}]
  BY <1>1, <1>3 DEF VkInv, TypeOK, Memory, OtherMemoriesKept
<1>6. PICK n \in Int : n = count
  BY <1>4
<1>7. call' = [call EXCEPT ![t] = [call[t] EXCEPT !.pc = "count", !.memory = m, !.count = n]]
  BY <1>1, <1>3, <1>6 DEF VkInv, TypeOK, Call
<1>8. PICK pc : pc = "count"
  OBVIOUS
<1>9. memories[m] # NoMemory => KindKept(m)
  BY <1>1
<1> HIDE DEF count
<1> QED
  BY <1>2, <1>5, <1>7, <1>8, <1>9, TakeStep

(* The memory is counted.                                                  *)
LEMMA CountStep ==
  ASSUME VkInv, NEW t \in Callers, CountMemory(t)
  PROVE  VkInv'
<1>1. /\ UNCHANGED <<config, isCreated, memories, resources>>
      /\ call[t].pc = "count"
      /\ usedCount' = [usedCount EXCEPT ![call[t].type][call[t].chain] = call[t].count + 1]
      /\ call' = [call EXCEPT ![t].pc = AfterAllocate(t)]
  BY DEF CountMemory
<1>2. /\ call[t] \in Call /\ CallOK(t) /\ isCreated /\ call[t].type \in MemoryTypeIndices
      /\ call[t].chain \in DeviceMemoryAllocators /\ call[t].count \in Int
  BY <1>1, InCall DEF Call, DeviceMemoryAllocators
<1>3. usedCount' \in [MemoryTypeIndices -> [DeviceMemoryAllocators -> Int]]
  BY <1>1, <1>2 DEF VkInv, TypeOK
<1>4. PICK pc \in {"ready", "prefetch", "bind"} :
        /\ pc = AfterAllocate(t) /\ (pc = "ready" <=> t \in Workers)
        /\ pc = "prefetch" => call[t].chain = "sub" /\ config.prefetch
  BY <1>1, AfterAllocateType
<1> DEFINE c == [call[t] EXCEPT !.pc = pc]
<1>5. /\ c \in Call /\ c.pc = pc /\ c.memory = call[t].memory /\ c.type = call[t].type
      /\ c.request = call[t].request /\ c.resource = call[t].resource /\ c.chain = call[t].chain
  BY <1>2 DEF Call, Creating, Fetching
<1>6. call' = [call EXCEPT ![t] = c]
  BY <1>1, <1>4
<1> HIDE DEF c
<1>7. call'[t] = c /\ OtherCallsKept(t) /\ call' \in [Callers -> Call \cup {Idle}]
  BY <1>5, <1>6, Updated DEF VkInv
<1>8. TypeOK'
  BY <1>1, <1>3, <1>7 DEF VkInv, TypeOK, Memory, Resource, Call, MemoryTypeIndices
<1>9. ~(t \in Workers /\ t \in Threads) /\ (t \in Workers \/ t \in Threads)
  BY CallersFinite DEF Callers
<1>10. CallOK(t)'
  BY <1>1, <1>2, <1>4, <1>5, <1>7, <1>9
     DEF CallOK, IsCreating, Suits, MemoryTypeIndices, Creating, Fetching, Holding, NoMemory
<1>11. CreationKept(t) /\ ReferenceKept(t)
  <2>1. CreationKept(t)
    BY <1>1, <1>4, <1>5, <1>7, <1>9 DEF CreationKept, IsCreating, Creating
  <2>2. IsReferring(t) => IsReferring(t)'
    BY <1>4, <1>5, <1>7 DEF IsReferring, Holding
  <2> QED
    BY <1>1, <1>5, <1>7, <2>1, <2>2, StillRefers
<1>12. \A o \in MemoryIds : t \in HoldersOf(o)' <=> t \in HoldersOf(o)
  BY <1>1, <1>4, <1>5, <1>7 DEF HoldersOf, Holding
<1> QED
  BY <1>1, <1>7, <1>8, <1>10, <1>11, <1>12, CallOnlyStep

(* A step that hands over what calls hold, and refer to, among them.       *)
LEMMA CallsStep ==
  ASSUME VkInv, UNCHANGED <<config, isCreated, memories, resources, usedCount>>,
         call' \in [Callers -> Call \cup {Idle}], CallInv', PrefetchInv',
         \A u \in Threads : call'[u].resource = call[u].resource /\ (IsCreating(u)' <=> IsCreating(u)),
         \A o \in MemoryIds : Cardinality(HoldersOf(o))' = Cardinality(HoldersOf(o))
  PROVE  VkInv'
<1>1. TypeOK'
  BY DEF VkInv, TypeOK, Memory, Resource, Call, MemoryTypeIndices
<1>2. OneCreator'
  BY DEF VkInv, OneCreator
<1>3. CreatedInv'
  BY DEF VkInv, CreatedInv, CreatorsOf, IsCreating
<1>4. BoundInv'
  BY DEF VkInv, BoundInv, Suits, MemoryTypeIndices, NoMemory
<1>5. BlocksInv'
  <2> SUFFICES ASSUME NEW o \in MemoryIds PROVE BlocksOK(o)'
    BY DEF BlocksInv
  <2>1. UsersOf(o)' = UsersOf(o)
    BY DEF UsersOf
  <2> QED
    BY <2>1 DEF VkInv, BlocksInv, BlocksOK, NoMemory
<1> QED
  BY <1>1, <1>2, <1>3, <1>4, <1>5 DEF VkInv

(* Whoever refers to a slab allocator goes on to.                          *)
LEMMA AllStillRefer ==
  ASSUME UNCHANGED <<memories, resources>>,
         \A u \in Threads : IsReferring(u) =>
           /\ IsReferring(u)' /\ call'[u].type = call[u].type /\ call'[u].request = call[u].request,
         NEW type, NEW size, IsReferenced(type, size)
  PROVE  IsReferenced(type, size)'
BY DEF IsReferenced, ResourceRefers, CallRefers

(* A new slab takes the memory that was pre-fetched.                       *)
LEMMA TakePrefetchedStep ==
  ASSUME VkInv, NEW t \in Callers, TakePrefetched(t)
  PROVE  VkInv'
<1>1. PICK w \in PrefetchFor(t) :
        /\ call[w].pc = "ready"
        /\ call' = [call EXCEPT ![t].pc = AfterAllocate(t), ![t].memory = call[w].memory, ![w] = Idle]
  BY DEF TakePrefetched
<1>2. /\ call[t].pc = "allocate" /\ t \in Threads /\ t \notin Workers /\ call[t].chain = "sub"
      /\ UNCHANGED <<config, isCreated, memories, resources, usedCount>>
      /\ w \in Workers /\ w \in Callers /\ w # t /\ w \notin Threads
      /\ call[w].type = call[t].type /\ call[w].request.size = call[t].request.size
  BY CallersFinite DEF TakePrefetched, IsAllocating, HasPrefetch, PrefetchFor, Callers
<1>3. call[t] \in Call /\ CallOK(t) /\ call[w] \in Call /\ CallOK(w) /\ isCreated
  BY <1>1, <1>2, InCall
<1>4. PICK pc \in {"prefetch", "bind"} : pc = AfterAllocate(t) /\ (pc = "prefetch" => config.prefetch)
  BY <1>2, AfterAllocateType
<1>5. /\ call[w].memory \in MemoryIds /\ memories[call[w].memory] # NoMemory
      /\ memories[call[w].memory].type = call[t].type
      /\ memories[call[w].memory].chain = call[t].chain
      /\ memories[call[w].memory].size = call[t].request.size
  BY <1>1, <1>2, <1>3 DEF CallOK, Holding
<1> DEFINE c == [call[t] EXCEPT !.pc = pc, !.memory = call[w].memory]
<1>6. /\ c \in Call /\ c.pc = pc /\ c.memory = call[w].memory /\ c.type = call[t].type
      /\ c.request = call[t].request /\ c.resource = call[t].resource /\ c.chain = call[t].chain
  BY <1>3, <1>5 DEF Call, Creating, Fetching
<1>7. /\ call'[t] = c /\ call'[w] = Idle /\ call'[w].pc = "idle"
      /\ \A u \in Callers \ {t, w} : call'[u] = call[u]
      /\ call' \in [Callers -> Call \cup {Idle}]
  BY <1>1, <1>2, <1>4, <1>6 DEF VkInv, TypeOK, Idle
<1> HIDE DEF c
<1>8. CallInv'
  <2>1. CallOK(t)'
    BY <1>2, <1>3, <1>4, <1>5, <1>6, <1>7
       DEF CallOK, IsCreating, Suits, MemoryTypeIndices, Creating, Fetching, Holding, NoMemory
  <2>2. CallOK(w)'
    BY <1>7 DEF CallOK, IsCreating, Creating, Holding
  <2>3. ASSUME NEW u \in Callers \ {t, w} PROVE CallOK(u)'
    <3>1. CallOK(u) /\ call'[u] = call[u]
      BY <1>7 DEF VkInv, CallInv
    <3>2. call[u].pc \in Holding => KindKept(call[u].memory)
      BY <1>2, <3>1 DEF CallOK, KindKept
    <3> QED
      BY <1>2, <3>1, <3>2, CallKept
  <2> QED
    BY <2>1, <2>2, <2>3 DEF CallInv
<1>9. ASSUME NEW u \in Threads
      PROVE  /\ call'[u].resource = call[u].resource /\ (IsCreating(u)' <=> IsCreating(u))
             /\ IsReferring(u) => /\ IsReferring(u)' /\ call'[u].type = call[u].type
                                  /\ call'[u].request = call[u].request
  <2>1. CASE u = t
    BY <1>2, <1>4, <1>6, <1>7, <2>1 DEF IsCreating, Creating, IsReferring, Holding
  <2>2. CASE u # t
    BY <1>2, <1>7, <2>2 DEF IsCreating, IsReferring, Callers
  <2> QED
    BY <2>1, <2>2
<1>10. PrefetchInv'
  <2>1. ASSUME NEW v \in Workers, call'[v].pc # "idle" PROVE call'[v] = call[v]
    BY <1>2, <1>7, <2>1 DEF Callers
  <2>2. \A type, size : IsReferenced(type, size) => IsReferenced(type, size)'
    BY <1>2, <1>9, AllStillRefer
  <2> QED
    BY <2>1, <2>2, PrefetchKept DEF VkInv
<1>11. ASSUME NEW o \in MemoryIds
       PROVE  Cardinality(HoldersOf(o))' = Cardinality(HoldersOf(o))
  <2>1. CASE o = call[w].memory
    <3>1. /\ w \in HoldersOf(o) /\ t \notin HoldersOf(o)
          /\ HoldersOf(o)' = (HoldersOf(o) \ {w}) \cup {t}
      BY <1>1, <1>2, <1>4, <1>6, <1>7, <2>1 DEF HoldersOf, Holding
    <3>2. IsFiniteSet(HoldersOf(o)) /\ IsFiniteSet(HoldersOf(o) \ {w})
      BY CallersFinite, FS_Subset DEF HoldersOf
    <3>3. Cardinality(HoldersOf(o) \ {w}) = Cardinality(HoldersOf(o)) - 1
      BY <3>1, <3>2, FS_RemoveElement
    <3>4. Cardinality((HoldersOf(o) \ {w}) \cup {t}) = Cardinality(HoldersOf(o) \ {w}) + 1
      BY <3>1, <3>2, FS_AddElement
    <3>5. Cardinality(HoldersOf(o)) \in Nat
      BY <3>2, FS_CardinalityType
    <3> QED
      BY <3>1, <3>3, <3>4, <3>5
  <2>2. CASE o # call[w].memory
    <3>1. HoldersOf(o)' = HoldersOf(o)
      BY <1>1, <1>2, <1>4, <1>6, <1>7, <2>2 DEF HoldersOf, Holding
    <3> QED
      BY <3>1
  <2> QED
    BY <2>1, <2>2
<1> QED
  BY <1>2, <1>7, <1>8, <1>9, <1>10, <1>11, CallsStep

(* A pre-fetch is called off: the worker deallocates its memory.           *)
LEMMA DiscardStep ==
  ASSUME VkInv, NEW t \in Callers, DiscardPrefetched(t)
  PROVE  VkInv'
<1>1. PICK w \in PrefetchFor(t) :
        call[w].pc = "ready" /\ call' = [call EXCEPT ![w].pc = "deallocate"]
  BY DEF DiscardPrefetched
<1>2. /\ UNCHANGED <<config, isCreated, memories, resources, usedCount>>
      /\ w \in Workers /\ w \in Callers /\ w \notin Threads
  BY CallersFinite DEF DiscardPrefetched, PrefetchFor, Callers
<1>3. call[w] \in Call /\ CallOK(w) /\ isCreated
  BY <1>1, <1>2, InCall
<1> DEFINE c == [call[w] EXCEPT !.pc = "deallocate"]
<1>4. /\ c \in Call /\ c.pc = "deallocate" /\ c.memory = call[w].memory /\ c.type = call[w].type
      /\ c.request = call[w].request /\ c.resource = call[w].resource /\ c.chain = call[w].chain
  BY <1>3 DEF Call, Creating, Fetching
<1>5. call' = [call EXCEPT ![w] = c]
  BY <1>1
<1> HIDE DEF c
<1>6. call'[w] = c /\ OtherCallsKept(w) /\ call' \in [Callers -> Call \cup {Idle}]
  BY <1>2, <1>4, <1>5, Updated DEF VkInv
<1>7. TypeOK'
  BY <1>2, <1>6 DEF VkInv, TypeOK, Memory, Resource, Call, MemoryTypeIndices
<1>8. CallOK(w)'
  BY <1>1, <1>2, <1>3, <1>4, <1>6
     DEF CallOK, IsCreating, Suits, MemoryTypeIndices, Creating, Fetching, Holding, NoMemory
<1>9. CreationKept(w)
  BY <1>2 DEF CreationKept, IsCreating
<1>10. ReferenceKept(w)
  <2>1. ~IsReferring(w)
    BY <1>2 DEF IsReferring
  <2> QED
    BY <1>1, <1>4, <1>6, <2>1, StillRefers
<1>11. \A o \in MemoryIds : w \in HoldersOf(o)' <=> w \in HoldersOf(o)
  BY <1>1, <1>4, <1>6 DEF HoldersOf, Holding
<1> QED
  BY <1>2, <1>6, <1>7, <1>8, <1>9, <1>10, <1>11, CallOnlyStep

(* A client goes on to bind, whether it has posted a pre-fetch or not.     *)
LEMMA PostPrefetchStep ==
  ASSUME VkInv, NEW t \in Callers, PostPrefetch(t)
  PROVE  VkInv'
<1> DEFINE c == [call[t] EXCEPT !.pc = "bind"]
<1>1. /\ call[t].pc = "prefetch"
      /\ UNCHANGED <<config, isCreated, memories, resources, usedCount>>
  BY DEF PostPrefetch
<1>2. /\ call[t] \in Call /\ CallOK(t) /\ isCreated /\ t \in Threads /\ t \notin Workers
      /\ call[t].chain = "sub" /\ config.prefetch /\ call[t].request \in config.requests
  BY <1>1, InCall, CallersFinite DEF CallOK
<1>3. /\ c \in Call /\ c.pc = "bind" /\ c.memory = call[t].memory /\ c.type = call[t].type
      /\ c.request = call[t].request /\ c.resource = call[t].resource /\ c.chain = call[t].chain
  BY <1>2 DEF Call, Creating, Fetching
<1>4. ASSUME call'[t] = c, UNCHANGED <<config, isCreated, memories, resources>>
      PROVE  /\ CallOK(t)'
             /\ call'[t].resource = call[t].resource /\ IsCreating(t) /\ IsCreating(t)'
             /\ IsReferring(t)' /\ call'[t].type = call[t].type
             /\ call'[t].request = call[t].request
             /\ \A o \in MemoryIds : t \in HoldersOf(o)' <=> t \in HoldersOf(o)
  <2> HIDE DEF c
  <2>1. CallOK(t)'
    BY <1>1, <1>2, <1>3, <1>4
       DEF CallOK, IsCreating, Suits, MemoryTypeIndices, Creating, Fetching, Holding, NoMemory
  <2>2. IsCreating(t) /\ IsCreating(t)' /\ IsReferring(t)'
    BY <1>1, <1>2, <1>3, <1>4 DEF IsCreating, Creating, IsReferring, Holding
  <2>3. \A o \in MemoryIds : t \in HoldersOf(o)' <=> t \in HoldersOf(o)
    BY <1>1, <1>2, <1>3, <1>4 DEF HoldersOf, Holding
  <2> QED
    BY <1>3, <1>4, <2>1, <2>2, <2>3
<1> HIDE DEF c
<1>5. CASE call' = [call EXCEPT ![t] = c]
  <2>1. call'[t] = c /\ OtherCallsKept(t) /\ call' \in [Callers -> Call \cup {Idle}]
    BY <1>3, <1>5, Updated DEF VkInv
  <2>2. TypeOK'
    BY <1>1, <2>1 DEF VkInv, TypeOK, Memory, Resource, Call, MemoryTypeIndices
  <2>3. CreationKept(t) /\ ReferenceKept(t)
    BY <1>1, <1>2, <1>4, <2>1, StillRefers DEF CreationKept
  <2> QED
    BY <1>1, <1>4, <2>1, <2>2, <2>3, CallOnlyStep
<1>6. ASSUME NEW w \in Workers, call[w] = Idle,
             call' = [call EXCEPT ![t] = c, ![w] = NewCall("allocate", "none", call[t].request,
                                                           call[t].type, "sub", "none")]
      PROVE  VkInv'
  <2> DEFINE d == NewCall("allocate", "none", call[t].request, call[t].type, "sub", "none")
  <2>1. w \in Callers /\ w # t /\ w \notin Threads /\ call[w].pc = "idle"
    BY <1>2, <1>6, CallersFinite DEF Callers, Idle
  <2>2. call[t].type \in MemoryTypeIndices /\ Suits(call[t].request, call[t].type)
    BY <1>1, <1>2 DEF CallOK, Suits
  <2>3. /\ d \in Call /\ d.pc = "allocate" /\ d.type = call[t].type /\ d.request = call[t].request
        /\ d.chain = "sub"
    BY <1>2, <2>2 DEF NewCall, Call, Creating, Fetching
  <2> HIDE DEF d
  <2>4. /\ call'[t] = c /\ call'[w] = d /\ \A u \in Callers \ {t, w} : call'[u] = call[u]
        /\ call' \in [Callers -> Call \cup {Idle}]
    BY <1>3, <1>6, <2>1, <2>3 DEF VkInv, TypeOK, d
  <2>5. CallInv'
    <3>1. CallOK(t)'
      BY <1>1, <1>4, <2>4
    <3>2. CallOK(w)'
      BY <1>1, <1>2, <2>1, <2>2, <2>3, <2>4
         DEF CallOK, IsCreating, Suits, MemoryTypeIndices, Creating, Fetching, Holding
    <3>3. ASSUME NEW u \in Callers \ {t, w} PROVE CallOK(u)'
      <4>1. CallOK(u) /\ call'[u] = call[u]
        BY <2>4 DEF VkInv, CallInv
      <4>2. call[u].pc \in Holding => KindKept(call[u].memory)
        BY <1>1, <4>1 DEF CallOK, KindKept
      <4> QED
        BY <1>1, <4>1, <4>2, CallKept
    <3> QED
      BY <3>1, <3>2, <3>3 DEF CallInv
  <2>6. ASSUME NEW u \in Threads
        PROVE  /\ call'[u].resource = call[u].resource /\ (IsCreating(u)' <=> IsCreating(u))
               /\ IsReferring(u) => /\ IsReferring(u)' /\ call'[u].type = call[u].type
                                    /\ call'[u].request = call[u].request
    <3>1. CASE u = t
      BY <1>1, <1>4, <2>4, <3>1
    <3>2. CASE u # t
      BY <2>1, <2>4, <3>2 DEF IsCreating, IsReferring, Callers
    <3> QED
      BY <3>1, <3>2
  <2>7. ASSUME NEW v \in Workers, call'[v].pc # "idle" PROVE PrefetchOK(v)'
    <3>1. CASE v = w
      <4>1. PICK type, size : type = call[t].type /\ size = call[t].request.size
        OBVIOUS
      <4>2. CallRefers(t, type, size)'
        BY <1>1, <1>3, <1>4, <2>4, <4>1 DEF CallRefers
      <4>3. IsReferenced(type, size)'
        BY <1>2, <4>2 DEF IsReferenced
      <4> QED
        BY <2>3, <2>4, <3>1, <4>1, <4>3 DEF PrefetchOK
    <3>2. CASE v # w
      <4>1. call'[v] = call[v] /\ PrefetchOK(v)
        BY <1>2, <2>4, <3>2 DEF VkInv, PrefetchInv, Callers
      <4>2. PICK type, size : type = call[v].type /\ size = call[v].request.size
        OBVIOUS
      <4>3. IsReferenced(type, size)
        BY <2>7, <4>1, <4>2 DEF PrefetchOK
      <4>4. IsReferenced(type, size)'
        BY <1>1, <2>6, <4>3, AllStillRefer
      <4> QED
        BY <4>1, <4>2, <4>4 DEF PrefetchOK
    <3> QED
      BY <3>1, <3>2
  <2>8. PrefetchInv'
    BY <2>7 DEF PrefetchInv, PrefetchOK
  <2>9. ASSUME NEW o \in MemoryIds PROVE HoldersOf(o)' = HoldersOf(o)
    BY <1>1, <1>4, <2>1, <2>3, <2>4 DEF HoldersOf, Holding
  <2> QED
    BY <1>1, <2>4, <2>5, <2>6, <2>8, <2>9, CallsStep
<1>7. \/ call' = [call EXCEPT ![t] = c]
      \/ \E w \in Workers :
           /\ call[w] = Idle
           /\ call' = [call EXCEPT ![t] = c, ![w] = NewCall("allocate", "none", call[t].request,
                                                            call[t].type, "sub", "none")]
  BY DEF PostPrefetch, c
<1> QED
  BY <1>5, <1>6, <1>7

-----------------------------------------------------------------------------
(* Who holds a block of memory is counted; if the memory has only one      *)
(* block in use, nobody else has one.                                      *)
LEMMA HeldBlock ==
  ASSUME VkInv, NEW m \in MemoryIds, NEW t \in HoldersOf(m)
  PROVE  /\ memories[m] \in Memory /\ memories[m].blocks \in Nat \ {0}
         /\ memories[m].blocks = 1 => UsersOf(m) = {} /\ HoldersOf(m) = {t}
<1>1. memories[m] # NoMemory /\ memories[m] \in Memory /\ memories[m].blocks \in Nat
  BY DEF VkInv, CallInv, CallOK, HoldersOf, TypeOK, Memory
<1>2. memories[m].blocks = Cardinality(UsersOf(m)) + Cardinality(HoldersOf(m))
  BY <1>1 DEF VkInv, BlocksInv, BlocksOK
<1>3. IsFiniteSet(UsersOf(m)) /\ IsFiniteSet(HoldersOf(m))
  BY ResourceAllocatorVkAssumption, CallersFinite, FS_Subset DEF UsersOf, HoldersOf
<1>4. Cardinality(UsersOf(m)) \in Nat /\ Cardinality(HoldersOf(m)) \in Nat
  BY <1>3, FS_CardinalityType
<1>5. Cardinality(HoldersOf(m)) # 0
  BY <1>3, FS_EmptySet
<1>6. memories[m].blocks = 1 => Cardinality(UsersOf(m)) = 0 /\ Cardinality(HoldersOf(m)) = 1
  BY <1>2, <1>4, <1>5
<1>7. memories[m].blocks = 1 => UsersOf(m) = {} /\ \E x : HoldersOf(m) = {x}
  BY <1>3, <1>6, FS_EmptySet, FS_Singleton
<1> QED
  BY <1>1, <1>2, <1>4, <1>5, <1>7

(* A slab allocator that is referenced elsewhere is so after the call has  *)
(* returned its block.                                                     *)
LEMMA UsedElsewhere ==
  ASSUME VkInv, NEW t \in Callers, OtherCallsKept(t), IsCacheUsed(t), UNCHANGED resources,
         \A o \in MemoryIds : memories[o] # NoMemory => KindKept(o),
         NEW type, type = call[t].type, NEW size, size = call[t].request.size
  PROVE  IsReferenced(type, size)'
<1>1. PICK m \in MemoryIds :
        /\ memories[m].chain = "sub" /\ memories[m].type = type /\ memories[m].size = size
        /\ UsersOf(m) # {} \/ HoldersOf(m) \cap (Threads \ {t}) # {}
  BY DEF IsCacheUsed
<1>2. KindKept(m)
  BY <1>1 DEF NoMemory
<1>3. ASSUME NEW r \in UsersOf(m) PROVE IsReferenced(type, size)'
  <2>1. ResourceRefers(r, type, size)'
    BY <1>1, <1>2, <1>3 DEF UsersOf, ResourceRefers, KindKept
  <2> QED
    BY <1>3, <2>1 DEF IsReferenced, UsersOf
<1>4. ASSUME NEW u \in HoldersOf(m) \cap (Threads \ {t}) PROVE IsReferenced(type, size)'
  <2>1. call'[u] = call[u] /\ CallOK(u) /\ call[u].pc \in Holding /\ call[u].memory = m
    BY DEF OtherCallsKept, HoldersOf, VkInv, CallInv
  <2>2. CallRefers(u, type, size)'
    BY <1>1, <2>1 DEF CallOK, CallRefers, IsReferring
  <2> QED
    BY <2>2 DEF IsReferenced
<1> QED
  BY <1>1, <1>3, <1>4

(* Once its block is returned a call ends, or the slab allocator goes away.*)
LEMMA DeallocatedStep ==
  ASSUME VkInv, NEW t \in Callers, call[t].pc \in {"deallocate", "uncount"}, Deallocated(t),
         UNCHANGED <<config, isCreated, resources>>,
         \A o \in MemoryIds : memories[o] # NoMemory => KindKept(o)
  PROVE  /\ OtherCallsKept(t) /\ call' \in [Callers -> Call \cup {Idle}]
         /\ call'[t].pc \in {"idle", "drop"}
         /\ CallOK(t)' /\ CreationKept(t) /\ ReferenceKept(t)
         /\ \A o \in MemoryIds : t \notin HoldersOf(o)'
<1>1. /\ call[t] \in Call /\ CallOK(t) /\ isCreated /\ call[t].type \in MemoryTypeIndices
  BY InCall
<1> DEFINE c == IF HasPrefetch(t) /\ ~IsCacheUsed(t) THEN [call[t] EXCEPT !.pc = "drop"] ELSE Idle
<1>2. call' = [call EXCEPT ![t] = c]
  BY DEF Deallocated
<1>3. /\ c \in Call \cup {Idle} /\ c.pc \in {"idle", "drop"}
      /\ c.pc = "drop" => /\ HasPrefetch(t) /\ c.type = call[t].type
                          /\ c.request = call[t].request /\ c.chain = call[t].chain
      /\ c.pc = "idle" => ~HasPrefetch(t) \/ IsCacheUsed(t)
  <2>1. CASE HasPrefetch(t) /\ ~IsCacheUsed(t)
    BY <1>1, <2>1 DEF Call
  <2>2. CASE ~(HasPrefetch(t) /\ ~IsCacheUsed(t))
    BY <2>2 DEF Idle
  <2> QED
    BY <2>1, <2>2
<1> HIDE DEF c
<1>4. call'[t] = c /\ OtherCallsKept(t) /\ call' \in [Callers -> Call \cup {Idle}]
  BY <1>2, <1>3, Updated DEF VkInv
<1>5. CallOK(t)'
  <2>1. CASE c.pc = "idle"
    BY <1>4, <2>1 DEF CallOK, IsCreating, Creating, Holding
  <2>2. CASE c.pc = "drop"
    BY <1>1, <1>3, <1>4, <2>2, CallersFinite
       DEF CallOK, IsCreating, Creating, Holding, HasPrefetch, MemoryTypeIndices
  <2> QED
    BY <1>3, <2>1, <2>2
<1>6. CreationKept(t)
  BY <1>3, <1>4 DEF CreationKept, IsCreating, Creating
<1>7. ReferenceKept(t)
  <2>1. CASE c.pc = "drop"
    <3>1. IsReferring(t)' /\ t \notin Workers
      BY <1>3, <1>4, <2>1, CallersFinite DEF IsReferring, HasPrefetch
    <3> QED
      BY <1>3, <1>4, <2>1, <3>1, StillRefers
  <2>2. CASE c.pc = "idle"
    <3>1. ASSUME NEW type, NEW size, IsPrefetched(type, size)', CallRefers(t, type, size)
          PROVE  IsReferenced(type, size)'
      <4>1. /\ type = call[t].type /\ size = call[t].request.size
            /\ t \in Threads /\ call[t].chain = "sub" /\ t \notin Workers
        BY <3>1, CallersFinite DEF CallRefers, IsReferring
      <4>2. HasPrefetch(t)
        <5>1. PICK w \in Workers : /\ call'[w].pc # "idle" /\ call'[w].type = type
                                   /\ call'[w].request.size = size
          BY <3>1 DEF IsPrefetched
        <5>2. call'[w] = call[w]
          BY <1>4, <4>1 DEF OtherCallsKept, Callers
        <5> QED
          BY <4>1, <5>1, <5>2 DEF HasPrefetch, PrefetchFor, Idle
      <4> QED
        BY <1>3, <1>4, <2>2, <4>1, <4>2, UsedElsewhere
    <3> QED
      BY <1>4, <2>2, <3>1 DEF ReferenceKept
  <2> QED
    BY <1>3, <2>1, <2>2
<1>8. \A o \in MemoryIds : t \notin HoldersOf(o)'
  BY <1>3, <1>4 DEF HoldersOf, Holding
<1> QED
  BY <1>3, <1>4, <1>5, <1>6, <1>7, <1>8

(* The memory that was freed is no longer counted.                         *)
LEMMA UncountStep ==
  ASSUME VkInv, NEW t \in Callers, UncountMemory(t)
  PROVE  VkInv'
<1>1. /\ UNCHANGED <<config, isCreated, memories, resources>>
      /\ call[t].pc = "uncount" /\ Deallocated(t)
      /\ usedCount' = [usedCount EXCEPT ![call[t].type][call[t].chain] = call[t].count - 1]
  BY DEF UncountMemory
<1>2. /\ call[t].type \in MemoryTypeIndices /\ call[t].chain \in DeviceMemoryAllocators
      /\ call[t].count \in Int
  BY <1>1, InCall DEF Call, DeviceMemoryAllocators
<1>3. usedCount' \in [MemoryTypeIndices -> [DeviceMemoryAllocators -> Int]]
  BY <1>1, <1>2 DEF VkInv, TypeOK
<1>4. \A o \in MemoryIds : memories[o] # NoMemory => KindKept(o)
  BY <1>1 DEF KindKept
<1>5. /\ OtherCallsKept(t) /\ call' \in [Callers -> Call \cup {Idle}]
      /\ CallOK(t)' /\ CreationKept(t) /\ ReferenceKept(t)
      /\ \A o \in MemoryIds : t \notin HoldersOf(o)'
  BY <1>1, <1>4, DeallocatedStep
<1>6. TypeOK'
  BY <1>1, <1>3, <1>5 DEF VkInv, TypeOK, Memory, Resource, Call, MemoryTypeIndices
<1>7. \A o \in MemoryIds : t \notin HoldersOf(o)
  BY <1>1 DEF HoldersOf, Holding
<1> QED
  BY <1>1, <1>5, <1>6, <1>7, CallOnlyStep

(* The block is returned, and with the last one the memory may be freed.   *)
LEMMA DeallocateStep ==
  ASSUME VkInv, NEW t \in Callers, DeallocateMemory(t)
  PROVE  VkInv'
<1>1. /\ call[t].pc = "deallocate"
      /\ UNCHANGED <<config, isCreated, resources, usedCount>>
  BY DEF DeallocateMemory
<1>2. /\ call[t] \in Call /\ CallOK(t) /\ isCreated /\ call[t].type \in MemoryTypeIndices
      /\ call[t].chain \in {"sub", "device"}
  BY <1>1, InCall DEF Call
<1>3. PICK m \in MemoryIds :
        m = call[t].memory /\ memories[m] # NoMemory /\ t \in HoldersOf(m)
  BY <1>1, <1>2 DEF CallOK, Holding, HoldersOf
<1>4. /\ memories[m] \in Memory /\ memories[m].blocks \in Nat \ {0}
      /\ memories[m].blocks = 1 => UsersOf(m) = {} /\ HoldersOf(m) = {t}
  BY <1>3, HeldBlock
<1>5. \A o \in MemoryIds \ {m} : t \notin HoldersOf(o)
  BY <1>3 DEF HoldersOf
<1>6. ASSUME NEW o \in MemoryIds \ {m}, OtherMemoriesKept(m), t \notin HoldersOf(o)'
      PROVE  MemoryKept(t, o)
  <2>1. memories'[o] = memories[o]
    BY <1>6 DEF OtherMemoriesKept
  <2>2. memories[o] # NoMemory => KindKept(o) /\ memories[o].blocks \in Nat
    BY <2>1 DEF KindKept, VkInv, TypeOK, Memory
  <2> QED
    BY <1>2, <1>5, <1>6, <2>1, <2>2 DEF MemoryKept
<1>7. CASE memories[m].blocks = 1 /\ config.onDemand
  <2> DEFINE count == usedCount[call[t].type][call[t].chain]
             c == [call[t] EXCEPT !.pc = "uncount", !.count = count]
  <2>1. memories' = [memories EXCEPT ![m] = NoMemory] /\ call' = [call EXCEPT ![t] = c]
    BY <1>2, <1>3, <1>7 DEF DeallocateMemory, VkInv, TypeOK
  <2>2. count \in Int
    BY <1>2 DEF VkInv, TypeOK, DeviceMemoryAllocators
  <2>3. /\ c \in Call /\ c.pc = "uncount" /\ c.type = call[t].type
        /\ c.request = call[t].request /\ c.chain = call[t].chain
    BY <1>2, <2>2 DEF Call, Creating, Fetching
  <2> HIDE DEF count, c
  <2>4. call'[t] = c /\ OtherCallsKept(t) /\ call' \in [Callers -> Call \cup {Idle}]
    BY <2>1, <2>3, Updated DEF VkInv
  <2>5. /\ memories'[m] = NoMemory /\ OtherMemoriesKept(m)
        /\ memories' \in [MemoryIds -> Memory \cup {NoMemory}]
    BY <1>3, <2>1 DEF VkInv, TypeOK, OtherMemoriesKept
  <2>6. TypeOK'
    BY <1>1, <2>4, <2>5 DEF VkInv, TypeOK, Memory, Resource, Call, MemoryTypeIndices
  <2>7. CallOK(t)'
    BY <1>1, <1>2, <2>3, <2>4
       DEF CallOK, IsCreating, MemoryTypeIndices, Creating, Fetching, Holding
  <2>8. CreationKept(t)
    BY <1>1, <2>3, <2>4 DEF CreationKept, IsCreating, Creating
  <2>9. ReferenceKept(t)
    <3>1. IsReferring(t) => IsReferring(t)'
      BY <2>3, <2>4 DEF IsReferring
    <3> QED
      BY <1>1, <2>3, <2>4, <3>1, StillRefers
  <2>10. \A o \in MemoryIds : t \notin HoldersOf(o)'
    BY <2>3, <2>4 DEF HoldersOf, Holding
  <2>11. MemoryKept(t, m)
    BY <1>4, <1>7, <2>5 DEF MemoryKept
  <2>12. \A o \in MemoryIds : MemoryKept(t, o)
    BY <1>6, <2>5, <2>10, <2>11
  <2> QED
    BY <1>1, <2>4, <2>6, <2>7, <2>8, <2>9, <2>12, CallStep
<1>8. CASE ~(memories[m].blocks = 1 /\ config.onDemand)
  <2>1. memories' = [memories EXCEPT ![m].blocks = @ - 1] /\ Deallocated(t)
    BY <1>3, <1>8 DEF DeallocateMemory
  <2>2. /\ memories'[m] = [memories[m] EXCEPT !.blocks = memories[m].blocks - 1]
        /\ OtherMemoriesKept(m)
    BY <1>3, <2>1 DEF VkInv, TypeOK, OtherMemoriesKept
  <2>3. /\ memories'[m] \in Memory /\ memories'[m].blocks = memories[m].blocks - 1
        /\ KindKept(m)
    BY <1>4, <2>2 DEF Memory, KindKept, NoMemory
  <2>4. memories' \in [MemoryIds -> Memory \cup {NoMemory}]
    BY <2>1, <2>2, <2>3 DEF VkInv, TypeOK, OtherMemoriesKept
  <2>5. \A o \in MemoryIds : memories[o] # NoMemory => KindKept(o)
    BY <2>2, <2>3 DEF OtherMemoriesKept, KindKept
  <2>6. /\ OtherCallsKept(t) /\ call' \in [Callers -> Call \cup {Idle}]
        /\ CallOK(t)' /\ CreationKept(t) /\ ReferenceKept(t)
        /\ \A o \in MemoryIds : t \notin HoldersOf(o)'
    BY <1>1, <2>1, <2>5, DeallocatedStep
  <2>7. TypeOK'
    BY <1>1, <2>4, <2>6 DEF VkInv, TypeOK, Memory, Resource, Call, MemoryTypeIndices
  <2>8. MemoryKept(t, m)
    <3>1. memories[m].blocks \in Nat /\ t \notin HoldersOf(m)'
      BY <1>3, <1>4, <2>6
    <3>2. memories'[m].blocks = (IF memories[m] = NoMemory THEN 0 ELSE memories[m].blocks)
                                + (IF t \in HoldersOf(m)' THEN 1 ELSE 0)
                                - (IF t \in HoldersOf(m) THEN 1 ELSE 0)
      BY <1>3, <2>3, <3>1
    <3> QED
      BY <1>2, <2>3, <3>2 DEF MemoryKept
  <2>9. \A o \in MemoryIds : MemoryKept(t, o)
    BY <1>6, <2>2, <2>6, <2>8
  <2> QED
    BY <1>1, <2>6, <2>7, <2>9, CallStep
<1> QED
  BY <1>7, <1>8

(* The slab allocator is gone, and no pre-fetch is left.                   *)
LEMMA DropStep ==
  ASSUME VkInv, NEW t \in Callers, DropSlabAllocator(t)
  PROVE  VkInv'
<1>1. /\ UNCHANGED <<config, isCreated, memories, resources, usedCount>>
      /\ call[t].pc = "drop" /\ ~HasPrefetch(t) /\ call' = [call EXCEPT ![t] = Idle]
  BY DEF DropSlabAllocator, Return
<1>2. CallOK(t) /\ t \in Threads /\ t \notin Workers /\ call[t].chain = "sub"
  BY <1>1, InCall, CallersFinite DEF CallOK
<1>3. call'[t] = Idle /\ OtherCallsKept(t) /\ call' \in [Callers -> Call \cup {Idle}]
  BY <1>1, Updated DEF VkInv
<1>4. call'[t].pc = "idle"
  BY <1>3 DEF Idle
<1>5. TypeOK'
  BY <1>1, <1>3 DEF VkInv, TypeOK, Memory, Resource, Call, MemoryTypeIndices
<1>6. CallOK(t)' /\ CreationKept(t)
  BY <1>1, <1>4 DEF CallOK, CreationKept, IsCreating, Creating, Holding
<1>7. ReferenceKept(t)
  <2>1. ASSUME NEW type, NEW size, IsPrefetched(type, size)', CallRefers(t, type, size)
        PROVE  FALSE
    <3>1. PICK w \in Workers : /\ call'[w].pc # "idle" /\ call'[w].type = type
                               /\ call'[w].request.size = size
      BY <2>1 DEF IsPrefetched
    <3>2. call'[w] = call[w]
      BY <1>2, <1>3 DEF OtherCallsKept, Callers
    <3> QED
      BY <1>1, <1>2, <2>1, <3>1, <3>2 DEF HasPrefetch, PrefetchFor, CallRefers, Idle
  <2> QED
    BY <1>2, <2>1 DEF ReferenceKept
<1>8. \A o \in MemoryIds : t \in HoldersOf(o)' <=> t \in HoldersOf(o)
  BY <1>1, <1>4 DEF HoldersOf, Holding
<1> QED
  BY <1>1, <1>3, <1>5, <1>6, <1>7, <1>8, CallOnlyStep

-----------------------------------------------------------------------------
(* A step of call t on resource r that passes blocks on but takes none.    *)
LEMMA ResourceStep ==
  ASSUME VkInv, NEW t \in Callers, t \in Threads, NEW r \in ResourceIds,
         OtherCallsKept(t), OtherResourcesKept(r), CreatorsOf(r) \subseteq {t},
         UNCHANGED <<config, isCreated, memories>>, TypeOK', CallOK(t)',
         IsCreating(t)' => call'[t].resource = r,
         IsCreating(t) => call[t].resource = r,
         resources'[r].state = "created" => IsCreating(t)',
         resources'[r].state = "bound" =>
           /\ isCreated /\ resources'[r].memory \in MemoryIds
           /\ memories[resources'[r].memory] # NoMemory
           /\ Suits(resources'[r].request, memories[resources'[r].memory].type)
           /\ memories[resources'[r].memory].size = resources'[r].request.size,
         \A o \in MemoryIds : Taken(o, t, r) = 0,
         \A type, size : ResourceRefers(r, type, size) => IsReferenced(type, size)',
         \A type, size : CallRefers(t, type, size) => IsReferenced(type, size)'
  PROVE  VkInv'
<1>1. CallInv'
  <2>1. ASSUME NEW u \in Callers \ {t} PROVE CallOK(u)'
    <3>1. CallOK(u) /\ call'[u] = call[u]
      BY DEF VkInv, CallInv, OtherCallsKept
    <3>2. IsCreating(u) => resources'[call[u].resource] = resources[call[u].resource]
      <4>1. IsCreating(u) => call[u].resource # r
        BY DEF CreatorsOf, IsCreating
      <4>2. IsCreating(u) => call[u].resource \in ResourceIds
        BY <3>1 DEF CallOK
      <4> QED
        BY <4>1, <4>2 DEF OtherResourcesKept
    <3>3. call[u].pc \in Holding => KindKept(call[u].memory)
      BY <3>1 DEF CallOK, KindKept
    <3> QED
      BY <3>1, <3>2, <3>3, CallKept
  <2> QED
    BY <2>1 DEF CallInv
<1>2. OneCreator'
  BY OneCreatorKept DEF VkInv, OneCreator, OtherCallsKept, CreatorsOf, IsCreating
<1>3. CreatedInv'
  <2>1. \A q \in ResourceIds : resources'[q].state = "created" =>
          \/ IsCreating(t)' /\ call'[t].resource = q
          \/ /\ resources[q].state = "created"
             /\ ~ (IsCreating(t) /\ call[t].resource = q)
    BY DEF OtherResourcesKept
  <2> QED
    BY <2>1, CreatedKept DEF VkInv
<1>4. BoundInv'
  BY DEF VkInv, BoundInv, OtherResourcesKept, Suits, MemoryTypeIndices, NoMemory
<1>5. ASSUME NEW o \in MemoryIds PROVE BlocksOK(o)'
  <2>1. BlocksOK(o) /\ (memories[o] # NoMemory => memories[o].blocks \in Nat)
    BY DEF VkInv, BlocksInv, TypeOK, Memory
  <2>2. memories'[o] # NoMemory =>
           /\ isCreated' /\ memories[o] # NoMemory
           /\ memories'[o].blocks = memories[o].blocks + Taken(o, t, r)
    BY <2>1 DEF BlocksOK, NoMemory
  <2> QED
    BY <2>1, <2>2, BlocksKept
<1>6. PrefetchInv'
  <2>1. ASSUME NEW type, NEW size, NEW q \in ResourceIds, ResourceRefers(q, type, size)
        PROVE  IsReferenced(type, size)'
    <3>1. CASE q = r
      BY <2>1, <3>1
    <3>2. CASE q # r
      <4>1. ResourceRefers(q, type, size)'
        BY <2>1, <3>2 DEF OtherResourcesKept, ResourceRefers
      <4> QED
        BY <4>1 DEF IsReferenced
    <3> QED
      BY <3>1, <3>2
  <2>2. t \notin Workers
    BY CallersFinite
  <2> QED
    BY <2>1, <2>2, ReferencesKept DEF VkInv
<1> QED
  BY <1>1, <1>2, <1>3, <1>4, <1>5, <1>6 DEF VkInv, BlocksInv

(* A resource that is not being created has no creator, and one that is    *)
(* has only the thread that creates it.                                    *)
LEMMA Creators ==
  ASSUME VkInv
  PROVE  /\ \A r \in ResourceIds : resources[r].state # "created" => CreatorsOf(r) = {}
         /\ \A t \in Threads : IsCreating(t) => CreatorsOf(call[t].resource) = {t}
BY DEF VkInv, CallInv, CallOK, OneCreator, CreatorsOf, IsCreating, Callers

(* A new resource.                                                         *)
LEMMA CreateStep ==
  ASSUME VkInv, NEW t \in Threads, CreateResource(t)
  PROVE  VkInv'
<1>1. PICK r \in ResourceIds, request \in config.requests :
        /\ resources[r] = NoResource
        /\ resources' = [resources EXCEPT ![r] = [state |-> "created", request |-> request,
                                                  memory |-> "none"]]
        /\ call' = [call EXCEPT ![t] = NewCall("require", r, request, NoType, "sub", "none")]
  BY DEF CreateResource
<1>2. /\ call[t] = Idle /\ t \in config.threads /\ isCreated
      /\ UNCHANGED <<config, isCreated, memories, usedCount>>
      /\ t \in Callers /\ t \notin Workers
  BY CallersFinite DEF CreateResource, Callers
<1> DEFINE c == NewCall("require", r, request, NoType, "sub", "none")
<1>3. c \in Call /\ c.pc = "require" /\ c.resource = r /\ c.request = request
  BY DEF Call, NewCall, Creating
<1> HIDE DEF c
<1>4. call'[t] = c /\ OtherCallsKept(t) /\ call' \in [Callers -> Call \cup {Idle}]
  BY <1>1, <1>2, <1>3, Updated DEF VkInv, c
<1>5. /\ resources'[r] = [state |-> "created", request |-> request, memory |-> "none"]
      /\ resources'[r].state = "created" /\ resources'[r].request = request
      /\ OtherResourcesKept(r) /\ resources' \in [ResourceIds -> Resource \cup {NoResource}]
  BY <1>1 DEF VkInv, TypeOK, Resource, OtherResourcesKept
<1>6. TypeOK'
  BY <1>2, <1>4, <1>5 DEF VkInv, TypeOK, Memory, Resource, Call, MemoryTypeIndices
<1>7. CallOK(t)'
  BY <1>2, <1>3, <1>4, <1>5 DEF CallOK, IsCreating, Holding
<1>8. CreatorsOf(r) = {}
  BY <1>1, Creators DEF NoResource
<1>9. \A o \in MemoryIds : Taken(o, t, r) = 0
  BY <1>1, <1>2, <1>3, <1>4, <1>5 DEF Taken, HoldersOf, UsersOf, Holding, Idle, NoResource
<1>10. IsCreating(t)' /\ ~IsCreating(t) /\ call'[t].resource = r
  BY <1>2, <1>3, <1>4 DEF IsCreating, Creating, Idle
<1>11. /\ \A type, size : ~ResourceRefers(r, type, size)
       /\ \A type, size : ~CallRefers(t, type, size)
  BY <1>1, <1>2 DEF ResourceRefers, CallRefers, IsReferring, Holding, NoResource, Idle
<1> QED
  BY <1>2, <1>4, <1>5, <1>6, <1>7, <1>8, <1>9, <1>10, <1>11, ResourceStep

(* No chain had memory: the resource is destroyed.                         *)
LEMMA DestroyFailedStep ==
  ASSUME VkInv, NEW t \in Callers, DestroyFailed(t)
  PROVE  VkInv'
<1> DEFINE r == call[t].resource
<1>1. /\ call[t].pc = "failed" /\ resources' = [resources EXCEPT ![r] = NoResource]
      /\ call' = [call EXCEPT ![t] = Idle]
      /\ UNCHANGED <<config, isCreated, memories, usedCount>>
  BY DEF DestroyFailed, Return
<1>2. CallOK(t) /\ t \in Threads /\ IsCreating(t)
  <2>1. CallOK(t)
    BY <1>1, InCall
  <2> QED
    BY <1>1, <2>1 DEF CallOK, Fetching, Callers, IsCreating, Creating
<1>3. call'[t] = Idle /\ OtherCallsKept(t) /\ call' \in [Callers -> Call \cup {Idle}]
  BY <1>1, Updated DEF VkInv
<1>4. call'[t].pc = "idle"
  BY <1>3 DEF Idle
<1>5. /\ r \in ResourceIds /\ resources[r].state = "created" /\ CreatorsOf(r) = {t}
      /\ ~IsCreating(t)'
  BY <1>2, <1>4, Creators DEF CallOK, IsCreating, Creating
<1> HIDE DEF r
<1>6. resources'[r] = NoResource /\ resources'[r].state = "none" /\ OtherResourcesKept(r)
  BY <1>1, <1>5 DEF VkInv, TypeOK, NoResource, OtherResourcesKept
<1>7. TypeOK'
  BY <1>1, <1>3, <1>5 DEF VkInv, TypeOK, Memory, Resource, Call, MemoryTypeIndices
<1>8. CallOK(t)'
  BY <1>4 DEF CallOK, IsCreating, Creating, Holding
<1>9. \A o \in MemoryIds : Taken(o, t, r) = 0
  BY <1>1, <1>4, <1>5, <1>6 DEF Taken, HoldersOf, UsersOf, Holding
<1>10. /\ \A type, size : ~ResourceRefers(r, type, size)
       /\ \A type, size : ~CallRefers(t, type, size)
  BY <1>1, <1>5 DEF ResourceRefers, CallRefers, IsReferring, Holding
<1>11. IsCreating(t) => call[t].resource = r
  BY DEF r
<1> QED
  BY <1>1, <1>2, <1>3, <1>5, <1>6, <1>7, <1>8, <1>9, <1>10, <1>11, ResourceStep

(* The resource takes the block over, and the reference with it.           *)
LEMMA BindStep ==
  ASSUME VkInv, NEW t \in Callers, BindMemory(t)
  PROVE  VkInv'
<1>1. /\ call[t].pc = "bind" /\ call' = [call EXCEPT ![t] = Idle]
      /\ UNCHANGED <<config, isCreated, memories, usedCount>>
  BY DEF BindMemory, Return
<1>2. call[t] \in Call /\ CallOK(t) /\ isCreated /\ t \in Threads /\ IsCreating(t)
  <2>1. call[t] \in Call /\ CallOK(t) /\ isCreated
    BY <1>1, InCall
  <2> QED
    BY <1>1, <2>1 DEF CallOK, Fetching, Callers, IsCreating, Creating
<1>3. PICK r \in ResourceIds, m \in MemoryIds : r = call[t].resource /\ m = call[t].memory
  BY <1>1, <1>2 DEF CallOK, Holding
<1>4. call'[t] = Idle /\ OtherCallsKept(t) /\ call' \in [Callers -> Call \cup {Idle}]
  BY <1>1, Updated DEF VkInv
<1>5. call'[t].pc = "idle"
  BY <1>4 DEF Idle
<1>6. /\ resources[r].state = "created" /\ resources[r].request = call[t].request
      /\ memories[m] # NoMemory /\ Suits(call[t].request, memories[m].type)
      /\ memories[m].chain = call[t].chain /\ memories[m].type = call[t].type
      /\ memories[m].size = call[t].request.size
  BY <1>1, <1>2, <1>3 DEF CallOK, Holding
<1>7. CreatorsOf(r) = {t} /\ ~IsCreating(t)'
  BY <1>2, <1>3, <1>5, Creators DEF IsCreating, Creating
<1>8. resources[r] \in Resource
  BY <1>6 DEF VkInv, TypeOK, NoResource
<1>9. resources' = [resources EXCEPT ![r] = [resources[r] EXCEPT !.state = "bound", !.memory = m]]
  BY <1>3, <1>8 DEF BindMemory, VkInv, TypeOK, Resource
<1>10. /\ resources'[r] \in Resource /\ resources'[r].state = "bound"
       /\ resources'[r].memory = m /\ resources'[r].request = resources[r].request
       /\ OtherResourcesKept(r) /\ resources' \in [ResourceIds -> Resource \cup {NoResource}]
  BY <1>8, <1>9 DEF VkInv, TypeOK, Resource, OtherResourcesKept
<1>11. TypeOK'
  BY <1>1, <1>4, <1>10 DEF VkInv, TypeOK, Memory, Resource, Call, MemoryTypeIndices
<1>12. CallOK(t)'
  BY <1>5 DEF CallOK, IsCreating, Creating, Holding
<1>13. \A o \in MemoryIds : Taken(o, t, r) = 0
  BY <1>1, <1>3, <1>5, <1>6, <1>10 DEF Taken, HoldersOf, UsersOf, Holding
<1>14. \A type, size : ~ResourceRefers(r, type, size)
  BY <1>6 DEF ResourceRefers
<1>15. ASSUME NEW type, NEW size, CallRefers(t, type, size)
       PROVE  IsReferenced(type, size)'
  <2>1. ResourceRefers(r, type, size)'
    BY <1>1, <1>6, <1>10, <1>15 DEF CallRefers, IsReferring, ResourceRefers
  <2> QED
    BY <2>1 DEF IsReferenced
<1> QED
  BY <1>1, <1>2, <1>3, <1>4, <1>6, <1>7, <1>10, <1>11, <1>12, <1>13, <1>14, <1>15, ResourceStep

(* The resource is destroyed, and the block still held.                    *)
LEMMA BindFailsStep ==
  ASSUME VkInv, NEW t \in Callers, BindFails(t)
  PROVE  VkInv'
<1>1. /\ call[t].pc = "bind" /\ UNCHANGED <<config, isCreated, memories, usedCount>>
  BY DEF BindFails
<1>2. call[t] \in Call /\ CallOK(t) /\ isCreated /\ t \in Threads /\ t \notin Workers /\ IsCreating(t)
  <2>1. call[t] \in Call /\ CallOK(t) /\ isCreated
    BY <1>1, InCall
  <2> QED
    BY <1>1, <2>1, CallersFinite DEF CallOK, Fetching, Callers, IsCreating, Creating
<1>3. PICK r \in ResourceIds : r = call[t].resource
  BY <1>2 DEF CallOK
<1> DEFINE c == [call[t] EXCEPT !.pc = "deallocate"]
<1>4. /\ c \in Call /\ c.pc = "deallocate" /\ c.memory = call[t].memory /\ c.type = call[t].type
      /\ c.request = call[t].request /\ c.chain = call[t].chain
  BY <1>2 DEF Call, Creating, Fetching
<1>5. resources' = [resources EXCEPT ![r] = NoResource] /\ call' = [call EXCEPT ![t] = c]
  BY <1>3 DEF BindFails
<1> HIDE DEF c
<1>6. call'[t] = c /\ OtherCallsKept(t) /\ call' \in [Callers -> Call \cup {Idle}]
  BY <1>4, <1>5, Updated DEF VkInv
<1>7. resources[r].state = "created" /\ CreatorsOf(r) = {t} /\ ~IsCreating(t)'
  BY <1>2, <1>3, <1>4, <1>6, Creators DEF CallOK, IsCreating, Creating
<1>8. resources'[r] = NoResource /\ resources'[r].state = "none" /\ OtherResourcesKept(r)
  BY <1>5 DEF VkInv, TypeOK, NoResource, OtherResourcesKept
<1>9. TypeOK'
  BY <1>1, <1>5, <1>6 DEF VkInv, TypeOK, Memory, Resource, Call, MemoryTypeIndices
<1>10. CallOK(t)'
  BY <1>1, <1>2, <1>4, <1>6, <1>7 DEF CallOK, Creating, Holding, NoMemory
<1>11. \A o \in MemoryIds : Taken(o, t, r) = 0
  BY <1>1, <1>4, <1>6, <1>7, <1>8 DEF Taken, HoldersOf, UsersOf, Holding
<1>12. \A type, size : ~ResourceRefers(r, type, size)
  BY <1>7 DEF ResourceRefers
<1>13. ASSUME NEW type, NEW size, CallRefers(t, type, size)
       PROVE  IsReferenced(type, size)'
  <2>1. CallRefers(t, type, size)'
    BY <1>4, <1>6, <1>13 DEF CallRefers, IsReferring, Holding
  <2> QED
    BY <1>2, <2>1 DEF IsReferenced
<1> QED
  BY <1>1, <1>2, <1>3, <1>6, <1>7, <1>8, <1>9, <1>10, <1>11, <1>12, <1>13, ResourceStep

(* The resource is destroyed, and its block is the caller's.               *)
LEMMA DestroyStep ==
  ASSUME VkInv, NEW t \in Threads, DestroyResource(t)
  PROVE  VkInv'
<1>1. /\ call[t] = Idle /\ call[t].pc = "idle" /\ t \in config.threads /\ isCreated
      /\ UNCHANGED <<config, isCreated, memories, usedCount>>
      /\ t \in Callers /\ t \notin Workers
  BY CallersFinite DEF DestroyResource, Callers, Idle
<1>2. PICK r \in ResourceIds :
        /\ resources[r].state = "bound"
        /\ resources' = [resources EXCEPT ![r] = NoResource]
        /\ call' = [call EXCEPT ![t] = NewCall("deallocate", r, resources[r].request,
                                               memories[resources[r].memory].type,
                                               memories[resources[r].memory].chain,
                                               resources[r].memory)]
  BY DEF DestroyResource
<1>3. PICK m \in MemoryIds :
        /\ m = resources[r].memory /\ memories[m] # NoMemory
        /\ memories[m].type \in MemoryTypeIndices /\ memories[m].chain \in {"sub", "device"}
        /\ memories[m].size = resources[r].request.size
        /\ resources[r].request \in config.requests
  <2>1. resources[r] \in Resource
    BY <1>2 DEF VkInv, TypeOK, NoResource
  <2>2. resources[r].memory \in MemoryIds /\ memories[resources[r].memory] \in Memory
    BY <1>2 DEF VkInv, BoundInv, TypeOK
  <2> QED
    BY <1>2, <2>1, <2>2 DEF VkInv, BoundInv, Resource, Memory
<1> DEFINE c == NewCall("deallocate", r, resources[r].request, memories[m].type, memories[m].chain, m)
<1>4. /\ c \in Call /\ c.pc = "deallocate" /\ c.memory = m /\ c.type = memories[m].type
      /\ c.request = resources[r].request /\ c.chain = memories[m].chain
  BY <1>3 DEF Call, NewCall, Creating, Fetching
<1>5. call' = [call EXCEPT ![t] = c]
  BY <1>2, <1>3
<1> HIDE DEF c
<1>6. call'[t] = c /\ OtherCallsKept(t) /\ call' \in [Callers -> Call \cup {Idle}]
  BY <1>1, <1>4, <1>5, Updated DEF VkInv
<1>7. resources'[r] = NoResource /\ resources'[r].state = "none" /\ OtherResourcesKept(r)
  BY <1>2 DEF VkInv, TypeOK, NoResource, OtherResourcesKept
<1>8. TypeOK'
  BY <1>1, <1>2, <1>6 DEF VkInv, TypeOK, Memory, Resource, Call, MemoryTypeIndices
<1>9. CreatorsOf(r) = {} /\ ~IsCreating(t) /\ ~IsCreating(t)'
  BY <1>1, <1>2, <1>4, <1>6, Creators DEF IsCreating, Creating
<1>10. CallOK(t)'
  BY <1>1, <1>3, <1>4, <1>6, <1>9 DEF CallOK, Creating, Holding, NoMemory
<1>11. \A o \in MemoryIds : Taken(o, t, r) = 0
  BY <1>1, <1>2, <1>3, <1>4, <1>6, <1>7 DEF Taken, HoldersOf, UsersOf, Holding
<1>12. \A type, size : ~CallRefers(t, type, size)
  BY <1>1 DEF CallRefers, IsReferring, Holding
<1>13. ASSUME NEW type, NEW size, ResourceRefers(r, type, size)
       PROVE  IsReferenced(type, size)'
  <2>1. CallRefers(t, type, size)'
    BY <1>3, <1>4, <1>6, <1>13 DEF CallRefers, IsReferring, Holding, ResourceRefers
  <2> QED
    BY <2>1 DEF IsReferenced
<1> QED
  BY <1>1, <1>6, <1>7, <1>8, <1>9, <1>10, <1>11, <1>12, <1>13, ResourceStep

-----------------------------------------------------------------------------
(* When the caller holds nothing, no pre-fetch is left, and no memory has  *)
(* a block in use.                                                         *)
LEMMA DestroyAllocatorStep ==
  ASSUME VkInv, DestroyResourceAllocator
  PROVE  VkInv'
<1>1. /\ \A t \in Threads : call[t] = Idle
      /\ \A r \in ResourceIds : resources[r].state # "bound"
      /\ UNCHANGED <<config, resources, usedCount, call>> /\ isCreated' = FALSE
      /\ memories' = [m \in MemoryIds |->
                        IF memories[m] # NoMemory /\ memories[m].blocks = 0 THEN NoMemory
                        ELSE memories[m]]
  BY DEF DestroyResourceAllocator
<1>2. \A t \in Callers : call[t].pc = "idle"
  <2>1. ASSUME NEW t \in Threads PROVE call[t].pc = "idle"
    BY <1>1 DEF Idle
  <2>2. ASSUME NEW type, NEW size PROVE ~IsReferenced(type, size)
    BY <1>1, <2>1 DEF IsReferenced, ResourceRefers, CallRefers, IsReferring, Holding
  <2>3. ASSUME NEW w \in Workers PROVE call[w].pc = "idle"
    BY <2>2 DEF VkInv, PrefetchInv, PrefetchOK
  <2> QED
    BY <2>1, <2>3 DEF Callers
<1>3. ASSUME NEW m \in MemoryIds PROVE memories'[m] = NoMemory
  <2>1. UsersOf(m) = {} /\ HoldersOf(m) = {}
    BY <1>1, <1>2 DEF UsersOf, HoldersOf, Holding
  <2>2. memories[m] # NoMemory => memories[m].blocks = 0
    BY <2>1, FS_EmptySet DEF VkInv, BlocksInv, BlocksOK
  <2> QED
    BY <1>1, <2>2
<1>4. TypeOK'
  BY <1>1, <1>3 DEF VkInv, TypeOK, Memory, Resource, Call, MemoryTypeIndices
<1>5. CallInv'
  BY <1>1, <1>2 DEF CallInv, CallOK, IsCreating, Creating, Holding
<1>6. OneCreator' /\ BoundInv' /\ PrefetchInv'
  BY <1>1, <1>2 DEF VkInv, OneCreator, IsCreating, BoundInv, PrefetchInv, PrefetchOK, Callers
<1>7. CreatedInv'
  BY <1>1 DEF VkInv, CreatedInv, CreatorsOf
<1>8. BlocksInv'
  BY <1>3 DEF BlocksInv, BlocksOK, NoMemory
<1> QED
  BY <1>4, <1>5, <1>6, <1>7, <1>8 DEF VkInv

(* The state as far as the types, the calls and the blocks go is the same. *)
LEMMA SameState ==
  ASSUME VkInv, UNCHANGED <<config, memories, resources, call>>,
         isCreated' \in BOOLEAN, isCreated => isCreated',
         usedCount' \in [MemoryTypeIndices -> [DeviceMemoryAllocators -> Int]]
  PROVE  VkInv'
<1>1. TypeOK'
  BY DEF VkInv, TypeOK, Memory, Resource, Call, MemoryTypeIndices
<1>2. CallInv'
  <2> SUFFICES ASSUME NEW t \in Callers PROVE CallOK(t)'
    BY DEF CallInv
  <2> QED
    BY DEF VkInv, CallInv, CallOK, IsCreating, Suits, MemoryTypeIndices, NoMemory
<1>3. OneCreator'
  BY DEF VkInv, OneCreator, IsCreating
<1>4. BoundInv'
  BY DEF VkInv, BoundInv, Suits, MemoryTypeIndices, NoMemory
<1>5. CreatedInv'
  BY DEF VkInv, CreatedInv, CreatorsOf
<1>6. BlocksInv'
  BY DEF VkInv, BlocksInv, BlocksOK, NoMemory, UsersOf, HoldersOf
<1>7. PrefetchInv'
  BY DEF VkInv, PrefetchInv, PrefetchOK, IsReferenced, ResourceRefers, CallRefers, IsReferring
<1> QED
  BY <1>1, <1>2, <1>3, <1>4, <1>5, <1>6, <1>7 DEF VkInv

LEMMA CreateAllocatorStep ==
  ASSUME VkInv, CreateResourceAllocator
  PROVE  VkInv'
<1>1. /\ isCreated' = TRUE /\ usedCount' = NewCounts(config)
      /\ UNCHANGED <<config, memories, resources, call>>
  BY DEF CreateResourceAllocator
<1>2. usedCount' \in [MemoryTypeIndices -> [DeviceMemoryAllocators -> Int]]
  BY <1>1 DEF NewCounts, MemoryTypeIndices
<1> QED
  BY <1>1, <1>2, SameState

-----------------------------------------------------------------------------
LEMMA InitHolds == Init => VkInv
<1> SUFFICES ASSUME Init PROVE VkInv
  OBVIOUS
<1>1. \A t \in Callers : call[t] = Idle /\ call[t].pc = "idle"
  BY DEF Init, Idle
<1>2. TypeOK
  BY DEF Init, TypeOK, NewCounts, MemoryTypeIndices
<1>3. CallInv /\ OneCreator /\ PrefetchInv
  BY <1>1 DEF CallInv, CallOK, OneCreator, IsCreating, PrefetchInv, PrefetchOK, Creating, Holding,
              Callers
<1>4. BoundInv /\ CreatedInv /\ BlocksInv
  BY DEF Init, BoundInv, CreatedInv, NoResource, BlocksInv, BlocksOK
<1> QED
  BY <1>2, <1>3, <1>4 DEF VkInv

LEMMA NextKeeps ==
  ASSUME VkInv, [Next]_vars
  PROVE  VkInv'
<1>1. ASSUME NEW t \in Callers, Continue(t) PROVE VkInv'
  BY <1>1, RequireStep, ReuseStep, AllocateStep, CountStep, TakePrefetchedStep, DiscardStep,
     PostPrefetchStep, FailStep, DestroyFailedStep, BindStep, BindFailsStep, DeallocateStep,
     UncountStep, DropStep DEF Continue
<1>2. CASE UNCHANGED vars
  <2>1. UNCHANGED <<config, isCreated, memories, resources, usedCount, call>>
    BY <1>2 DEF vars
  <2>2. /\ usedCount' \in [MemoryTypeIndices -> [DeviceMemoryAllocators -> Int]]
        /\ isCreated' \in BOOLEAN
    BY <2>1 DEF VkInv, TypeOK
  <2> QED
    BY <2>1, <2>2, SameState
<1> QED
  BY <1>1, <1>2, CreateStep, DestroyStep, DestroyAllocatorStep, CreateAllocatorStep DEF Next

(* The inductive invariant of the Vulkan allocator: whatever the threads   *)
(* and the workers do, every call knows its resource and its memory, every *)
(* block is accounted for, and no pre-fetch outlives the references to the *)
(* slab allocator it is made for.                                          *)
THEOREM Structure == Spec => []VkInv
BY InitHolds, NextKeeps, PTL DEF Spec

(* No failure of creation at any step, and no destruction, leaves a        *)
(* resource, a block or device memory behind.                              *)
THEOREM FailuresLeaveNothing ==
  ASSUME RequestsHaveSize
  PROVE  Spec => []NothingLeaks
<1>1. VkInv => NothingLeaks
  BY DEF VkInv, CreatedInv, BlocksInv, BlocksOK, NothingLeaks
<1> QED
  BY <1>1, Structure, PTL

(* Resources are bound only to memory of a type that suits them.           *)
THEOREM BoundMemorySuits == Spec => []MemoryTypeSuits
<1>1. VkInv => MemoryTypeSuits
  BY DEF VkInv, BoundInv, Suits, MemoryTypeSuits
<1> QED
  BY <1>1, Structure, PTL

-----------------------------------------------------------------------------
(* The counts.  Between the load and the store of an allocation or a       *)
(* deallocation the count is one behind; it is still the number the call   *)
(* has loaded, because nobody else is between the two.                     *)
Counting == {"count", "uncount"}

CountersOf(type, chain) ==
    {t \in Callers : call[t].pc \in Counting /\ call[t].type = type /\ call[t].chain = chain}

Ahead(t) == IF call[t].pc = "count" THEN 1 ELSE -1

CountOK(type, chain) ==
    /\ \A t, u \in CountersOf(type, chain) : t = u
    /\ CountersOf(type, chain) = {} => usedCount[type][chain] = Cardinality(Owned(type, chain))
    /\ \A t \in CountersOf(type, chain) :
         /\ call[t].count = usedCount[type][chain]
         /\ Cardinality(Owned(type, chain)) = usedCount[type][chain] + Ahead(t)

CountInv ==
    IsExclusive /\ isCreated =>
      \A type \in MemoryTypeIndices, chain \in DeviceMemoryAllocators : CountOK(type, chain)

(* Where a call may enter its chain, nobody is between the load and the    *)
(* store of its count: the pool keeps all others out, and without a pool   *)
(* there are none.                                                         *)
LEMMA NobodyElse ==
  ASSUME VkInv, IsExclusive, NEW t \in Callers, CanEnter(t), call[t].pc \notin Counting \cup {"idle"}
  PROVE  CountersOf(call[t].type, call[t].chain) = {}
<1> SUFFICES ASSUME NEW u \in CountersOf(call[t].type, call[t].chain)
             PROVE  FALSE
  OBVIOUS
<1>1. /\ u \in Callers \ {t} /\ call[u].pc \in Counting
      /\ call[u].type = call[t].type /\ call[u].chain = call[t].chain
  BY DEF CountersOf
<1>2. CallOK(t) /\ CallOK(u) /\ call[u].pc # "idle" /\ call[t].pc # "idle"
  BY <1>1 DEF VkInv, CallInv, Counting
<1>3. CASE config.onDemand
  <2>1. ~config.prefetch /\ \A v, w \in config.threads : v = w
    BY <1>3 DEF IsExclusive
  <2>2. t \notin Workers /\ u \notin Workers
    BY <1>2, <2>1 DEF CallOK
  <2>3. t \in config.threads /\ u \in config.threads
    BY <1>1, <1>2, <2>2 DEF CallOK, Callers
  <2> QED
    BY <1>1, <2>1, <2>3
<1>4. CASE ~config.onDemand
  BY <1>1, <1>4 DEF CanEnter, KeepsOut, Counting
<1> QED
  BY <1>3, <1>4

(* A count that the step is not about.                                     *)
LEMMA CountKept ==
  ASSUME NEW type, NEW chain, CountOK(type, chain), CountersOf(type, chain)' = CountersOf(type, chain),
         \A t \in CountersOf(type, chain) : call'[t] = call[t],
         Owned(type, chain)' = Owned(type, chain), usedCount'[type][chain] = usedCount[type][chain]
  PROVE  CountOK(type, chain)'
BY DEF CountOK, Ahead

(* A call that has loaded the count and allocated or freed memory m.       *)
LEMMA CountLoaded ==
  ASSUME NEW type, NEW chain, CountOK(type, chain), CountersOf(type, chain) = {},
         usedCount'[type][chain] = usedCount[type][chain], usedCount[type][chain] \in Int,
         NEW t, CountersOf(type, chain)' = {t}, call'[t].count = usedCount[type][chain],
         NEW m, OtherMemoriesKept(m),
         call'[t].pc = "count" => m \notin Owned(type, chain) /\ m \in Owned(type, chain)',
         call'[t].pc # "count" => m \in Owned(type, chain) /\ m \notin Owned(type, chain)'
  PROVE  CountOK(type, chain)'
<1>1. IsFiniteSet(Owned(type, chain))
  BY ResourceAllocatorVkAssumption, FS_Subset DEF Owned
<1>2. Owned(type, chain)' \ {m} = Owned(type, chain) \ {m}
  BY DEF Owned, OtherMemoriesKept
<1>3. /\ Cardinality(Owned(type, chain)) \in Nat
      /\ Cardinality(Owned(type, chain))' =
           Cardinality(Owned(type, chain)) + (IF m \in Owned(type, chain)' THEN 1 ELSE 0)
                                           - (IF m \in Owned(type, chain) THEN 1 ELSE 0)
  BY <1>1, <1>2, DifferInOne
<1>4. Cardinality(Owned(type, chain)) = usedCount[type][chain]
  BY DEF CountOK
<1>5. Cardinality(Owned(type, chain))' = usedCount'[type][chain] + Ahead(t)'
  BY <1>3, <1>4 DEF Ahead
<1> QED
  BY <1>5 DEF CountOK

(* And that stores it.                                                     *)
LEMMA CountStored ==
  ASSUME NEW type, NEW chain, CountOK(type, chain), NEW t \in CountersOf(type, chain),
         CountersOf(type, chain)' = CountersOf(type, chain) \ {t},
         Owned(type, chain)' = Owned(type, chain),
         usedCount'[type][chain] = call[t].count + Ahead(t)
  PROVE  CountOK(type, chain)'
BY DEF CountOK

(* A step that allocates and frees no device memory.                       *)
LEMMA QuietStep ==
  ASSUME CountInv, UNCHANGED <<config, isCreated, usedCount>>,
         \A u \in Callers : call[u].pc \in Counting \/ call'[u].pc \in Counting => call'[u] = call[u],
         \A m \in MemoryIds :
           memories'[m].chain = memories[m].chain /\ memories'[m].type = memories[m].type
  PROVE  CountInv'
<1>1. ASSUME NEW type, NEW chain, CountOK(type, chain) PROVE CountOK(type, chain)'
  <2>1. Owned(type, chain)' = Owned(type, chain)
    BY DEF Owned
  <2>2. CountersOf(type, chain)' = CountersOf(type, chain)
    BY DEF CountersOf
  <2>3. \A t \in CountersOf(type, chain) : call'[t] = call[t]
    BY DEF CountersOf
  <2> QED
    BY <1>1, <2>1, <2>2, <2>3, CountKept
<1> QED
  BY <1>1 DEF CountInv, IsExclusive, MemoryTypeIndices

(* The step of a call that loads the count.                                *)
LEMMA LoadStep ==
  ASSUME VkInv, CountInv, NEW t \in Callers, CanEnter(t), call[t].pc \notin Counting \cup {"idle"},
         UNCHANGED <<config, isCreated, usedCount>>, OtherCallsKept(t), call'[t].pc \in Counting,
         call'[t].type = call[t].type, call'[t].chain = call[t].chain,
         call'[t].count = usedCount[call[t].type][call[t].chain],
         NEW m \in MemoryIds, OtherMemoriesKept(m),
         call'[t].pc = "count" =>
           /\ memories[m] = NoMemory
           /\ memories'[m].type = call[t].type /\ memories'[m].chain = call[t].chain,
         call'[t].pc # "count" =>
           /\ memories'[m] = NoMemory
           /\ memories[m].type = call[t].type /\ memories[m].chain = call[t].chain
  PROVE  CountInv'
<1> SUFFICES ASSUME IsExclusive, isCreated, NEW type \in MemoryTypeIndices,
                    NEW chain \in DeviceMemoryAllocators
             PROVE  CountOK(type, chain)'
  BY DEF CountInv, IsExclusive, MemoryTypeIndices
<1>1. CountOK(type, chain) /\ usedCount[type][chain] \in Int
  BY DEF CountInv, VkInv, TypeOK
<1>2. chain # "none"
  BY DEF DeviceMemoryAllocators
<1>3. CASE type = call[t].type /\ chain = call[t].chain
  <2>1. CountersOf(type, chain) = {}
    BY <1>3, NobodyElse
  <2>2. CountersOf(type, chain)' = {t}
    BY <1>3, <2>1 DEF CountersOf, OtherCallsKept
  <2>3. /\ call'[t].pc = "count" => m \notin Owned(type, chain) /\ m \in Owned(type, chain)'
        /\ call'[t].pc # "count" => m \in Owned(type, chain) /\ m \notin Owned(type, chain)'
    BY <1>2, <1>3 DEF Owned, NoMemory
  <2> QED
    BY <1>1, <1>3, <2>1, <2>2, <2>3, CountLoaded
<1>4. CASE ~(type = call[t].type /\ chain = call[t].chain)
  <2>1. CountersOf(type, chain)' = CountersOf(type, chain)
    BY <1>4 DEF CountersOf, OtherCallsKept
  <2>2. Owned(type, chain)' = Owned(type, chain)
    BY <1>2, <1>4 DEF Owned, OtherMemoriesKept, NoMemory
  <2>3. \A u \in CountersOf(type, chain) : call'[u] = call[u]
    BY <1>4 DEF CountersOf, OtherCallsKept
  <2> QED
    BY <1>1, <2>1, <2>2, <2>3, CountKept
<1> QED
  BY <1>3, <1>4

(* And the one that stores it.                                             *)
LEMMA StoreStep ==
  ASSUME VkInv, CountInv, NEW t \in Callers, call[t].pc \in Counting,
         UNCHANGED <<config, isCreated, memories>>, OtherCallsKept(t), call'[t].pc \notin Counting,
         usedCount' = [usedCount EXCEPT ![call[t].type][call[t].chain] = call[t].count + Ahead(t)]
  PROVE  CountInv'
<1> SUFFICES ASSUME IsExclusive, isCreated, NEW type \in MemoryTypeIndices,
                    NEW chain \in DeviceMemoryAllocators
             PROVE  CountOK(type, chain)'
  BY DEF CountInv, IsExclusive, MemoryTypeIndices
<1>1. CountOK(type, chain) /\ Owned(type, chain)' = Owned(type, chain)
  BY DEF CountInv, Owned
<1>2. usedCount \in [MemoryTypeIndices -> [DeviceMemoryAllocators -> Int]]
  BY DEF VkInv, TypeOK
<1>3. CASE type = call[t].type /\ chain = call[t].chain
  <2>1. t \in CountersOf(type, chain) /\ CountersOf(type, chain)' = CountersOf(type, chain) \ {t}
    BY <1>3 DEF CountersOf, OtherCallsKept
  <2>2. usedCount'[type][chain] = call[t].count + Ahead(t)
    BY <1>2, <1>3
  <2> QED
    BY <1>1, <2>1, <2>2, CountStored
<1>4. CASE ~(type = call[t].type /\ chain = call[t].chain)
  <2>1. CountersOf(type, chain)' = CountersOf(type, chain)
    BY <1>4 DEF CountersOf, OtherCallsKept
  <2>2. \A u \in CountersOf(type, chain) : call'[u] = call[u]
    BY <1>4 DEF CountersOf, OtherCallsKept
  <2>3. usedCount'[type][chain] = usedCount[type][chain]
    BY <1>2, <1>4
  <2> QED
    BY <1>1, <2>1, <2>2, <2>3, CountKept
<1> QED
  BY <1>3, <1>4

LEMMA AllocateCounts ==
  ASSUME VkInv, CountInv, NEW t \in Callers, AllocateMemory(t)
  PROVE  CountInv'
<1>1. PICK m \in MemoryIds :
        /\ memories[m] = NoMemory
        /\ memories' = [memories EXCEPT ![m] = [chain |-> call[t].chain, type |-> call[t].type,
                                                blocks |-> 1, size |-> call[t].request.size]]
        /\ call' = [call EXCEPT ![t].pc = "count", ![t].memory = m,
                                ![t].count = usedCount[call[t].type][call[t].chain]]
  BY DEF AllocateMemory
<1>2. /\ call[t].pc = "allocate" /\ CanEnter(t) /\ UNCHANGED <<config, isCreated, usedCount>>
  BY DEF AllocateMemory, IsAllocating
<1>3. call[t] \in Call
  BY <1>2, InCall
<1>4. /\ OtherCallsKept(t) /\ call'[t].pc = "count" /\ call'[t].type = call[t].type
      /\ call'[t].chain = call[t].chain
      /\ call'[t].count = usedCount[call[t].type][call[t].chain]
  BY <1>1, <1>3 DEF VkInv, TypeOK, Call, OtherCallsKept
<1>5. /\ OtherMemoriesKept(m)
      /\ memories'[m].type = call[t].type /\ memories'[m].chain = call[t].chain
  BY <1>1 DEF VkInv, TypeOK, OtherMemoriesKept
<1> QED
  BY <1>1, <1>2, <1>4, <1>5, LoadStep DEF Counting

LEMMA CountCounts ==
  ASSUME VkInv, CountInv, NEW t \in Callers, CountMemory(t)
  PROVE  CountInv'
<1>1. /\ call[t].pc = "count" /\ UNCHANGED <<config, isCreated, memories>>
      /\ usedCount' = [usedCount EXCEPT ![call[t].type][call[t].chain] = call[t].count + 1]
      /\ call' = [call EXCEPT ![t].pc = AfterAllocate(t)]
  BY DEF CountMemory
<1>2. call[t] \in Call /\ AfterAllocate(t) \notin Counting
  BY <1>1, InCall, AfterAllocateType DEF Counting
<1>3. OtherCallsKept(t) /\ call'[t].pc \notin Counting
  BY <1>1, <1>2 DEF VkInv, TypeOK, Call, OtherCallsKept
<1>4. usedCount' = [usedCount EXCEPT ![call[t].type][call[t].chain] = call[t].count + Ahead(t)]
  BY <1>1 DEF Ahead
<1> QED
  BY <1>1, <1>3, <1>4, StoreStep DEF Counting

(* The call that has returned its block leaves the counts alone.           *)
LEMMA Returned ==
  ASSUME VkInv, NEW t \in Callers, call[t].pc # "idle", Deallocated(t)
  PROVE  OtherCallsKept(t) /\ call'[t].pc \notin Counting
<1>1. call[t] \in Call
  BY InCall
<1> DEFINE c == IF HasPrefetch(t) /\ ~IsCacheUsed(t) THEN [call[t] EXCEPT !.pc = "drop"] ELSE Idle
<1>2. c \in Call \cup {Idle} /\ c.pc \notin Counting
  BY <1>1 DEF Call, Idle, Counting
<1>3. call' = [call EXCEPT ![t] = c]
  BY DEF Deallocated
<1> HIDE DEF c
<1> QED
  BY <1>2, <1>3, Updated DEF VkInv

LEMMA UncountCounts ==
  ASSUME VkInv, CountInv, NEW t \in Callers, UncountMemory(t)
  PROVE  CountInv'
<1>1. /\ call[t].pc = "uncount" /\ UNCHANGED <<config, isCreated, memories>> /\ Deallocated(t)
      /\ usedCount' = [usedCount EXCEPT ![call[t].type][call[t].chain] = call[t].count - 1]
  BY DEF UncountMemory
<1>2. OtherCallsKept(t) /\ call'[t].pc \notin Counting
  BY <1>1, Returned
<1>3. call[t].count - 1 = call[t].count + Ahead(t)
  BY <1>1, InCall DEF Call, Ahead
<1>4. usedCount' = [usedCount EXCEPT ![call[t].type][call[t].chain] = call[t].count + Ahead(t)]
  BY <1>1, <1>3
<1> QED
  BY <1>1, <1>2, <1>4, StoreStep DEF Counting

LEMMA DeallocateCounts ==
  ASSUME VkInv, CountInv, NEW t \in Callers, DeallocateMemory(t)
  PROVE  CountInv'
<1>1. /\ call[t].pc = "deallocate" /\ CanEnter(t) /\ UNCHANGED <<config, isCreated, usedCount>>
  BY DEF DeallocateMemory
<1>2. call[t] \in Call /\ CallOK(t)
  BY <1>1, InCall
<1>3. PICK m \in MemoryIds :
        /\ m = call[t].memory /\ t \in HoldersOf(m)
        /\ memories[m].type = call[t].type /\ memories[m].chain = call[t].chain
  BY <1>1, <1>2 DEF CallOK, Holding, HoldersOf
<1>4. memories[m] \in Memory
  BY <1>3, HeldBlock
<1>5. CASE memories[m].blocks = 1 /\ config.onDemand
  <2>1. /\ memories' = [memories EXCEPT ![m] = NoMemory]
        /\ call' = [call EXCEPT ![t].pc = "uncount",
                                ![t].count = usedCount[call[t].type][call[t].chain]]
    BY <1>3, <1>5 DEF DeallocateMemory
  <2>2. /\ OtherCallsKept(t) /\ call'[t].pc = "uncount" /\ call'[t].type = call[t].type
        /\ call'[t].chain = call[t].chain
        /\ call'[t].count = usedCount[call[t].type][call[t].chain]
    BY <1>2, <2>1 DEF VkInv, TypeOK, Call, OtherCallsKept
  <2>3. OtherMemoriesKept(m) /\ memories'[m] = NoMemory
    BY <2>1 DEF VkInv, TypeOK, OtherMemoriesKept
  <2> QED
    BY <1>1, <1>3, <2>2, <2>3, LoadStep DEF Counting
<1>6. CASE ~(memories[m].blocks = 1 /\ config.onDemand)
  <2>1. memories' = [memories EXCEPT ![m].blocks = @ - 1] /\ Deallocated(t)
    BY <1>3, <1>6 DEF DeallocateMemory
  <2>2. OtherCallsKept(t) /\ call'[t].pc \notin Counting
    BY <1>1, <2>1, Returned
  <2>3. \A o \in MemoryIds :
          memories'[o].chain = memories[o].chain /\ memories'[o].type = memories[o].type
    BY <1>4, <2>1 DEF VkInv, TypeOK, Memory
  <2> QED
    BY <1>1, <2>2, <2>3, QuietStep DEF OtherCallsKept, Counting
<1> QED
  BY <1>5, <1>6

(* Taking memory that is there changes no chain or type.                   *)
LEMMA ReuseCounts ==
  ASSUME VkInv, CountInv, NEW t \in Callers, ReuseMemory(t)
  PROVE  CountInv'
<1>1. PICK m \in MemoryIds :
        /\ memories[m].chain = call[t].chain
        /\ memories' = [memories EXCEPT ![m].blocks = @ + 1]
        /\ call' = [call EXCEPT ![t].pc = AfterAllocate(t), ![t].memory = m]
  BY DEF ReuseMemory
<1>2. call[t].pc = "allocate" /\ UNCHANGED <<config, isCreated, usedCount>>
  BY DEF ReuseMemory, IsAllocating
<1>3. call[t] \in Call /\ AfterAllocate(t) \notin Counting
  BY <1>2, InCall, AfterAllocateType DEF Counting
<1>4. OtherCallsKept(t) /\ call'[t].pc \notin Counting
  BY <1>1, <1>3 DEF VkInv, TypeOK, Call, OtherCallsKept
<1>5. memories[m] \in Memory
  BY <1>1, <1>3 DEF VkInv, TypeOK, Call, NoMemory
<1>6. \A o \in MemoryIds :
        memories'[o].chain = memories[o].chain /\ memories'[o].type = memories[o].type
  BY <1>1, <1>5 DEF VkInv, TypeOK, Memory
<1> QED
  BY <1>2, <1>4, <1>6, QuietStep DEF OtherCallsKept, Counting

(* The steps of one caller that change no memory and no count.             *)
LEMMA OtherStepsCount ==
  ASSUME VkInv, CountInv, NEW t \in Callers,
         \/ GetMemoryRequirements(t) \/ TryAllocateFails(t) \/ DestroyFailed(t) \/ BindMemory(t)
         \/ BindFails(t) \/ DropSlabAllocator(t) \/ CreateResource(t) \/ DestroyResource(t)
  PROVE  CountInv'
<1>1. UNCHANGED <<config, isCreated, memories, usedCount>> /\ call[t].pc \notin Counting
  BY DEF GetMemoryRequirements, TryAllocateFails, IsAllocating, DestroyFailed, BindMemory,
         BindFails, DropSlabAllocator, CreateResource, DestroyResource, Idle, Counting
<1>2. ASSUME NEW c, c.pc \notin Counting, call' = [call EXCEPT ![t] = c]
      PROVE  CountInv'
  <2>1. call'[t] = c /\ OtherCallsKept(t)
    BY <1>2 DEF VkInv, TypeOK, OtherCallsKept
  <2> QED
    BY <1>1, <1>2, <2>1, QuietStep DEF OtherCallsKept
<1>3. Idle.pc \notin Counting
  BY DEF Idle, Counting
<1>4. CASE GetMemoryRequirements(t)
  <2>1. CASE call[t].request.size = 0
    BY <1>2, <1>3, <1>4, <2>1 DEF GetMemoryRequirements, Return
  <2>2. CASE call[t].request.size # 0
    <3>1. call[t] \in Call
      BY <1>4, InCall DEF GetMemoryRequirements
    <3> DEFINE type == FindMemoryTypeIndex(call[t].request)
               pc == IF type = NoType THEN "failed" ELSE "allocate"
               chain == IF call[t].request.neverSubAllocate THEN "device" ELSE "sub"
               c == [call[t] EXCEPT !.pc = pc, !.type = type, !.chain = chain]
    <3>2. call' = [call EXCEPT ![t] = c]
      BY <1>4, <2>2 DEF GetMemoryRequirements, VkInv, TypeOK
    <3>3. c.pc \notin Counting
      BY <3>1 DEF Call, Counting
    <3> QED
      BY <1>2, <3>2, <3>3
  <2> QED
    BY <2>1, <2>2
<1>5. CASE TryAllocateFails(t)
  <2> DEFINE c == IF t \in Workers THEN Idle
                  ELSE IF call[t].chain = "sub" THEN [call[t] EXCEPT !.chain = "device"]
                  ELSE [call[t] EXCEPT !.pc = "failed"]
  <2>1. call[t].pc = "allocate" /\ call[t] \in Call /\ call' = [call EXCEPT ![t] = c]
    BY <1>5, InCall DEF TryAllocateFails, IsAllocating
  <2>2. c.pc \notin Counting
    BY <2>1 DEF Call, Counting, Idle
  <2> QED
    BY <1>2, <2>1, <2>2
<1>6. CASE DestroyFailed(t) \/ BindMemory(t) \/ DropSlabAllocator(t)
  BY <1>2, <1>3, <1>6 DEF DestroyFailed, BindMemory, DropSlabAllocator, Return
<1>7. CASE BindFails(t)
  <2> DEFINE c == [call[t] EXCEPT !.pc = "deallocate"]
  <2>1. call[t] \in Call /\ call' = [call EXCEPT ![t] = c]
    BY <1>7, InCall DEF BindFails
  <2>2. c.pc \notin Counting
    BY <2>1 DEF Call, Counting
  <2> QED
    BY <1>2, <2>1, <2>2
<1>8. CASE CreateResource(t) \/ DestroyResource(t)
  BY <1>2, <1>8 DEF CreateResource, DestroyResource, NewCall, Counting
<1> QED
  BY <1>4, <1>5, <1>6, <1>7, <1>8

(* What clients and workers do with a pre-fetch leaves the counts alone.   *)
LEMMA PrefetchCounts ==
  ASSUME VkInv, CountInv, NEW t \in Callers,
         TakePrefetched(t) \/ DiscardPrefetched(t) \/ PostPrefetch(t)
  PROVE  CountInv'
<1>1. UNCHANGED <<config, isCreated, memories, usedCount>>
  BY DEF TakePrefetched, DiscardPrefetched, PostPrefetch
<1>2. \A u \in Callers : call[u].pc \in Counting \/ call'[u].pc \in Counting => call'[u] = call[u]
  <2>1. CASE TakePrefetched(t)
    <3>1. PICK w \in PrefetchFor(t) :
            /\ call[w].pc = "ready"
            /\ call' = [call EXCEPT ![t].pc = AfterAllocate(t), ![t].memory = call[w].memory,
                                    ![w] = Idle]
      BY <2>1 DEF TakePrefetched
    <3>2. call[t].pc = "allocate" /\ w \in Callers
      BY <2>1 DEF TakePrefetched, IsAllocating, PrefetchFor, Callers
    <3>3. call[t] \in Call /\ AfterAllocate(t) \notin Counting
      BY <3>2, InCall, AfterAllocateType DEF Counting
    <3> QED
      BY <3>1, <3>2, <3>3 DEF VkInv, TypeOK, Call, Counting, Idle
  <2>2. CASE DiscardPrefetched(t)
    <3>1. PICK w \in PrefetchFor(t) :
            call[w].pc = "ready" /\ call' = [call EXCEPT ![w].pc = "deallocate"]
      BY <2>2 DEF DiscardPrefetched
    <3>2. call[w] \in Call /\ w \in Callers
      BY <3>1, InCall DEF PrefetchFor, Callers
    <3> QED
      BY <3>1, <3>2 DEF VkInv, TypeOK, Call, Counting
  <2>3. CASE PostPrefetch(t)
    <3>1. call[t].pc = "prefetch" /\ call[t] \in Call
      BY <2>3, InCall DEF PostPrefetch
    <3>2. CASE call' = [call EXCEPT ![t].pc = "bind"]
      BY <3>1, <3>2 DEF VkInv, TypeOK, Call, Counting
    <3>3. CASE \E w \in Workers :
                 /\ call[w] = Idle
                 /\ call' = [call EXCEPT ![t].pc = "bind",
                                         ![w] = NewCall("allocate", "none", call[t].request,
                                                        call[t].type, "sub", "none")]
      BY <3>1, <3>3 DEF VkInv, TypeOK, Call, Counting, NewCall, Idle, Callers
    <3> QED
      BY <2>3, <3>2, <3>3 DEF PostPrefetch
  <2> QED
    BY <2>1, <2>2, <2>3
<1> QED
  BY <1>1, <1>2, QuietStep

(* A new allocator finds no device memory and no call.                     *)
LEMMA AllocatorCounts ==
  ASSUME VkInv, CountInv, DestroyResourceAllocator \/ CreateResourceAllocator
  PROVE  CountInv'
<1>1. CASE DestroyResourceAllocator
  BY <1>1 DEF DestroyResourceAllocator, CountInv
<1>2. CASE CreateResourceAllocator
  <2>1. ~isCreated /\ usedCount' = NewCounts(config) /\ UNCHANGED <<config, memories, call>>
    BY <1>2 DEF CreateResourceAllocator
  <2>2. \A t \in Callers : call'[t].pc \notin Counting
    BY <2>1, InCall DEF Counting
  <2>3. \A m \in MemoryIds : memories'[m] = NoMemory
    BY <2>1 DEF VkInv, BlocksInv, BlocksOK
  <2>4. ASSUME NEW type \in MemoryTypeIndices, NEW chain \in DeviceMemoryAllocators
        PROVE  CountOK(type, chain)'
    <3>1. Owned(type, chain)' = {} /\ CountersOf(type, chain)' = {}
      BY <2>2, <2>3 DEF Owned, NoMemory, DeviceMemoryAllocators, CountersOf
    <3>2. Cardinality(Owned(type, chain))' = 0
      BY <3>1, FS_EmptySet
    <3>3. usedCount'[type][chain] = 0
      BY <2>1 DEF NewCounts, MemoryTypeIndices
    <3> QED
      BY <3>1, <3>2, <3>3 DEF CountOK
  <2> QED
    BY <2>1, <2>4 DEF CountInv, MemoryTypeIndices
<1> QED
  BY <1>1, <1>2

(* With pools, or without them if there is one client and no pre-fetch,    *)
(* the count compared with the device's limit is the number of device      *)
(* memories, whatever clients and workers do and whatever fails.           *)
THEOREM CountsStayExact == Spec => []ProtectedCountsExact
<1>1. Init => CountInv
  <2> SUFFICES ASSUME Init, NEW type \in MemoryTypeIndices, NEW chain \in DeviceMemoryAllocators
               PROVE  CountOK(type, chain)
    BY DEF CountInv
  <2>1. Owned(type, chain) = {} /\ CountersOf(type, chain) = {}
    BY DEF Init, Owned, NoMemory, DeviceMemoryAllocators, CountersOf, Counting, Idle
  <2>2. usedCount[type][chain] = 0
    BY DEF Init, NewCounts, MemoryTypeIndices
  <2> QED
    BY <2>1, <2>2, FS_EmptySet DEF CountOK
<1>2. VkInv /\ CountInv /\ [Next]_vars => CountInv'
  <2> SUFFICES ASSUME VkInv, CountInv, [Next]_vars PROVE CountInv'
    OBVIOUS
  <2>1. ASSUME NEW t \in Callers, Continue(t) PROVE CountInv'
    BY <2>1, AllocateCounts, CountCounts, ReuseCounts, DeallocateCounts, UncountCounts,
       OtherStepsCount, PrefetchCounts DEF Continue
  <2>2. ASSUME NEW t \in Threads, CreateResource(t) \/ DestroyResource(t) PROVE CountInv'
    BY <2>2, OtherStepsCount DEF Callers
  <2>3. CASE UNCHANGED vars
    BY <2>3, QuietStep DEF vars
  <2> QED
    BY <2>1, <2>2, <2>3, AllocatorCounts DEF Next
<1>3. CountInv => ProtectedCountsExact
  BY DEF CountInv, CountOK, CountersOf, Counting, ProtectedCountsExact, CountsExact
<1> QED
  BY <1>1, <1>2, <1>3, Structure, PTL DEF Spec

=============================================================================
