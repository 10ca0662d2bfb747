------------------------ MODULE ResourceAllocatorVk ------------------------
(***************************************************************************)
(* The Vulkan resource allocator: threads create a buffer or image,        *)
(* allocate memory of a suitable type for it and bind the two, and destroy *)
(* both.                                                                   *)
(*                                                                         *)
(* Every memory type has two chains: "sub", which sub-allocates device     *)
(* memory, and "device", which does not.  Each ends in a                   *)
(* DeviceMemoryAllocator, which has no mutex of its own, so that its       *)
(* counter is loaded and stored in two steps.  In front of it are the      *)
(* mutex of the pool, unless memory is allocated on demand, and in the sub *)
(* chain the mutex of the sub-allocator, which a client holds but not the  *)
(* worker that pre-fetches the memory of a slab.                           *)
(***************************************************************************)
EXTENDS Integers, Sequences, FiniteSets

CONSTANTS
    Threads,          \* the application's threads
    Workers,          \* threads of the pool that pre-fetch memory
    MemoryIds,        \* names for VkDeviceMemory
    ResourceIds,      \* names for VkBuffer and VkImage
    BlocksPerMemory,  \* blocks of sub-allocated device memory
    Configs           \* how the allocator is created and used, see IsConfig

VARIABLES
    config,           \* what the allocator is created with, and called with
    isCreated,        \* whether the allocator exists
    memories,         \* MemoryIds -> NoMemory or the device memory
    resources,        \* ResourceIds -> NoResource or the resource
    usedCount,        \* UsedMemoryCount of each DeviceMemoryAllocator
    call              \* Callers -> Idle or the call, or the pre-fetch, in progress

vars == <<config, isCreated, memories, resources, usedCount, call>>

NoMemory == [chain |-> "none"]
NoResource == [state |-> "none"]
Idle == [pc |-> "idle"]
NoType == 0

(* VkMemoryPropertyFlags of a memory type.                                 *)
PropertyFlags == SUBSET {"deviceLocal", "hostVisible", "hostCached"}

(* GpAllocatorCreateInfo, as far as it decides which chains there are:     *)
(* GP_ALLOCATOR_CREATE_ALWAYS_ON_DEMAND leaves the pools out, and slabs    *)
(* are pre-fetched but for GP_ALLOCATOR_CREATE_DISABLE_MEMORY_PREFETCH.    *)
GpAllocatorCreateInfo == [onDemand : BOOLEAN, prefetch : BOOLEAN]

(* GpResourceAllocationCreateInfo with the requirements of the resource.   *)
GpResourceAllocationCreateInfo ==
    [neverAllocate : BOOLEAN, neverSubAllocate : BOOLEAN, requiredPropertyFlags : PropertyFlags,
     memoryTypeBits : SUBSET Nat, size : Nat]

(* What the device reports, an allocator, and which threads call it how.   *)
IsConfig(cfg) ==
    /\ cfg.memoryTypes \in Seq(PropertyFlags) /\ cfg.maxCount \in Nat
    /\ [onDemand |-> cfg.onDemand, prefetch |-> cfg.prefetch] \in GpAllocatorCreateInfo
    /\ cfg.threads \subseteq Threads
    /\ cfg.requests \subseteq GpResourceAllocationCreateInfo

ASSUME ResourceAllocatorVkAssumption ==
    /\ BlocksPerMemory \in Nat \ {0}
    /\ IsFiniteSet(Threads) /\ IsFiniteSet(Workers) /\ Threads \cap Workers = {}
    /\ IsFiniteSet(MemoryIds) /\ IsFiniteSet(ResourceIds)
    /\ \A cfg \in Configs : IsConfig(cfg)

Callers == Threads \cup Workers
MemoryTypeIndices == DOMAIN config.memoryTypes
DeviceMemoryAllocators == {"sub", "device"}

(* The constructor makes two chains for every memory type.                 *)
NewCounts(cfg) == [type \in DOMAIN cfg.memoryTypes |-> [chain \in DeviceMemoryAllocators |-> 0]]

Init ==
    /\ config \in Configs
    /\ isCreated = TRUE
    /\ memories = [m \in MemoryIds |-> NoMemory]
    /\ resources = [r \in ResourceIds |-> NoResource]
    /\ usedCount = NewCounts(config)
    /\ call = [t \in Callers |-> Idle]

NewCall(pc, resource, request, type, chain, memory) ==
    [pc |-> pc, resource |-> resource, request |-> request, type |-> type, chain |-> chain,
     memory |-> memory, count |-> 0]
Return(t) == call' = [call EXCEPT ![t] = Idle]

---------------------------------------------------------------------------
(* Mutant: the property flags are not looked at.                           *)
FindMemoryTypeIndex_AnyFlags(request) ==
    LET candidates == MemoryTypeIndices \cap request.memoryTypeBits
    IN  IF candidates = {} THEN NoType
        ELSE CHOOSE type \in candidates : \A other \in candidates : other <= type

(* The last acceptable memory type with all required property flags: the   *)
(* output that the loop compares is not set before the loop has ended.     *)
FindMemoryTypeIndex(request) ==
    LET candidates == {type \in MemoryTypeIndices \cap request.memoryTypeBits :
                         request.requiredPropertyFlags \subseteq config.memoryTypes[type]}
    IN  IF candidates = {} THEN NoType
        ELSE CHOOSE type \in candidates : \A other \in candidates : other <= type

(* gpCreateBuffer and gpCreateImage: the resource is created first.  If    *)
(* the device fails to, or there is no allocator, nothing happens.         *)
CreateResource(t) ==
    /\ call[t] = Idle /\ t \in config.threads /\ isCreated
    /\ \E r \in ResourceIds, request \in config.requests :
         /\ resources[r] = NoResource
         /\ resources' = [resources EXCEPT ![r] = [state |-> "created", request |-> request,
                                                   memory |-> "none"]]
         /\ call' = [call EXCEPT ![t] = NewCall("require", r, request, NoType, "sub", "none")]
    /\ UNCHANGED <<config, isCreated, memories, usedCount>>

(* Requirements of no size make the call return and leave the resource.    *)
GetMemoryRequirements(t) ==
    /\ call[t].pc = "require"
    /\ LET type == FindMemoryTypeIndex(call[t].request)
       IN  IF call[t].request.size = 0 THEN Return(t)
           ELSE call' = [call EXCEPT
                  ![t].pc = IF type = NoType THEN "failed" ELSE "allocate",
                  ![t].type = type,
                  ![t].chain = IF call[t].request.neverSubAllocate THEN "device" ELSE "sub"]
    /\ UNCHANGED <<config, isCreated, memories, resources, usedCount>>

---------------------------------------------------------------------------
(* Where a call has a block of memory, and who has one of memory m.        *)
Holding == {"count", "prefetch", "ready", "bind", "deallocate"}
HoldersOf(m) == {t \in Callers : call[t].pc \in Holding /\ call[t].memory = m}
UsersOf(m) == {r \in ResourceIds : resources[r].state = "bound" /\ resources[r].memory = m}

(* The pre-fetch of the slab allocator that call t is made to: there is    *)
(* one for every size.                                                     *)
PrefetchFor(t) ==
    {w \in Workers : /\ call[w] # Idle /\ call[w].type = call[t].type
                     /\ call[w].request.size = call[t].request.size}
HasPrefetch(t) == t \in Threads /\ call[t].chain = "sub" /\ PrefetchFor(t) # {}

(* A client is in the sub-allocator, with its mutex, until the memory is   *)
(* counted, the pre-fetch posted or dropped; a worker that deallocates     *)
(* does so for such a client.                                              *)
IsInSubAllocator(u) ==
    /\ call[u].pc \in IF u \in Threads THEN {"count", "prefetch", "uncount", "drop"}
                      ELSE {"deallocate", "uncount"}
    /\ call[u].chain = "sub"

(* Mutant: a pool allocates and frees memory without its mutex.            *)
KeepsOut_NoPoolMutex(u, t) ==
    /\ t \in Threads /\ IsInSubAllocator(u)
    /\ call[u].type = call[t].type /\ call[u].chain = call[t].chain

(* Whether call u has the mutex of the sub-allocator or of the pool that   *)
(* call t needs.                                                           *)
KeepsOut(u, t) ==
    /\ \/ t \in Threads /\ IsInSubAllocator(u)
       \/ ~config.onDemand /\ call[u].pc \in {"count", "uncount"}
    /\ call[u].type = call[t].type /\ call[u].chain = call[t].chain
CanEnter(t) == \A u \in Callers \ {t} : ~KeepsOut(u, t)

---------------------------------------------------------------------------
(* TryAllocateMemory, in the chain of the call.                            *)
IsAllocating(t) == call[t].pc = "allocate" /\ CanEnter(t)

Capacity(chain) == IF chain = "sub" THEN BlocksPerMemory ELSE 1

(* What follows once call t has a block: in a sub-allocator it is decided  *)
(* whether to pre-fetch.                                                   *)
AfterAllocate(t) ==
    IF t \in Workers THEN "ready"
    ELSE IF config.prefetch /\ call[t].chain = "sub" THEN "prefetch" ELSE "bind"

(* A block of memory in use, or memory of the pool; the latter only if no  *)
(* memory was pre-fetched.                                                 *)
ReuseMemory(t) ==
    /\ IsAllocating(t)
    /\ \E m \in MemoryIds :
         /\ memories[m].chain = call[t].chain /\ memories[m].type = call[t].type
         /\ memories[m].size = call[t].request.size
         /\ \/ memories[m].blocks = 0 /\ ~HasPrefetch(t)
            \/ /\ t \in Threads /\ memories[m].blocks \in 1..(Capacity(call[t].chain) - 1)
               /\ HoldersOf(m) \cap Workers = {}
         /\ memories' = [memories EXCEPT ![m].blocks = @ + 1]
         /\ call' = [call EXCEPT ![t].pc = AfterAllocate(t), ![t].memory = m]
    /\ UNCHANGED <<config, isCreated, resources, usedCount>>

(* DeviceMemoryAllocator::TryAllocateMemory up to the load of the count.   *)
AllocateMemory(t) ==
    /\ IsAllocating(t) /\ ~HasPrefetch(t) /\ ~call[t].request.neverAllocate
    /\ usedCount[call[t].type][call[t].chain] + 1 < config.maxCount
    /\ \E m \in MemoryIds :
         /\ memories[m] = NoMemory
         /\ memories' = [memories EXCEPT ![m] = [chain |-> call[t].chain, type |-> call[t].type,
                                                 blocks |-> 1, size |-> call[t].request.size]]
         /\ call' = [call EXCEPT ![t].pc = "count", ![t].memory = m,
                                 ![t].count = usedCount[call[t].type][call[t].chain]]
    /\ UNCHANGED <<config, isCreated, resources, usedCount>>

CountMemory(t) ==
    /\ call[t].pc = "count"
    /\ usedCount' = [usedCount EXCEPT ![call[t].type][call[t].chain] = call[t].count + 1]
    /\ call' = [call EXCEPT ![t].pc = AfterAllocate(t)]
    /\ UNCHANGED <<config, isCreated, memories, resources>>

(* A new slab takes the memory that was pre-fetched, once it is there.     *)
TakePrefetched(t) ==
    /\ IsAllocating(t) /\ HasPrefetch(t)
    /\ \E w \in PrefetchFor(t) :
         /\ call[w].pc = "ready"
         /\ call' = [call EXCEPT ![t].pc = AfterAllocate(t), ![t].memory = call[w].memory,
                                 ![w] = Idle]
    /\ UNCHANGED <<config, isCreated, memories, resources, usedCount>>

(* Mutant: a slab allocator that goes away forgets what it pre-fetched.    *)
DiscardPrefetched_Forgotten(t) ==
    /\ (IsAllocating(t) \/ call[t].pc = "drop") /\ HasPrefetch(t)
    /\ \E w \in PrefetchFor(t) :
         /\ call[w].pc = "ready"
         /\ call' = [call EXCEPT ![w] = Idle]
    /\ UNCHANGED <<config, isCreated, memories, resources, usedCount>>

(* Or deallocates it, because the slab needs memory of another size or the *)
(* slab allocator goes away, in the call of the worker.                    *)
DiscardPrefetched(t) ==
    /\ (IsAllocating(t) \/ call[t].pc = "drop") /\ HasPrefetch(t)
    /\ \E w \in PrefetchFor(t) :
         /\ call[w].pc = "ready"
         /\ call' = [call EXCEPT ![w].pc = "deallocate"]
    /\ UNCHANGED <<config, isCreated, memories, resources, usedCount>>

(* The slab allocator may post a task that allocates memory for the next   *)
(* slab; whether it pays off is left open (see SlabMemoryAllocator).       *)
PostPrefetch(t) ==
    /\ call[t].pc = "prefetch"
    /\ LET bound == [call EXCEPT ![t].pc = "bind"]
       IN  \/ call' = bound
           \/ /\ ~HasPrefetch(t)
              /\ \E w \in Workers :
                   /\ call[w] = Idle
                   /\ call' = [bound EXCEPT ![w] =
                                 NewCall("allocate", "none", call[t].request, call[t].type, "sub", "none")]
    /\ UNCHANGED <<config, isCreated, memories, resources, usedCount>>

(* A pre-fetch may find no memory (what comes of it then is modelled in    *)
(* SlabMemoryAllocator).  After the sub chain a client tries the device    *)
(* chain, and if that fails too the resource is destroyed.                 *)
TryAllocateFails(t) ==
    /\ IsAllocating(t)
    /\ call' = [call EXCEPT ![t] =
         IF t \in Workers THEN Idle
         ELSE IF @.chain = "sub" THEN [@ EXCEPT !.chain = "device"] ELSE [@ EXCEPT !.pc = "failed"]]
    /\ UNCHANGED <<config, isCreated, memories, resources, usedCount>>

DestroyFailed(t) ==
    /\ call[t].pc = "failed"
    /\ resources' = [resources EXCEPT ![call[t].resource] = NoResource]
    /\ Return(t)
    /\ UNCHANGED <<config, isCreated, memories, usedCount>>

---------------------------------------------------------------------------
BindMemory(t) ==
    /\ call[t].pc = "bind"
    /\ resources' = [resources EXCEPT ![call[t].resource].state = "bound",
                                      ![call[t].resource].memory = call[t].memory]
    /\ Return(t)
    /\ UNCHANGED <<config, isCreated, memories, usedCount>>

(* The bind fails: the resource is destroyed and the memory deallocated.   *)
BindFails(t) ==
    /\ call[t].pc = "bind"
    /\ resources' = [resources EXCEPT ![call[t].resource] = NoResource]
    /\ call' = [call EXCEPT ![t].pc = "deallocate"]
    /\ UNCHANGED <<config, isCreated, memories, usedCount>>

(* gpDestroyBuffer and gpDestroyImage, of a resource the caller holds.     *)
DestroyResource(t) ==
    /\ call[t] = Idle /\ t \in config.threads /\ isCreated
    /\ \E r \in ResourceIds :
         /\ resources[r].state = "bound"
         /\ resources' = [resources EXCEPT ![r] = NoResource]
         /\ LET m == resources[r].memory
            IN  call' = [call EXCEPT ![t] = NewCall("deallocate", r, resources[r].request,
                                                    memories[m].type, memories[m].chain, m)]
    /\ UNCHANGED <<config, isCreated, memories, usedCount>>

(* Whether the slab allocator of call t is referenced by a block of        *)
(* another, bound or in a call.                                            *)
IsCacheUsed(t) ==
    \E m \in MemoryIds :
      /\ memories[m].chain = "sub" /\ memories[m].type = call[t].type
      /\ memories[m].size = call[t].request.size
      /\ UsersOf(m) # {} \/ HoldersOf(m) \cap (Threads \ {t}) # {}

(* The last block of a slab allocator takes it away, and its pre-fetch.    *)
Deallocated(t) ==
    call' = [call EXCEPT ![t] = IF HasPrefetch(t) /\ ~IsCacheUsed(t) THEN [@ EXCEPT !.pc = "drop"]
                                ELSE Idle]

(* DeallocateMemory of the allocation's chain: the last block returns the  *)
(* memory to the pool, or without one frees it.                            *)
DeallocateMemory(t) ==
    /\ call[t].pc = "deallocate" /\ CanEnter(t)
    /\ LET m == call[t].memory
       IN  IF memories[m].blocks = 1 /\ config.onDemand
           THEN /\ memories' = [memories EXCEPT ![m] = NoMemory]
                /\ call' = [call EXCEPT ![t].pc = "uncount",
                                        ![t].count = usedCount[call[t].type][call[t].chain]]
           ELSE /\ memories' = [memories EXCEPT ![m].blocks = @ - 1]
                /\ Deallocated(t)
    /\ UNCHANGED <<config, isCreated, resources, usedCount>>

UncountMemory(t) ==
    /\ call[t].pc = "uncount"
    /\ usedCount' = [usedCount EXCEPT ![call[t].type][call[t].chain] = call[t].count - 1]
    /\ Deallocated(t)
    /\ UNCHANGED <<config, isCreated, memories, resources>>

(* ~SlabMemoryAllocator has no pre-fetch left to wait for.                 *)
DropSlabAllocator(t) ==
    /\ call[t].pc = "drop" /\ ~HasPrefetch(t)
    /\ Return(t)
    /\ UNCHANGED <<config, isCreated, memories, resources, usedCount>>

(* gpDestroyResourceAllocator, once the caller holds nothing: the pools    *)
(* release what they hold.  A new allocator may take its place.            *)
DestroyResourceAllocator ==
    /\ isCreated
    /\ \A t \in Threads : call[t] = Idle
    /\ \A r \in ResourceIds : resources[r].state # "bound"
    /\ isCreated' = FALSE
    /\ memories' = [m \in MemoryIds |->
                      IF memories[m] # NoMemory /\ memories[m].blocks = 0 THEN NoMemory ELSE memories[m]]
    /\ UNCHANGED <<config, resources, usedCount, call>>

CreateResourceAllocator ==
    /\ ~isCreated
    /\ isCreated' = TRUE
    /\ usedCount' = NewCounts(config)
    /\ UNCHANGED <<config, memories, resources, call>>

---------------------------------------------------------------------------
Continue(t) ==
    \/ GetMemoryRequirements(t) \/ ReuseMemory(t) \/ AllocateMemory(t) \/ CountMemory(t)
    \/ TakePrefetched(t) \/ DiscardPrefetched(t) \/ PostPrefetch(t) \/ TryAllocateFails(t)
    \/ DestroyFailed(t) \/ BindMemory(t) \/ BindFails(t) \/ DeallocateMemory(t)
    \/ UncountMemory(t) \/ DropSlabAllocator(t)

Next ==
    \/ \E t \in Callers : Continue(t)
    \/ \E t \in Threads : CreateResource(t) \/ DestroyResource(t)
    \/ DestroyResourceAllocator \/ CreateResourceAllocator

Spec == Init /\ [][Next]_vars

---------------------------------------------------------------------------
(* Where a call has a resource that is not bound yet, and which call has   *)
(* resource r.                                                             *)
Creating == {"require", "allocate", "count", "prefetch", "failed", "bind"}
CreatorsOf(r) == {t \in Threads : call[t].pc \in Creating /\ call[t].resource = r}

(* The device memories of a DeviceMemoryAllocator.                         *)
Owned(type, chain) == {m \in MemoryIds : memories[m].chain = chain /\ memories[m].type = type}

(* A creation that fails at any step leaves nothing behind, and a          *)
(* destruction nothing either: every resource is bound or in a call, every *)
(* block of memory belongs to a bound resource, a call or a pre-fetch, and *)
(* once the allocator is destroyed there is no memory.                     *)
NothingLeaks ==
    /\ \A r \in ResourceIds : resources[r].state = "created" => CreatorsOf(r) # {}
    /\ \A m \in MemoryIds :
         memories[m] # NoMemory =>
           /\ isCreated
           /\ memories[m].blocks = Cardinality(UsersOf(m)) + Cardinality(HoldersOf(m))

(* A resource is bound only to memory of a type that it accepts and that   *)
(* has the properties the caller requires, whichever chain it came from.   *)
MemoryTypeSuits ==
    \A r \in ResourceIds :
      resources[r].state = "bound" =>
        LET type == memories[resources[r].memory].type
        IN  /\ type \in resources[r].request.memoryTypeBits
            /\ resources[r].request.requiredPropertyFlags \subseteq config.memoryTypes[type]

(* The count that every DeviceMemoryAllocator compares with the device's   *)
(* limit is the number of its device memories, except for one that a call  *)
(* has allocated or freed and not counted yet.                             *)
CountsExact ==
    isCreated =>
      \A type \in MemoryTypeIndices, chain \in DeviceMemoryAllocators :
        \/ \E t \in Callers :
             call[t].pc \in {"count", "uncount"} /\ call[t].type = type /\ call[t].chain = chain
        \/ usedCount[type][chain] = Cardinality(Owned(type, chain))

(* A pool keeps every other thread out of its DeviceMemoryAllocator, the   *)
(* workers included; without pools there may be no other thread.           *)
IsExclusive ==
    config.onDemand => ~config.prefetch /\ \A t, u \in config.threads : t = u

(* With pools the count is exact whatever clients and pre-fetches do at    *)
(* the same time, and without them if there is neither another client nor  *)
(* a pre-fetch.                                                            *)
ProtectedCountsExact == IsExclusive => CountsExact
===========================================================================
