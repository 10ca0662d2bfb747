--------------------------- MODULE ResourcePlan ---------------------------
(***************************************************************************)
(* What the D3D12 ResourceAllocator decides before it allocates.           *)
(*                                                                         *)
(* CreateResourceAllocator reads the adapter's capabilities (Caps) and     *)
(* normalises the allocator's descriptor; the first half of                *)
(* CreateResourceInternal chooses for a resource its size and alignment,   *)
(* the resource heap type, the heap flags, and which allocators it tries   *)
(* in which order.  The second half, which carries the plan out, is in     *)
(* ResourceAllocator.                                                      *)
(*                                                                         *)
(* Flags are sets of names.  A DXGI format is the family of formats that   *)
(* GetTextureBitsPerUnit lists together.                                   *)
(***************************************************************************)
EXTENDS Integers, Sequences, SequencesExt, FiniteSets

CONSTANTS
    WordBits,          \* GetNumOfBits<uint64_t>()
    Adapters,          \* [resourceBits, processBits, tier, options7, uma,
                       \*  coherentUMA, intel]: what the device reports
    AllocatorDescs,    \* ALLOCATOR_DESC, see AllocatorDesc below
    Resources          \* what CreateResource is called with, see Resource

VARIABLES
    allocator,         \* the allocator created, or why none was
    plan               \* its plan for the last resource

vars == <<allocator, plan>>

SmallAlignment == 4096
DefaultAlignment == 65536
MSAAAlignment == 4194304

(* kInvalidSize, more than any adapter's largest resource.                 *)
kInvalidSize == 2^WordBits

AlignUp(n, alignment) == ((n + alignment - 1) \div alignment) * alignment

---------------------------------------------------------------------------
(* Textures with small alignment.                                          *)
GetTextureBitsPerUnit ==
    [R32G32B32A32 |-> 128, R32G32B32 |-> 96, R16G16B16A16 |-> 64, R32G32 |-> 64,
     D32S8X24 |-> 64, R10G10B10A2 |-> 32, R8G8B8A8 |-> 32, R16G16 |-> 32, R32 |-> 32,
     D24S8 |-> 32, R8G8 |-> 16, R16 |-> 16, R8 |-> 8, A8 |-> 8, R1 |-> 1,
     R9G9B9E5 |-> 32, BC1 |-> 4, BC2 |-> 8, BC3 |-> 8, BC4 |-> 4, BC5 |-> 8, B5G6R5 |-> 16,
     B8G8R8A8 |-> 32, BC6H |-> 8, BC7 |-> 8, NV12 |-> 12, UNKNOWN |-> 0]

IsMultiPlanarFormat(format) == format \in {"D32S8X24", "D24S8", "NV12"}

IsBlockCompressionFormat(format) ==
    format \in {"BC1", "BC2", "BC3", "BC4", "BC5", "BC6H", "BC7"}

ZeroTile == <<0, 0, 0>>

(* The 2D tile of one sample, and what a sample count divides it by.       *)
Tile2D == [bits \in {8, 16, 32, 64, 128} |->
             CASE bits = 8 -> <<64, 64>> [] bits = 16 -> <<64, 32>> [] bits = 32 -> <<32, 32>>
               [] bits = 64 -> <<32, 16>> [] bits = 128 -> <<16, 16>>]

SampleGrid == [samples \in {1, 2, 4, 8, 16} |->
                 CASE samples = 1 -> <<1, 1>> [] samples = 2 -> <<2, 1>> [] samples = 4 -> <<2, 2>>
                   [] samples = 8 -> <<4, 2>> [] samples = 16 -> <<4, 4>>]

Tile3D == [bits \in {8, 16, 32, 64, 128} |->
             CASE bits = 8 -> <<16, 16, 16>> [] bits = 16 -> <<16, 16, 8>>
               [] bits = 32 -> <<16, 8, 8>> [] bits = 64 -> <<8, 8, 8>>
               [] bits = 128 -> <<8, 8, 4>>]

(* The 4KB tile of a texture, as <<width, height, depth>> in texels.       *)
GetSmallTextureTile(format, dimension, samples) ==
    LET bits == GetTextureBitsPerUnit[format]
    IN  CASE bits = 0 -> ZeroTile
          [] bits # 0 /\ dimension = "1D" -> <<(SmallAlignment * 8) \div bits, 1, 1>>
          [] bits # 0 /\ dimension = "2D" ->
               IF \/ IsBlockCompressionFormat(format)
                  \/ bits \notin DOMAIN Tile2D \/ samples \notin DOMAIN SampleGrid
               THEN ZeroTile
               ELSE <<Tile2D[bits][1] \div SampleGrid[samples][1],
                      Tile2D[bits][2] \div SampleGrid[samples][2], 1>>
          [] bits # 0 /\ dimension = "3D" ->
               IF bits \in DOMAIN Tile3D THEN Tile3D[bits] ELSE ZeroTile
          [] OTHER -> ZeroTile

GetTileCount(resource, tile) ==
    (AlignUp(resource.width, tile[1]) \div tile[1])
    * (AlignUp(resource.height, tile[2]) \div tile[2])
    * (AlignUp(resource.depth, tile[3]) \div tile[3])

(* Mutant: one row of tiles too many.                                      *)
IsAllowedToUseSmallAlignment_More(resource) ==
    LET tile == GetSmallTextureTile(resource.format, resource.dimension, resource.samples)
    IN  /\ ~IsMultiPlanarFormat(resource.format)
        /\ tile # ZeroTile
        /\ GetTileCount(resource, tile) <= 17

IsAllowedToUseSmallAlignment(resource) ==
    LET tile == GetSmallTextureTile(resource.format, resource.dimension, resource.samples)
    IN  /\ ~IsMultiPlanarFormat(resource.format)
        /\ tile # ZeroTile
        /\ GetTileCount(resource, tile) <= 16

---------------------------------------------------------------------------
(* Resource sizes.  A buffer's size is its width; a texture's is external, *)
(* the device's: here its texels, each of a unit's bits.                   *)
IsTexture(resource) == resource.dimension \in {"1D", "2D", "3D"}

RawSize(resource) ==
    IF resource.dimension = "buffer" THEN resource.width
    ELSE (resource.width * resource.height * resource.depth * resource.samples
            * GetTextureBitsPerUnit[resource.format] + 7) \div 8

DeviceAlignment(resource, asked) ==
    LET default == IF resource.samples > 1 THEN MSAAAlignment ELSE DefaultAlignment
        small == IF resource.samples > 1 THEN DefaultAlignment ELSE SmallAlignment
    IN  IF /\ asked = small /\ resource.smallAccepted /\ IsTexture(resource)
           /\ RawSize(resource) <= default
        THEN small ELSE default

(* GetResourceAllocationInfo: small alignment is asked for where it is     *)
(* allowed, and if the device answers with another one it is asked again   *)
(* without.  No size is an invalid size.                                   *)
GetResourceAllocationInfo(resource) ==
    LET asked == IF /\ IsTexture(resource)
                    /\ IsAllowedToUseSmallAlignment(resource)
                    /\ resource.resourceFlags \cap {"renderTarget", "depthStencil"} = {}
                 THEN (IF resource.samples > 1 THEN DefaultAlignment ELSE SmallAlignment)
                 ELSE resource.alignment
        answer == DeviceAlignment(resource, asked)
        alignment == IF asked # 0 /\ asked # answer THEN DeviceAlignment(resource, 0) ELSE answer
    IN  [alignment |-> alignment,
         size |-> IF RawSize(resource) = 0 THEN kInvalidSize
                  ELSE AlignUp(RawSize(resource), alignment)]

---------------------------------------------------------------------------
(* Resource heap types: RESOURCE_HEAP_TYPE is a heap type with what the    *)
(* heap may hold.                                                          *)
HeapTypes == {"default", "upload", "readback"}

ResourceHeapType(heap, allow) == [heap |-> heap, allow |-> allow]

Invalid == ResourceHeapType("invalid", "none")

ResourceHeapTypes ==
    {ResourceHeapType(heap, allow) : heap \in HeapTypes,
                                     allow \in {"all", "buffers", "nonRtDs", "rtDs"}}

GetHeapType(type) == type.heap

GetHeapFlags(type, createNotResident) ==
    (IF createNotResident THEN {"createNotResident"} ELSE {})
    \cup CASE type.allow = "all" -> {}
           [] type.allow = "buffers" -> {"denyRtDs", "denyNonRtDs"}
           [] type.allow = "nonRtDs" -> {"denyBuffers", "denyRtDs"}
           [] type.allow = "rtDs" -> {"denyBuffers", "denyNonRtDs"}
           [] OTHER -> {}

(* Mutant: MSAA heaps are aligned like others.                             *)
GetHeapAlignment_NoMSAA(heapFlags, allowMSAA) == DefaultAlignment

GetHeapAlignment(heapFlags, allowMSAA) ==
    IF {"denyRtDs", "denyNonRtDs"} \subseteq heapFlags THEN DefaultAlignment
    ELSE IF allowMSAA THEN MSAAAlignment
    ELSE DefaultAlignment

GetResourceHeapType(resource, heapType, tier) ==
    CASE heapType \notin HeapTypes -> Invalid
      [] heapType \in HeapTypes /\ tier >= 2 -> ResourceHeapType(heapType, "all")
      [] heapType \in HeapTypes /\ tier < 2 /\ resource.dimension = "buffer" ->
           ResourceHeapType(heapType, "buffers")
      [] heapType \in HeapTypes /\ tier < 2 /\ IsTexture(resource) ->
           ResourceHeapType(heapType,
             IF resource.resourceFlags \cap {"renderTarget", "depthStencil"} # {}
             THEN "rtDs" ELSE "nonRtDs")
      [] OTHER -> Invalid

(* Resource states, as sets of D3D12_RESOURCE_STATE flags.                 *)
Common == {}
GenericRead == {"vertexAndConstant", "index", "shaderResource", "indirect", "copySource"}
CopyDest == {"copyDest"}

GetInitialResourceState(heapType) ==
    CASE heapType = "default" -> Common
      [] heapType = "upload" -> GenericRead
      [] heapType = "readback" -> CopyDest

(* GetHeapType(initialResourceState), with HasAllFlags as inclusion.       *)
InferHeapType(state) ==
    IF state \subseteq GetInitialResourceState("upload") THEN "upload"
    ELSE IF state \subseteq GetInitialResourceState("readback") THEN "readback"
    ELSE "default"

(* GetHeapProperties and GetMemoryPool: the pool of a heap type, which the *)
(* device's custom heap properties give too; and the pool's segment.       *)
GetMemoryPool(heapType, isUMA) == IF ~isUMA /\ heapType = "default" THEN "L1" ELSE "L0"

GetMemorySegmentGroup(pool, isUMA) == IF isUMA \/ pool = "L1" THEN "local" ELSE "nonLocal"

---------------------------------------------------------------------------
(* Caps::CreateCaps.                                                       *)
SetMaxSize(bits) == 2^(bits - 1) - 1

CreateCaps(adapter) ==
    IF {adapter.resourceBits, adapter.processBits} \subseteq 1..WordBits
    THEN [ok |-> TRUE, maxResourceSize |-> SetMaxSize(adapter.resourceBits),
          maxResourceHeapSize |-> SetMaxSize(adapter.processBits), tier |-> adapter.tier,
          createNotResident |-> adapter.options7, uma |-> adapter.uma,
          coherentUMA |-> adapter.coherentUMA, withinCoherent |-> adapter.intel]
    ELSE [ok |-> FALSE]

(* The size of a chain's heaps.                                            *)
HeapSize(preferred, alignment) ==
    LET aligned == AlignUp(preferred, alignment)
    IN  IF aligned > alignment THEN aligned ELSE alignment

(* GetMemorySize of a chain whose pool holds memory of poolSize.           *)
GetMemorySize(desc, alignment, poolSize) ==
    CASE desc.sub = "buddy" ->
           LET size == HeapSize(desc.preferred, alignment)
           IN  CHOOSE n \in {2^k : k \in 0..WordBits} : n >= size /\ n \div 2 < size
      [] desc.sub = "slab" /\ desc.pool = "fixed" /\ "alwaysOnDemand" \notin desc.flags -> poolSize
      [] OTHER -> SetMaxSize(WordBits)

(* ResourceSize::GenerateAllClassSizes: i alignments for i from 1 to 15.   *)
(* The power-of-two sizes are paired with their exponent as alignment,     *)
(* which is no allocator's, so they are never used.                        *)
GenerateAlignedSizes(n, alignment) == {i * alignment : i \in 1..(n - 1)}

(* The sizes the constructor makes the small-buffer, the general and the   *)
(* MSAA allocator cache.                                                   *)
CachedSizes(desc) ==
    [small |-> {n \in GenerateAlignedSizes(16, SmallAlignment) :
                  n <= GetMemorySize(desc, DefaultAlignment, DefaultAlignment)},
     general |-> {n \in GenerateAlignedSizes(16, DefaultAlignment) :
                  n <= GetMemorySize(desc, DefaultAlignment, HeapSize(desc.preferred, DefaultAlignment))},
     msaa |-> {n \in GenerateAlignedSizes(16, MSAAAlignment) :
                  n <= GetMemorySize(desc, MSAAAlignment, HeapSize(desc.preferred, MSAAAlignment))}]

(* ALLOCATOR_DESC: zero and "default" stand for what is not specified;     *)
(* limits and factors are in percent.                                      *)
AllocatorFlags == {"alwaysCommitted", "alwaysInBudget", "alwaysOnDemand", "disablePrefetch",
                   "disableCustomHeaps", "neverLeak"}

SubAllocationAlgorithms == {"default", "slab", "buddy", "dedicated"}
PoolAlgorithms == {"default", "fixed", "segmented"}

AllocatorDesc ==
    [device : BOOLEAN, residency : BOOLEAN, tier : {1, 2}, flags : SUBSET AllocatorFlags,
     pool : PoolAlgorithms, sub : SubAllocationAlgorithms,
     preferred : Nat, maxHeap : Nat, fragmentation : Nat, growth : Nat]

Rejected(reason) == [created |-> FALSE, reason |-> reason]

(* CreateResourceAllocator and the constructor.                            *)
Normalised(desc, caps) ==
    [created |-> TRUE, caps |-> caps, tier |-> desc.tier, residency |-> desc.residency,
     flags |-> desc.flags \cup
                 (IF caps.createNotResident THEN {} ELSE {"alwaysInBudget"}),
     pool |-> IF desc.pool = "default" THEN "segmented" ELSE desc.pool,
     sub |-> IF desc.sub = "default" THEN "slab" ELSE desc.sub,
     preferred |-> IF desc.preferred = 0 THEN 1 ELSE desc.preferred,
     maxHeap |-> IF desc.maxHeap > 0 /\ desc.maxHeap < caps.maxResourceHeapSize
                 THEN desc.maxHeap ELSE caps.maxResourceHeapSize,
     fragmentation |-> IF desc.fragmentation > 0 THEN desc.fragmentation ELSE 12,
     growth |-> IF desc.growth >= 100 THEN desc.growth ELSE 125]

Constructed(desc) == desc @@ [cached |-> CachedSizes(desc)]

CreateAllocator(desc, adapter) ==
    LET caps == CreateCaps(adapter)
        new == Normalised(desc, caps)
    IN  IF ~desc.device THEN Rejected("E_INVALIDARG")
        ELSE IF ~caps.ok THEN Rejected("E_FAIL")
        ELSE IF desc.tier > caps.tier THEN Rejected("E_FAIL")
        ELSE IF new.preferred > new.maxHeap THEN Rejected("E_INVALIDARG")
        ELSE Constructed(new)

IsCreateHeapNotResident(a) == a.residency /\ "alwaysInBudget" \notin a.flags

---------------------------------------------------------------------------
(* What CreateResource is called with: the resource's descriptor and the   *)
(* ALLOCATION_DESC.                                                        *)
AllocationFlags == {"neverAllocate", "allowWithin", "neverSubAllocate", "prefetch", "cacheSize",
                    "alwaysAttribute", "neverFallback"}

Resource ==
    [dimension : {"buffer", "1D", "2D", "3D", "unknown"}, format : DOMAIN GetTextureBitsPerUnit,
     width : Nat, height : Nat, depth : Nat, samples : Nat, alignment : Nat,
     resourceFlags : SUBSET {"renderTarget", "depthStencil", "unorderedAccess"},
     smallAccepted : BOOLEAN,
     heapType : HeapTypes \cup {"none", "custom"}, state : SUBSET (GenericRead \cup CopyDest),
     flags : SUBSET AllocationFlags,
     extra : SUBSET {"shared", "denyBuffers", "createNotResident"}, padding : Nat]

ASSUME ResourcePlanAssumption ==
    /\ WordBits \in Nat
    /\ AllocatorDescs \subseteq AllocatorDesc
    /\ Resources \subseteq Resource

(* The heap type before and after its attribution is abandoned for an      *)
(* adapter with cache-coherent unified memory.                             *)
OriginalHeapType(r) == IF r.heapType \in {"none", "custom"} THEN InferHeapType(r.state) ELSE r.heapType

FinalHeapType(a, r) ==
    IF /\ "alwaysAttribute" \notin r.flags /\ a.caps.coherentUMA
       /\ "disableCustomHeaps" \notin a.flags /\ r.heapType # "readback"
    THEN "upload" ELSE OriginalHeapType(r)

IsCreatedResourceStateRequired(r) ==
    /\ OriginalHeapType(r) # "default"
    /\ GetInitialResourceState(OriginalHeapType(r)) = r.state

NeverSubAllocate(r) == "neverSubAllocate" \in r.flags \/ r.padding > 0

(* Sub-allocation within a buffer is tried for a small buffer that may     *)
(* share its state.                                                        *)
TriesWithin(r, info) ==
    /\ "allowWithin" \in r.flags
    /\ info.alignment > r.width /\ r.dimension = "buffer" /\ r.resourceFlags = {}
    /\ IsCreatedResourceStateRequired(r)
    /\ ~NeverSubAllocate(r)

(* The alignment within the buffer.                                        *)
WithinAlignment(r) ==
    IF r.alignment # 0 THEN r.alignment
    ELSE IF r.state = GenericRead THEN 256
    ELSE CHOOSE n \in {2^k : k \in 0..16} : n >= r.width /\ (n = 1 \/ n \div 2 < r.width)

(* The attempts of CreateResourceInternal in their order.                  *)
Attempts(r, info, isAlwaysCommitted) ==
    SelectSeq(<<"within", "sub", "dedicated", "committed">>,
              LAMBDA attempt :
                CASE attempt = "within" -> TriesWithin(r, info)
                  [] attempt = "sub" -> ~isAlwaysCommitted /\ ~NeverSubAllocate(r)
                  [] attempt = "dedicated" -> ~isAlwaysCommitted
                  [] attempt = "committed" ->
                       /\ "neverAllocate" \notin r.flags /\ r.padding = 0
                       /\ isAlwaysCommitted \/ "neverFallback" \notin r.flags)

(* The first half of CreateResourceInternal.                               *)
Plan(a, r) ==
    LET info == GetResourceAllocationInfo(r)
        heapType == FinalHeapType(a, r)
        type == GetResourceHeapType(r, heapType, a.tier)
        flags == GetHeapFlags(type, IsCreateHeapNotResident(a))
        incompatible == ~(r.extra \subseteq flags)
        isAlwaysCommitted == "alwaysCommitted" \in a.flags \/ incompatible
    IN  IF info.size > a.caps.maxResourceSize THEN Rejected("E_OUTOFMEMORY")
        ELSE IF type = Invalid THEN Rejected("E_INVALIDARG")
        ELSE [created |-> TRUE, resource |-> r, info |-> info, type |-> type,
              heapFlags |-> flags \cup r.extra, msaa |-> r.samples > 1,
              segment |-> GetMemorySegmentGroup(GetMemoryPool(heapType, a.caps.uma), a.caps.uma),
              size |-> (IF r.dimension = "buffer" THEN r.width ELSE info.size) + r.padding,
              attempts |-> Attempts(r, info, isAlwaysCommitted)]

(* The heap alignment of the chain an attempt uses.  Without a pool the    *)
(* dedicated chain has none of its own.                                    *)
ChainAlignment(a, p, attempt) ==
    IF attempt = "dedicated" /\ "alwaysOnDemand" \in a.flags THEN 1
    ELSE GetHeapAlignment(GetHeapFlags(p.type, IsCreateHeapNotResident(a)),
                          p.msaa /\ attempt # "within")

---------------------------------------------------------------------------
NoPlan == [created |-> FALSE, reason |-> "none"]

Init == allocator = NoPlan /\ plan = NoPlan

CreateResourceAllocator ==
    /\ \E desc \in AllocatorDescs, adapter \in Adapters :
          allocator' = CreateAllocator(desc, adapter)
    /\ plan' = NoPlan

(* The plan depends on the allocator and the resource alone, so one        *)
(* resource is planned with each allocator.                                *)
PlanResource ==
    /\ allocator.created
    /\ plan = NoPlan
    /\ \E resource \in Resources : plan' = Plan(allocator, resource)
    /\ UNCHANGED allocator

Next == CreateResourceAllocator \/ PlanResource

Spec == Init /\ [][Next]_vars

---------------------------------------------------------------------------
(* The flag with which a heap denies a resource (D3D12).                   *)
DenyFlag(r) ==
    IF r.dimension = "buffer" THEN "denyBuffers"
    ELSE IF r.resourceFlags \cap {"renderTarget", "depthStencil"} # {} THEN "denyRtDs"
    ELSE "denyNonRtDs"

(* A resource is only ever placed in a heap that allows it and that has    *)
(* all the flags the client requires: wherever the plan places it in a     *)
(* resource heap, the heap denies no resource of that kind.                *)
PlacedWhereAllowed ==
    plan.created /\ {"sub", "dedicated"} \cap ToSet(plan.attempts) # {} =>
      LET flags == GetHeapFlags(plan.type, IsCreateHeapNotResident(allocator))
      IN  DenyFlag(plan.resource) \notin flags /\ plan.resource.extra \subseteq flags

(* A block of a heap can be aligned as the resource needs: the heap's      *)
(* alignment, decided from the heap flags and the sample count alone, is a *)
(* multiple of the alignment that the device wants for the resource.       *)
HeapAlignmentSuits ==
    plan.created /\ "sub" \in ToSet(plan.attempts) =>
      ChainAlignment(allocator, plan, "sub") % plan.info.alignment = 0

(* The heap a resource is placed in suits the resource, in what it allows  *)
(* and in how it is aligned.                                               *)
HeapSuitsResource == PlacedWhereAllowed /\ HeapAlignmentSuits

(* A texture is given small alignment only if it fits under the larger     *)
(* one: 16 tiles of 4KB never hold more than 64KB of texels.               *)
SmallAlignmentFits ==
    plan.created /\ IsTexture(plan.resource) /\ IsAllowedToUseSmallAlignment(plan.resource) =>
      RawSize(plan.resource) <= DefaultAlignment

(* "Since the resource can only be in one state at a time": a buffer that  *)
(* is sub-allocated within another has the state the client asked for,     *)
(* which is the one the shared buffer was created in.                      *)
WithinSharesState ==
    plan.created /\ "within" \in ToSet(plan.attempts) =>
      GetInitialResourceState(GetHeapType(plan.type)) = plan.resource.state
===========================================================================
