-------------------------- MODULE MCResourcePlan --------------------------
(* An instance of ResourcePlan for TLC: adapters and allocators of every   *)
(* kind, buffers around the alignments, and textures around 64KB.          *)
EXTENDS ResourcePlan

Adapter(bits, tier, options7, uma, coherentUMA) ==
    [resourceBits |-> bits, processBits |-> bits, tier |-> tier, options7 |-> options7,
     uma |-> uma, coherentUMA |-> coherentUMA, intel |-> uma]

Discrete == {Adapter(26, 2, TRUE, FALSE, FALSE), Adapter(28, 1, FALSE, FALSE, FALSE),
             Adapter(28, 2, TRUE, TRUE, FALSE), Adapter(0, 2, TRUE, FALSE, FALSE),
             Adapter(31, 2, TRUE, FALSE, FALSE)}
CoherentUMA == {Adapter(28, 2, TRUE, TRUE, TRUE)}
AnyAdapter == Discrete \cup CoherentUMA

Desc(residency, tier, flags, pool, sub, preferred) ==
    [device |-> TRUE, residency |-> residency, tier |-> tier, flags |-> flags, pool |-> pool,
     sub |-> sub, preferred |-> preferred, maxHeap |-> 0, fragmentation |-> 0, growth |-> 0]

MCAllocatorDescs ==
    {Desc(TRUE, 2, {}, "default", "default", 0),
     Desc(TRUE, 1, {}, "fixed", "slab", 100000),
     Desc(FALSE, 1, {"alwaysInBudget"}, "segmented", "buddy", 100000),
     Desc(TRUE, 2, {"alwaysOnDemand", "disableCustomHeaps"}, "segmented", "slab", 0),
     Desc(TRUE, 2, {"alwaysCommitted"}, "segmented", "dedicated", 0),
     [Desc(TRUE, 2, {}, "default", "default", 100000) EXCEPT !.maxHeap = 65536],
     [Desc(TRUE, 2, {}, "default", "default", 0) EXCEPT !.device = FALSE]}

Buffer(width, flags, heapType, state) ==
    [dimension |-> "buffer", format |-> "UNKNOWN", width |-> width, height |-> 1, depth |-> 1,
     samples |-> 1, alignment |-> 0, resourceFlags |-> {}, smallAccepted |-> FALSE,
     heapType |-> heapType, state |-> state, flags |-> flags, extra |-> {}, padding |-> 0]

Buffers ==
    {Buffer(width, flags, heapType, state) :
        width \in {0, 4, 65535, 65536, 100000}, flags \in {{}, {"allowWithin"}},
        heapType \in {"none", "default", "upload", "readback"},
        state \in {Common, GenericRead, CopyDest}}
    \cup {[Buffer(4, flags, "upload", GenericRead) EXCEPT !.extra = extra, !.padding = padding] :
            flags \in {{"allowWithin", "neverSubAllocate"}, {"neverAllocate"}, {"neverFallback"}},
            extra \in {{}, {"shared"}}, padding \in {0, 8}}

Texture(dimension, format, width, height, depth, samples, resourceFlags) ==
    [dimension |-> dimension, format |-> format, width |-> width, height |-> height,
     depth |-> depth, samples |-> samples, alignment |-> 0, resourceFlags |-> resourceFlags,
     smallAccepted |-> TRUE, heapType |-> "default", state |-> Common, flags |-> {},
     extra |-> {}, padding |-> 0]

Textures ==
    {Texture("1D", format, width, 1, depth, 1, {}) :
        format \in DOMAIN GetTextureBitsPerUnit, width \in {1, 4096, 4097, 32768}, depth \in {1, 16}}
    \cup {Texture("2D", format, width, height, 1, samples, resourceFlags) :
        format \in {"R8", "R16", "R8G8B8A8", "R16G16B16A16", "R32G32B32A32", "R32G32B32", "BC1", "NV12"},
        width \in {64, 128, 129}, height \in {1, 128, 129}, samples \in {1, 2, 4, 8, 16, 3},
        resourceFlags \in {{}, {"renderTarget"}}}
    \cup {Texture("3D", format, width, 32, depth, 1, {}) :
        format \in {"R8", "R16", "R8G8B8A8", "R16G16B16A16", "R32G32B32A32", "BC7", "R1"},
        width \in {32, 33, 64}, depth \in {8, 16, 17, 32}}
    \cup {[Texture("2D", "R8", 128, 128, 1, 1, {}) EXCEPT !.smallAccepted = FALSE],
          [Texture("2D", "R8", 128, 128, 1, 1, {}) EXCEPT !.dimension = "unknown"]}

MCResources == Buffers \cup Textures
===========================================================================
