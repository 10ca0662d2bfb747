----------------------- MODULE MCResourceAllocatorVk -----------------------
(* An instance of ResourceAllocatorVk for TLC: a device with local memory, *)
(* and two types of host-visible memory.                                   *)
EXTENDS ResourceAllocatorVk

MemoryTypes == <<{"deviceLocal"}, {"hostVisible"}, {"hostVisible", "hostCached"}>>

Request(memoryTypeBits, requiredPropertyFlags, size, flags) ==
    [memoryTypeBits |-> memoryTypeBits, requiredPropertyFlags |-> requiredPropertyFlags,
     size |-> size, neverAllocate |-> "neverAllocate" \in flags,
     neverSubAllocate |-> "neverSubAllocate" \in flags]

AnyMemory == Request({1, 2, 3}, {}, 4, {})
HostVisible == Request({1, 2}, {"hostVisible"}, 4, {})
Larger == Request({1, 2}, {"hostVisible"}, 8, {})
Standalone == Request({1}, {"deviceLocal"}, 4, {"neverSubAllocate"})
Reused == Request({1, 2, 3}, {}, 4, {"neverAllocate"})
Unsuitable == Request({1}, {"hostVisible"}, 4, {})
Empty == Request({1}, {}, 0, {})

Config(onDemand, prefetch, threads, requests) ==
    [memoryTypes |-> MemoryTypes, onDemand |-> onDemand, prefetch |-> prefetch, maxCount |-> 3,
     threads |-> threads, requests |-> requests]

(* Two threads and pre-fetches with pools; one thread that asks for        *)
(* everything without them, and one whose slabs are pre-fetched.           *)
MCConfigs ==
    {Config(FALSE, TRUE, Threads, {HostVisible}),
     Config(FALSE, FALSE, Threads, {HostVisible, Standalone}),
     Config(TRUE, FALSE, {"t1"}, {AnyMemory, HostVisible, Standalone, Reused, Unsuitable}),
     Config(TRUE, TRUE, {"t1"}, {HostVisible, Larger})}

(* A count that races drifts without end: the run follows it to -1.        *)
CountsBounded ==
    \A type \in MemoryTypeIndices, chain \in DeviceMemoryAllocators : usedCount[type][chain] >= -1

Unprotected == {Config(TRUE, FALSE, Threads, {Standalone})}
UnprotectedPrefetch == {Config(TRUE, TRUE, {"t1"}, {HostVisible})}
Races == Unprotected \cup UnprotectedPrefetch
EmptyResources == {Config(FALSE, FALSE, {"t1"}, {Empty})}
===========================================================================
