--------------------------- MODULE MCMemoryChain ---------------------------
(* An instance of MemoryChain for TLC: a buddy system of 8 bytes in memory *)
(* of 4, and dedicated memory in segments of 6 and 8 bytes.                *)
EXTENDS MemoryChain

Request(size, alignment, never) == [size |-> size, alignment |-> alignment, never |-> never]

MCRequests ==
    {Request(2, 1, FALSE), Request(3, 2, FALSE), Request(2, 2, TRUE), Request(4, 4, FALSE),
     Request(5, 2, FALSE), Request(8, 2, FALSE), Request(6, 2, TRUE), Request(10, 2, FALSE),
     Request(12, 2, TRUE), Request(15, 2, FALSE)}

FixedAndSegmented == [c \in Chains |-> IF c = "sub" THEN "fixed" ELSE "segmented"]
BothFixed == [c \in Chains |-> "fixed"]
============================================================================
