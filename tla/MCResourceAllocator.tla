------------------------ MODULE MCResourceAllocator ------------------------
(* An instance of ResourceAllocator for TLC.  The requests are buffers that *)
(* ResourcePlan has planned for an allocator that keeps to its budget.     *)
EXTENDS ResourceAllocator, TLC

P == INSTANCE ResourcePlan
       WITH WordBits <- 30, Adapters <- {}, AllocatorDescs <- {}, Resources <- {},
            allocator <- {}, plan <- {}

Adapter == [resourceBits |-> 28, processBits |-> 28, tier |-> 2, options7 |-> TRUE, uma |-> FALSE,
            coherentUMA |-> FALSE, intel |-> FALSE]

Allocator ==
    P!CreateAllocator([device |-> TRUE, residency |-> TRUE, tier |-> 2, flags |-> {"alwaysInBudget"},
                       pool |-> "default", sub |-> "default", preferred |-> 0, maxHeap |-> 0,
                       fragmentation |-> 0, growth |-> 0], Adapter)

Buffer(width, flags, extra) ==
    [dimension |-> "buffer", format |-> "UNKNOWN", width |-> width, height |-> 1, depth |-> 1,
     samples |-> 1, alignment |-> 0, resourceFlags |-> {}, smallAccepted |-> FALSE,
     heapType |-> "upload", state |-> P!GenericRead, flags |-> flags, extra |-> extra,
     padding |-> 0]

(* What a caller asks for: a buffer, and whether it wants it.              *)
Wish(buffer, out) == [buffer |-> buffer, out |-> out]

SubAllocated == Wish(Buffer(65536, {"neverFallback"}, {}), TRUE)
AnyWay == Wish(Buffer(65536, {}, {}), TRUE)
Within == Wish(Buffer(4, {"allowWithin"}, {}), TRUE)
WithinOrSub == Wish(Buffer(4, {"allowWithin", "neverFallback"}, {}), TRUE)
Reused == Wish(Buffer(65536, {"neverAllocate"}, {}), TRUE)
Committed == Wish(Buffer(65536, {}, {"shared"}), TRUE)
NotWanted == Wish(Buffer(65536, {"neverFallback"}, {}), FALSE)
CommittedNotWanted == Wish(Buffer(65536, {}, {"shared"}), FALSE)

(* The request is the plan for the buffer.                                 *)
Request(wish) ==
    LET p == P!Plan(Allocator, wish.buffer)
    IN  [attempts |-> p.attempts, neverAllocate |-> "neverAllocate" \in wish.buffer.flags,
         out |-> wish.out,
         heapSize |-> [attempt \in {"within", "sub", "dedicated", "committed"} |->
                         IF attempt = "sub" THEN 2 * p.info.size ELSE p.info.size]]

Config(debug, lockFails, threads, wishes, imports, releases) ==
    [debug |-> debug, residency |-> TRUE, onDemand |-> FALSE, lockFails |-> lockFails,
     nameFails |-> FALSE, threads |-> threads, requests |-> wishes, imports |-> imports,
     releases |-> releases]

Planned(configs) == {[cfg EXCEPT !.requests = {Request(wish) : wish \in @}] : cfg \in configs}

MCChainOrder == <<"within", "dedicated", "sub">>

(* Two threads that race without the debug allocator; one thread that does *)
(* everything, a failing lock included, and one whose resources cannot be  *)
(* named, none of them committed; two threads with the debug allocator.    *)
MCConfigs ==
    Planned(
      {Config(FALSE, FALSE, Threads, {AnyWay, Committed}, {}, {1}),
       Config(TRUE, TRUE, {"t1"}, {AnyWay, Within, Reused, NotWanted}, {65536}, {1, 1000000}),
       [Config(TRUE, TRUE, {"t1"}, {SubAllocated, WithinOrSub, NotWanted}, {}, {1})
           EXCEPT !.nameFails = TRUE],
       [Config(TRUE, FALSE, Threads, {SubAllocated}, {}, {})
           EXCEPT !.onDemand = TRUE, !.nameFails = TRUE]})

LockFails == Planned({Config(FALSE, TRUE, Threads, {SubAllocated}, {}, {})})
LockOrder == Planned({Config(TRUE, FALSE, Threads, {Committed}, {}, {})})
SelfDeadlocks ==
    Planned({Config(FALSE, FALSE, {"t1"}, {CommittedNotWanted}, {}, {}),
             [Config(TRUE, FALSE, {"t1"}, {AnyWay}, {}, {}) EXCEPT !.nameFails = TRUE]})
===========================================================================
