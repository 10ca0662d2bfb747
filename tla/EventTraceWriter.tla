-------------------------- MODULE EventTraceWriter --------------------------
(***************************************************************************)
(* The writer of the event trace (EventTraceWriter.cpp, TraceEvent.cpp):   *)
(* every thread queues its events in a buffer of its own in thread-local   *)
(* storage, a flush by any thread merges the buffers and overwrites the    *)
(* trace file, and a thread that ends leaves its events to the writer.     *)
(*                                                                         *)
(* Each buffer has a mutex, so adding to it and taking it are single       *)
(* steps; the writer's mMutex is held over a whole flush.  A thread stands *)
(* for its std::thread::id, which a later thread may be given again.  An   *)
(* event is its thread, its number and its phase; how it is formatted is   *)
(* left out.                                                               *)
(***************************************************************************)
EXTENDS Naturals, Sequences

CONSTANTS
    Threads,     \* std::thread::ids
    Phases,      \* kinds of events a TraceEventPhase mask can ignore
    MaxEvents    \* bound: events of each thread id

ASSUME EventTraceAssumption == MaxEvents \in Nat /\ "destructor" \notin Threads

VARIABLES
    writer,           \* gEventTrace: "null", "enabled", "released" or "destroyed"
    mIgnoreMask,      \* phases left out of the file
    mBufferPerThread, \* [Threads -> <<buffer>>, or <<>> without one in TLS]
    mUnmergedBuffer,  \* events of threads that ended
    adding,           \* threads inside EnqueueTraceEvent that have their buffer
    flush,            \* <<the flush that holds mMutex>>, or <<>>
    file,             \* contents of the trace file
    enqueued,         \* history: the events each thread id queued
    written           \* history: the events of every file written

traceVars == <<writer, mIgnoreMask, mBufferPerThread, mUnmergedBuffer, adding, flush, file,
          enqueued, written>>

Event == [thread : Threads, number : 1..MaxEvents, phase : Phases]

TraceTypeOK ==
    /\ writer \in {"null", "enabled", "released", "destroyed"}
    /\ mIgnoreMask \subseteq Phases /\ adding \subseteq Threads
    /\ \A t \in Threads : mBufferPerThread[t] = <<>> \/ mBufferPerThread[t][1] \in Seq(Event)
    /\ {mUnmergedBuffer, file, written} \subseteq Seq(Event)
    /\ \/ flush = <<>>
       \/ flush[1] \in [by : Threads \cup {"destructor"}, todo : SUBSET Threads, merged : Seq(Event)]
    /\ enqueued \in [Threads -> Seq(Event)]

TraceInit ==
    /\ writer = "null" /\ mIgnoreMask = {}
    /\ mBufferPerThread = [t \in Threads |-> <<>>]
    /\ mUnmergedBuffer = <<>> /\ adding = {} /\ flush = <<>> /\ file = <<>>
    /\ enqueued = [t \in Threads |-> <<>>] /\ written = <<>>

HasBuffer(t) == mBufferPerThread[t] # <<>>
MutexIsFree == flush = <<>>
IsFlushing(t) == flush # <<>> /\ flush[1].by = t

-----------------------------------------------------------------------------
StartupEventTrace(ignoreMask) ==
    /\ writer = "null"
    /\ writer' = "enabled" /\ mIgnoreMask' = ignoreMask
    /\ UNCHANGED <<mBufferPerThread, mUnmergedBuffer, adding, flush, file, enqueued, written>>

(* AddTraceEvent, when tracing is enabled.  The first event of a thread    *)
(* registers its buffer, with mMutex.                                      *)
GetOrCreateBufferFromTLS(t) ==
    /\ writer = "enabled" /\ t \notin adding /\ ~IsFlushing(t)
    /\ Len(enqueued[t]) < MaxEvents
    /\ \/ HasBuffer(t) /\ UNCHANGED mBufferPerThread
       \/ /\ ~HasBuffer(t) /\ MutexIsFree
          /\ mBufferPerThread' = [mBufferPerThread EXCEPT ![t] = << <<>> >>]
    /\ adding' = adding \cup {t}
    /\ UNCHANGED <<writer, mIgnoreMask, mUnmergedBuffer, flush, file, enqueued, written>>

AddEvent(t, phase) ==
    /\ t \in adding
    /\ LET event == [thread |-> t, number |-> Len(enqueued[t]) + 1, phase |-> phase]
       IN /\ mBufferPerThread' = [mBufferPerThread EXCEPT ![t][1] = Append(@, event)]
          /\ enqueued' = [enqueued EXCEPT ![t] = Append(@, event)]
    /\ adding' = adding \ {t}
    /\ UNCHANGED <<writer, mIgnoreMask, mUnmergedBuffer, flush, file, written>>

(* Mutant: the events of the last threads to end go before the others.     *)
FlushAndRemoveBufferEntry_Prepends(t) ==
    /\ HasBuffer(t) /\ t \notin adding /\ MutexIsFree
    /\ mUnmergedBuffer' = mBufferPerThread[t][1] \o mUnmergedBuffer
    /\ mBufferPerThread' = [mBufferPerThread EXCEPT ![t] = <<>>]
    /\ UNCHANGED <<writer, mIgnoreMask, adding, flush, file, enqueued, written>>

(* ~ScopedTraceBufferInTLS, when the thread ends.                          *)
FlushAndRemoveBufferEntry(t) ==
    /\ HasBuffer(t) /\ t \notin adding /\ MutexIsFree
    /\ mUnmergedBuffer' = mUnmergedBuffer \o mBufferPerThread[t][1]
    /\ mBufferPerThread' = [mBufferPerThread EXCEPT ![t] = <<>>]
    /\ UNCHANGED <<writer, mIgnoreMask, adding, flush, file, enqueued, written>>

-----------------------------------------------------------------------------
(* FlushQueuedEventsToDisk takes mMutex, and MergeAndClearBuffers first    *)
(* takes the events of the threads that ended.                             *)
Begin(by) ==
    /\ MutexIsFree
    /\ flush' = <<[by |-> by, todo |-> {t \in Threads : HasBuffer(t)}, merged |-> mUnmergedBuffer]>>
    /\ mUnmergedBuffer' = <<>>
    /\ UNCHANGED <<writer, mIgnoreMask, mBufferPerThread, adding, file, enqueued, written>>

FlushEventTraceToDisk(t) == writer = "enabled" /\ t \notin adding /\ Begin(t)

(* ~EventTraceWriter: neither gEventTrace nor a buffer refers to it.       *)
DestroyWriter == writer = "released" /\ (\A t \in Threads : ~HasBuffer(t)) /\ Begin("destructor")

(* MergeAndClearBuffers reaches a buffer; the map is in no order.          *)
GetAndClearBuffer(t) ==
    /\ flush # <<>> /\ t \in flush[1].todo
    /\ flush' = <<[flush[1] EXCEPT !.todo = @ \ {t}, !.merged = @ \o mBufferPerThread[t][1]]>>
    /\ mBufferPerThread' = [mBufferPerThread EXCEPT ![t] = << <<>> >>]
    /\ UNCHANGED <<writer, mIgnoreMask, mUnmergedBuffer, adding, file, enqueued, written>>

(* Of a sequence of events those in kept.                                  *)
Selected(events, kept) ==
    LET taken[n \in 0..Len(events)] ==
            IF n = 0 THEN <<>>
            ELSE IF events[n] \in kept THEN Append(taken[n - 1], events[n])
            ELSE taken[n - 1]
    IN  taken[Len(events)]

(* The loop over the merged events: what is not ignored gets recorded.     *)
Recorded(events) == Selected(events, {e \in Event : e.phase \notin mIgnoreMask})

(* The rest of FlushQueuedEventsToDisk: nothing is written if no event was *)
(* merged.                                                                 *)
WriteFile ==
    /\ flush # <<>> /\ flush[1].todo = {}
    /\ IF flush[1].merged = <<>>
       THEN UNCHANGED <<file, written>>
       ELSE /\ file' = Recorded(flush[1].merged)
            /\ written' = written \o Recorded(flush[1].merged)
    /\ flush' = <<>>
    /\ writer' = IF flush[1].by = "destructor" THEN "destroyed" ELSE writer
    /\ UNCHANGED <<mIgnoreMask, mBufferPerThread, mUnmergedBuffer, adding, enqueued>>

(* External: at the end of the process gEventTrace is released, when no    *)
(* thread traces any more.                                                 *)
ReleaseGlobal ==
    /\ writer = "enabled" /\ adding = {} /\ MutexIsFree
    /\ writer' = "released"
    /\ UNCHANGED <<mIgnoreMask, mBufferPerThread, mUnmergedBuffer, adding, flush, file,
                   enqueued, written>>

ProcessHasEnded == writer = "destroyed" /\ UNCHANGED traceVars

TraceNext ==
    \/ \E ignoreMask \in SUBSET Phases : StartupEventTrace(ignoreMask)
    \/ \E t \in Threads :
         \/ GetOrCreateBufferFromTLS(t)
         \/ \E phase \in Phases : AddEvent(t, phase)
         \/ FlushAndRemoveBufferEntry(t)
         \/ FlushEventTraceToDisk(t)
         \/ GetAndClearBuffer(t)
    \/ WriteFile \/ ReleaseGlobal \/ DestroyWriter \/ ProcessHasEnded

TraceSpec == TraceInit /\ [][TraceNext]_traceVars

-----------------------------------------------------------------------------
EventsOf(t) == {e \in Event : e.thread = t}

Merged == IF flush = <<>> THEN <<>> ELSE flush[1].merged

Buffered(t) == IF HasBuffer(t) THEN mBufferPerThread[t][1] ELSE <<>>

(* The events that are still to be written, in the order they will be.     *)
Queued(t) == Merged \o mUnmergedBuffer \o Buffered(t)

(* Every event a thread queued, and that is not ignored, is written once   *)
(* and in its order, or still queued behind what was written, whatever     *)
(* flushes run while threads trace, end and start again with the same id;  *)
(* when the writer is gone, all of them were written.                      *)
EventsInOrder ==
    \A t \in Threads :
        Recorded(enqueued[t]) =
            Selected(written \o (IF writer = "destroyed" THEN <<>> ELSE Recorded(Queued(t))),
                     EventsOf(t))

(* What the comment before the early return of FlushQueuedEventsToDisk     *)
(* wants to avoid: a trace that was written is overwritten by an empty     *)
(* one.  It is, when every event of the later flush is ignored.            *)
NeverOverwrittenEmpty == [][file # <<>> => file' # <<>>]_file
=============================================================================
