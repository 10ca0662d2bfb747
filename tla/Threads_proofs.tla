--------------------------- MODULE Threads_proofs ---------------------------
(***************************************************************************)
(* The two components that keep threads of their own state beside the     *)
(* allocators: the budget worker, for every set of budgets, and the event *)
(* trace, for every set of threads and phases and any number of events.   *)
(* Neither refers to the other, and each has its own specification: Spec  *)
(* of BudgetWorker and TraceSpec of EventTraceWriter.                     *)
(***************************************************************************)
EXTENDS BudgetWorker, EventTraceWriter, SetSums, SequenceTheorems, TLAPS

-----------------------------------------------------------------------------
(* BudgetWorker: the detached worker thread never outlives the manager it  *)
(* points to, for every interleaving of creation, failure, notification    *)
(* and destruction.                                                        *)

(* What the safety of the destructor rests on: the manager owns an event   *)
(* from the moment the worker exists until it has seen that event          *)
(* signaled, and the worker signals it as its last step.                   *)
LifeInv ==
    /\ manager = "creating" => worker = "none" /\ ~hasEvent
    /\ isSignaled => worker = "ended"
    /\ manager # "destroyed" /\ ~hasEvent => worker = "none"
    /\ manager \in {"unregistered", "waiting"} => hasEvent
    /\ NoUseAfterDestroy

(* The fairness conjuncts play no part in safety.                          *)
LEMMA SpecSafety == Spec => Init /\ [][Next]_vars
BY PTL DEF Spec

(* Every variable of the manager, its worker and their events keeps its    *)
(* type: in particular the budget is 0 or one that the OS announced.       *)
THEOREM TypeCorrect == Spec => []TypeOK
<1>1. Init => TypeOK
  BY OsBudgetsAssumption DEF Init, TypeOK
<1>2. TypeOK /\ [Next]_vars => TypeOK'
  <2> SUFFICES ASSUME TypeOK, [Next]_vars PROVE TypeOK'
    OBVIOUS
  <2> USE DEF TypeOK
  <2>1. CASE StartBudgetNotificationUpdates \/ StartWithoutWorker \/ SetInitialLimits
    BY <2>1 DEF StartBudgetNotificationUpdates, StartWithoutWorker, SetInitialLimits
  <2>2. CASE ClientPolls \/ Destroy
    BY <2>2 DEF ClientPolls, Destroy
  <2>3. CASE StopSteps
    BY <2>3 DEF StopSteps, NothingToStop, UnregisterVideoMemoryBudgetChangeNotification,
                SetUnregisterAndExitEvent, StopReturns
  <2>4. CASE WorkerSteps
    <3>1. CASE WorkerStarts \/ WorkerIsNotified \/ WorkerIsToldToExit
      BY <3>1 DEF WorkerStarts, WorkerIsNotified, WorkerIsToldToExit
    <3>2. CASE WorkerUpdates
      BY <3>2 DEF WorkerUpdates, AfterUpdate
    <3>3. CASE WorkerEnds
      BY <3>3 DEF WorkerEnds
    <3>4. QED
      BY <2>4, <3>1, <3>2, <3>3 DEF WorkerSteps
  <2>5. CASE OsChangesBudget
    BY <2>5 DEF OsChangesBudget
  <2>6. CASE UNCHANGED vars
    BY <2>6 DEF vars
  <2>7. QED
    BY <2>1, <2>2, <2>3, <2>4, <2>5, <2>6 DEF Next
<1>3. QED
  BY <1>1, <1>2, SpecSafety, PTL

(* A worker that exists is known to the manager by its event, and the      *)
(* manager is only destroyed once that event was signaled, which is the    *)
(* last thing the worker does.                                             *)
LEMMA LifeStep == LifeInv /\ [Next]_vars => LifeInv'
<1> SUFFICES ASSUME LifeInv, [Next]_vars PROVE LifeInv'
  OBVIOUS
<1> USE DEF LifeInv, NoUseAfterDestroy
<1>1. CASE StartBudgetNotificationUpdates \/ StartWithoutWorker \/ SetInitialLimits
  BY <1>1 DEF StartBudgetNotificationUpdates, StartWithoutWorker, SetInitialLimits
<1>2. CASE ClientPolls \/ Destroy
  BY <1>2 DEF ClientPolls, Destroy
<1>3. CASE StopSteps
  <2>1. CASE NothingToStop \/ UnregisterVideoMemoryBudgetChangeNotification
    BY <2>1 DEF NothingToStop, UnregisterVideoMemoryBudgetChangeNotification
  <2>2. CASE SetUnregisterAndExitEvent
    BY <2>2 DEF SetUnregisterAndExitEvent
  <2>3. CASE StopReturns
    BY <2>3 DEF StopReturns, WaitReturns
  <2>4. QED
    BY <1>3, <2>1, <2>2, <2>3 DEF StopSteps
<1>4. CASE WorkerSteps
  BY <1>4 DEF WorkerSteps, WorkerStarts, WorkerIsNotified, WorkerIsToldToExit,
              WorkerUpdates, WorkerEnds, AfterUpdate
<1>5. CASE OsChangesBudget
  BY <1>5 DEF OsChangesBudget
<1>6. CASE UNCHANGED vars
  BY <1>6 DEF vars
<1>7. QED
  BY <1>1, <1>2, <1>3, <1>4, <1>5, <1>6 DEF Next

(* Whichever step of the creation failed, and whenever a last notification *)
(* arrived, the worker thread never uses a manager that is gone.           *)
THEOREM WorkerNeverOutlivesManager == Spec => []NoUseAfterDestroy
<1>1. Init => LifeInv
  BY DEF Init, LifeInv, NoUseAfterDestroy
<1>2. LifeInv => NoUseAfterDestroy
  BY DEF LifeInv
<1>3. QED
  BY <1>1, <1>2, LifeStep, SpecSafety, PTL

-----------------------------------------------------------------------------
(* EventTraceWriter: what Selected returns, by the smallest sequence for   *)
(* which it would not.                                                     *)

(* A set that has the empty sequence, and with a sequence all that are one *)
(* element longer, has all sequences.                                      *)
LEMMA AllSequences ==
  ASSUME NEW S, NEW P, <<>> \in P,
         \A s \in Seq(S) : \A e \in S : s \in P => Append(s, e) \in P
  PROVE  Seq(S) \subseteq P
<1> DEFINE Bad == {s \in Seq(S) : s \notin P}
           Lengths == {Len(s) : s \in Bad}
<1> SUFFICES ASSUME Bad # {} PROVE FALSE
  OBVIOUS
<1>1. Lengths \subseteq Nat /\ Lengths # {}
  OBVIOUS
<1>2. PICK n \in Lengths : \A k \in Lengths : n <= k
  <2> HIDE DEF Lengths
  <2>1. QED
    BY <1>1, SmallestNat
<1>3. PICK s \in Bad : Len(s) = n
  BY <1>2
<1>4. s \in Seq(S) /\ s # <<>>
  BY <1>3
<1>5. PICK k : k = Len(s)
  OBVIOUS
<1>6. k \in Nat \ {0} /\ s[k] \in S
  BY <1>4, <1>5, ElementOfSeq
<1>7. PICK u : u = SubSeq(s, 1, k - 1)
  OBVIOUS
<1>8. u \in Seq(S) /\ Len(u) = k - 1 /\ \A i \in 1..(k - 1) : u[i] = s[i]
  <2>1. \A i \in 1..(k - 1) : s[i] \in S
    BY <1>4, <1>5, <1>6, ElementOfSeq
  <2>2. QED
    BY <1>6, <1>7, <2>1
<1>9. Append(u, s[k]) = s
  <2>1. Append(u, s[k]) \in Seq(S) /\ Len(Append(u, s[k])) = Len(s)
    BY <1>5, <1>6, <1>8
  <2>2. \A i \in 1..Len(s) : Append(u, s[k])[i] = s[i]
    BY <1>5, <1>6, <1>8
  <2>3. QED
    BY <1>4, <2>1, <2>2, SeqEqual
<1>10. u \notin P
  BY <1>3, <1>4, <1>6, <1>8, <1>9
<1>11. Len(u) \in Lengths
  BY <1>8, <1>10
<1>12. QED
  BY <1>2, <1>3, <1>5, <1>6, <1>8, <1>11

(* The recursion of Selected is well founded.                              *)
Taken(f, events, kept) ==
    f = [n \in 0..Len(events) |->
            IF n = 0 THEN <<>>
            ELSE IF events[n] \in kept THEN Append(f[n - 1], events[n])
            ELSE f[n - 1]]

(* One element more extends the function that a longer sequence needs.     *)
LEMMA TakenLonger ==
  ASSUME NEW S, NEW s \in Seq(S), NEW e \in S, NEW kept, NEW f, Taken(f, s, kept)
  PROVE  \E g : /\ Taken(g, Append(s, e), kept)
                /\ \A n \in 0..Len(s) : g[n] = f[n]
<1> DEFINE u == Append(s, e)
<1>1. PICK k : k = Len(s)
  OBVIOUS
<1>2. k \in Nat /\ Len(u) = k + 1 /\ u[k + 1] = e /\ \A n \in 1..k : u[n] = s[n]
  BY <1>1
<1> HIDE DEF u
<1>3. PICK x : x = IF e \in kept THEN Append(f[k], e) ELSE f[k]
  OBVIOUS
<1>4. PICK g : g = [n \in 0..(k + 1) |-> IF n = k + 1 THEN x ELSE f[n]]
  OBVIOUS
<1>5. \A n \in 0..k : n \in 0..(k + 1) /\ n # k + 1
  BY <1>2
<1>6. \A n \in 0..k : g[n] = f[n]
  BY <1>4, <1>5
<1> DEFINE Turn(h, t, n) == IF n = 0 THEN <<>>
                            ELSE IF t[n] \in kept THEN Append(h[n - 1], t[n]) ELSE h[n - 1]
<1>7. \A n \in 0..k : f[n] = Turn(f, s, n)
  BY <1>1 DEF Taken
<1>8. ASSUME NEW n \in 0..(k + 1) PROVE g[n] = Turn(g, u, n)
  <2>1. CASE n = k + 1
    <3>1. g[n] = x /\ g[n - 1] = f[k] /\ u[n] = e /\ n # 0
      <4>1. k \in 0..k /\ k + 1 \in 0..(k + 1) /\ (k + 1) - 1 = k
        BY <1>2
      <4>2. g[k] = f[k]
        BY <4>1, <1>6
      <4>3. QED
        BY <2>1, <1>2, <1>4, <4>1, <4>2
    <3>2. QED
      BY <3>1, <1>3
  <2>2. CASE n = 0
    <3>1. n \in 0..k
      BY <2>2, <1>2
    <3>2. QED
      BY <2>2, <3>1, <1>6, <1>7
  <2>3. CASE n \in 1..k
    <3>1. n \in 0..k /\ n - 1 \in 0..k /\ n # 0
      BY <2>3, <1>2
    <3>2. g[n] = f[n] /\ g[n - 1] = f[n - 1] /\ u[n] = s[n]
      BY <3>1, <2>3, <1>2, <1>6
    <3>3. QED
      BY <3>1, <3>2, <1>7
  <2>4. QED
    BY <2>1, <2>2, <2>3, <1>2
<1>9. g = [n \in 0..(k + 1) |-> g[n]]
  BY <1>4
<1>10. g = [n \in 0..(k + 1) |-> Turn(g, u, n)]
  <2> HIDE DEF Turn
  <2>1. QED
    BY <1>8, <1>9
<1>11. Taken(g, u, kept)
  BY <1>2, <1>10 DEF Taken
<1>12. QED
  BY <1>1, <1>6, <1>11 DEF u

(* Every sequence has such a function.                                     *)
LEMMA TakenExists ==
  ASSUME NEW S, NEW s \in Seq(S), NEW kept
  PROVE  \E f : Taken(f, s, kept)
<1> DEFINE P == {u \in Seq(S) : \E f : Taken(f, u, kept)}
<1>1. <<>> \in P
  <2>1. PICK f : f = [n \in 0..0 |-> <<>>]
    OBVIOUS
  <2>2. Len(<<>>) = 0 /\ \A n \in 0..0 : n = 0
    OBVIOUS
  <2>3. Taken(f, <<>>, kept)
    BY <2>1, <2>2 DEF Taken
  <2>4. QED
    BY <2>3
<1>2. ASSUME NEW u \in Seq(S), NEW e \in S, u \in P PROVE Append(u, e) \in P
  <2>1. PICK f : Taken(f, u, kept)
    BY <1>2
  <2>2. \E g : Taken(g, Append(u, e), kept)
    BY <2>1, TakenLonger
  <2>3. QED
    BY <2>2
<1>3. Seq(S) \subseteq P
  <2> HIDE DEF P
  <2>1. QED
    BY <1>1, <1>2, AllSequences
<1>4. QED
  BY <1>3

(* s is a beginning of u.                                                  *)
BeginsWith(u, s) == Len(s) <= Len(u) /\ \A i \in 1..Len(s) : u[i] = s[i]

(* Of a sequence and a longer one, the functions agree.                    *)
LEMMA TakenUnique ==
  ASSUME NEW S, NEW s \in Seq(S), NEW u \in Seq(S), NEW kept, NEW f, NEW g,
         BeginsWith(u, s), Taken(f, s, kept), Taken(g, u, kept)
  PROVE  \A n \in 0..Len(s) : f[n] = g[n]
<1> DEFINE P == {k \in 0..Len(s) : f[k] # g[k]}
           Turn(h, t, i) == IF i = 0 THEN <<>>
                            ELSE IF t[i] \in kept THEN Append(h[i - 1], t[i]) ELSE h[i - 1]
<1>1. Len(s) \in Nat /\ Len(u) \in Nat
  OBVIOUS
<1>2. \A i \in 0..Len(s) : f[i] = Turn(f, s, i) /\ g[i] = Turn(g, u, i)
  <2>1. \A i \in 0..Len(s) : f[i] = Turn(f, s, i)
    BY DEF Taken
  <2>2. \A i \in 0..Len(u) : g[i] = Turn(g, u, i)
    BY DEF Taken
  <2>3. \A i \in 0..Len(s) : i \in 0..Len(u)
    BY <1>1 DEF BeginsWith
  <2> HIDE DEF Turn
  <2>4. QED
    BY <2>1, <2>2, <2>3
<1> SUFFICES ASSUME P # {} PROVE FALSE
  BY <1>1
<1>3. PICK k \in P : \A j \in P : k <= j
  <2> P \subseteq Nat
    BY <1>1
  <2> QED
    BY SmallestNat
<1>4. k # 0
  BY <1>2, <1>3
<1>5. k \in 1..Len(s) /\ k - 1 \in 0..Len(s) /\ k - 1 \notin P
  BY <1>1, <1>3, <1>4
<1>6. f[k - 1] = g[k - 1] /\ u[k] = s[k]
  BY <1>5 DEF BeginsWith
<1>7. f[k] = g[k]
  BY <1>2, <1>4, <1>5, <1>6
<1>8. QED
  BY <1>3, <1>7

(* Selected is the last value of such a function.                          *)
LEMMA SelectedIs ==
  ASSUME NEW S, NEW s \in Seq(S), NEW kept
  PROVE  \E f : Taken(f, s, kept) /\ Selected(s, kept) = f[Len(s)]
<1> DEFINE F == CHOOSE f : Taken(f, s, kept)
<1>1. Selected(s, kept) = F[Len(s)]
  BY DEF Selected, Taken
<1>2. Taken(F, s, kept)
  BY TakenExists
<1>3. QED
  BY <1>1, <1>2

(* Of no events, none.                                                     *)
LEMMA SelectedEmpty == ASSUME NEW kept PROVE Selected(<<>>, kept) = <<>>
<1>1. <<>> \in Seq({}) /\ Len(<<>>) = 0 /\ 0 \in 0..0
  OBVIOUS
<1>2. PICK f : Taken(f, <<>>, kept) /\ Selected(<<>>, kept) = f[Len(<<>>)]
  BY <1>1, SelectedIs
<1>3. f[0] = <<>>
  BY <1>1, <1>2 DEF Taken
<1>4. QED
  BY <1>1, <1>2, <1>3

(* What Selected does with one element more.                               *)
LEMMA SelectedAppend ==
  ASSUME NEW S, NEW s \in Seq(S), NEW e \in S, NEW kept
  PROVE  Selected(Append(s, e), kept) =
           IF e \in kept THEN Append(Selected(s, kept), e) ELSE Selected(s, kept)
<1>1. PICK k : k = Len(s)
  OBVIOUS
<1>2. PICK u : u = Append(s, e)
  OBVIOUS
<1>3. /\ k \in Nat /\ u \in Seq(S) /\ Len(u) = k + 1 /\ u[k + 1] = e
      /\ \A i \in 1..k : u[i] = s[i]
  BY <1>1, <1>2
<1>4. PICK f : Taken(f, s, kept) /\ Selected(s, kept) = f[Len(s)]
  BY SelectedIs
<1>5. PICK g : Taken(g, u, kept) /\ Selected(u, kept) = g[Len(u)]
  BY <1>3, SelectedIs
<1>6. f[k] = g[k]
  <2>1. BeginsWith(u, s)
    BY <1>1, <1>3 DEF BeginsWith
  <2>2. Taken(f, s, kept) /\ Taken(g, u, kept) /\ u \in Seq(S) /\ s \in Seq(S)
    BY <1>3, <1>4, <1>5
  <2>3. \A n \in 0..Len(s) : f[n] = g[n]
    BY <2>1, <2>2, TakenUnique
  <2>4. QED
    BY <1>1, <1>3, <2>3
<1>7. k + 1 \in 0..(k + 1) /\ k + 1 # 0 /\ (k + 1) - 1 = k
  BY <1>3
<1>8. g[k + 1] = IF u[k + 1] \in kept THEN Append(g[(k + 1) - 1], u[k + 1]) ELSE g[(k + 1) - 1]
  BY <1>3, <1>5, <1>7 DEF Taken
<1>9. QED
  BY <1>1, <1>2, <1>3, <1>4, <1>5, <1>6, <1>7, <1>8

(* What is selected from a sequence over S is a sequence over S, of kept   *)
(* elements.                                                               *)
LEMMA SelectedType ==
  ASSUME NEW S, NEW s \in Seq(S), NEW kept
  PROVE  Selected(s, kept) \in Seq(S)
<1> DEFINE P == {u \in Seq(S) : Selected(u, kept) \in Seq(S)}
<1>1. <<>> \in P
  <2>1. <<>> \in Seq(S)
    OBVIOUS
  <2>2. Selected(<<>>, kept) = <<>>
    BY SelectedEmpty
  <2>3. QED
    BY <2>1, <2>2
<1>2. ASSUME NEW u \in Seq(S), NEW e \in S, u \in P PROVE Append(u, e) \in P
  <2>1. Selected(u, kept) \in Seq(S)
    BY <1>2
  <2>2. PICK v : v = Selected(u, kept)
    OBVIOUS
  <2>3. Append(u, e) \in Seq(S) /\ v \in Seq(S) /\ Append(v, e) \in Seq(S)
    BY <2>1, <2>2
  <2>4. Selected(Append(u, e), kept) = IF e \in kept THEN Append(v, e) ELSE v
    BY <2>2, SelectedAppend
  <2>5. QED
    BY <2>3, <2>4
<1>3. Seq(S) \subseteq P
  <2> HIDE DEF P
  <2>1. QED
    BY <1>1, <1>2, AllSequences
<1>4. QED
  BY <1>3

(* Concatenation and one element more.                                     *)
LEMMA ConcatAppend ==
  ASSUME NEW S, NEW s \in Seq(S), NEW u \in Seq(S), NEW e \in S
  PROVE  s \o Append(u, e) = Append(s \o u, e)
<1>1. s \o Append(u, e) \in Seq(S) /\ Append(s \o u, e) \in Seq(S)
  OBVIOUS
<1>2. Len(s \o Append(u, e)) = Len(Append(s \o u, e))
  OBVIOUS
<1>3. \A i \in 1..Len(s \o Append(u, e)) : (s \o Append(u, e))[i] = Append(s \o u, e)[i]
  OBVIOUS
<1>4. QED
  BY <1>1, <1>2, <1>3, SeqEqual

(* Selected takes the parts of a concatenation separately.                 *)
LEMMA SelectedConcat ==
  ASSUME NEW S, NEW s \in Seq(S), NEW u \in Seq(S), NEW kept
  PROVE  Selected(s \o u, kept) = Selected(s, kept) \o Selected(u, kept)
<1> DEFINE P == {v \in Seq(S) : Selected(s \o v, kept) = Selected(s, kept) \o Selected(v, kept)}
<1>1. <<>> \in P
  BY SelectedEmpty, SelectedType, ConcatEmptySeq
<1>2. ASSUME NEW v \in Seq(S), NEW e \in S, v \in P PROVE Append(v, e) \in P
  <2>1. s \o v \in Seq(S) /\ Append(v, e) \in Seq(S)
    OBVIOUS
  <2>2. Selected(s, kept) \in Seq(S) /\ Selected(v, kept) \in Seq(S)
    BY SelectedType
  <2>3. s \o Append(v, e) = Append(s \o v, e)
    BY ConcatAppend
  <2>4. Selected(Append(s \o v, e), kept) =
          IF e \in kept THEN Append(Selected(s \o v, kept), e) ELSE Selected(s \o v, kept)
    BY <2>1, SelectedAppend
  <2>5. Selected(Append(v, e), kept) =
          IF e \in kept THEN Append(Selected(v, kept), e) ELSE Selected(v, kept)
    BY SelectedAppend
  <2>6. Selected(s \o v, kept) = Selected(s, kept) \o Selected(v, kept)
    BY <1>2
  <2>7. Selected(s, kept) \o Append(Selected(v, kept), e) = Append(Selected(s, kept) \o Selected(v, kept), e)
    BY <2>2, ConcatAppend
  <2>8. QED
    BY <2>1, <2>3, <2>4, <2>5, <2>6, <2>7
<1>3. Seq(S) \subseteq P
  <2> HIDE DEF P
  <2>1. QED
    BY <1>1, <1>2, AllSequences
<1>4. QED
  BY <1>3

(* Of what was selected, nothing else is selected.                         *)
LEMMA SelectedNone ==
  ASSUME NEW S, NEW s \in Seq(S), NEW kept, NEW other, S \cap other = {}
  PROVE  Selected(Selected(s, kept), other) = <<>>
<1> DEFINE P == {v \in Seq(S) : Selected(v, other) = <<>>}
<1>1. <<>> \in P
  BY SelectedEmpty
<1>2. ASSUME NEW v \in Seq(S), NEW e \in S, v \in P PROVE Append(v, e) \in P
  BY <1>2, SelectedAppend
<1>3. Seq(S) \subseteq P
  <2> HIDE DEF P
  <2>1. QED
    BY <1>1, <1>2, AllSequences
<1>4. QED
  BY <1>3, SelectedType

(* Selecting once more among events of one kind changes nothing.           *)
LEMMA SelectedAll ==
  ASSUME NEW S, NEW s \in Seq(S), NEW kept, S \subseteq kept
  PROVE  Selected(s, kept) = s
<1> DEFINE P == {v \in Seq(S) : Selected(v, kept) = v}
<1>1. <<>> \in P
  BY SelectedEmpty
<1>2. ASSUME NEW v \in Seq(S), NEW e \in S, v \in P PROVE Append(v, e) \in P
  BY <1>2, SelectedAppend
<1>3. Seq(S) \subseteq P
  <2> HIDE DEF P
  <2>1. QED
    BY <1>1, <1>2, AllSequences
<1>4. QED
  BY <1>3

-----------------------------------------------------------------------------
(* The events of one thread that are kept, and sequences in which they are *)
(* in order.                                                               *)

(* The events a flush would record.                                        *)
Kept == {e \in Event : e.phase \notin mIgnoreMask}

(* Of events, those of a thread that are kept.                             *)
Mine(t, kept, events) == Selected(Selected(events, kept), EventsOf(t))

(* Of the events enq a thread queued, those kept are, in this order, in    *)
(* what was written, in what a flush has merged, in what threads left that *)
(* ended, and in the thread's buffer.                                      *)
InOrder(t, kept, enq, done, merged, left, buffer) ==
    Selected(enq, kept) =
        Selected(done, EventsOf(t)) \o (Mine(t, kept, merged) \o (Mine(t, kept, left) \o Selected(buffer, kept)))

(* No event belongs to two threads.                                        *)
LEMMA OwnEvents ==
  ASSUME NEW t PROVE EventsOf(t) \subseteq Event /\ \A u : u # t => EventsOf(u) \cap EventsOf(t) = {}
BY DEF EventsOf

(* The facts about sequences, for events.                                  *)
LEMMA EventsConcat ==
  ASSUME NEW s \in Seq(Event), NEW u \in Seq(Event), NEW kept
  PROVE  Selected(s \o u, kept) = Selected(s, kept) \o Selected(u, kept)
BY SelectedConcat

(* Appending to the second of two sequences of events.                     *)
LEMMA EventsAppend ==
  ASSUME NEW s \in Seq(Event), NEW u \in Seq(Event), NEW e \in Event
  PROVE  s \o u \in Seq(Event) /\ s \o Append(u, e) = Append(s \o u, e)
BY ConcatAppend

(* Concatenation of events is associative.                                 *)
LEMMA EventsTogether ==
  ASSUME NEW s \in Seq(Event), NEW u \in Seq(Event), NEW v \in Seq(Event)
  PROVE  (s \o u) \o v = s \o (u \o v)
BY ConcatAssociative

(* No events can be left out of a concatenation.                           *)
LEMMA EventsEmpty == ASSUME NEW s \in Seq(Event) PROVE s \o <<>> = s /\ <<>> \o s = s
BY ConcatEmptySeq

(* The events of a thread that are kept are events.                        *)
LEMMA MineType ==
  ASSUME NEW t, NEW kept, NEW events \in Seq(Event)
  PROVE  Mine(t, kept, events) \in Seq(Event)
<1>1. Selected(events, kept) \in Seq(Event)
  BY SelectedType
<1>2. QED
  BY <1>1, SelectedType DEF Mine

(* Of no events, none is mine.                                             *)
LEMMA MineEmpty == ASSUME NEW t, NEW kept PROVE Mine(t, kept, <<>>) = <<>>
BY SelectedEmpty DEF Mine

(* Mine takes the parts of a concatenation separately.                     *)
LEMMA MineConcat ==
  ASSUME NEW t, NEW kept, NEW a \in Seq(Event), NEW b \in Seq(Event)
  PROVE  Mine(t, kept, a \o b) = Mine(t, kept, a) \o Mine(t, kept, b)
<1>1. Selected(a \o b, kept) = Selected(a, kept) \o Selected(b, kept)
  BY SelectedConcat
<1>2. Selected(a, kept) \in Seq(Event) /\ Selected(b, kept) \in Seq(Event)
  BY SelectedType
<1>3. PICK x \in Seq(Event), y \in Seq(Event) : x = Selected(a, kept) /\ y = Selected(b, kept)
  BY <1>2
<1>4. PICK own : own = EventsOf(t)
  OBVIOUS
<1>5. Selected(x \o y, own) = Selected(x, own) \o Selected(y, own)
  BY EventsConcat
<1>6. QED
  BY <1>1, <1>3, <1>4, <1>5 DEF Mine

(* Of the kept events of a concatenation, those of one thread.             *)
LEMMA SelectedTwice ==
  ASSUME NEW t, NEW kept, NEW a \in Seq(Event), NEW b \in Seq(Event)
  PROVE  Selected(a \o Selected(b, kept), EventsOf(t)) = Selected(a, EventsOf(t)) \o Mine(t, kept, b)
<1>1. PICK x \in Seq(Event) : x = Selected(b, kept)
  BY SelectedType
<1>2. PICK own : own = EventsOf(t)
  OBVIOUS
<1>3. Selected(a \o x, own) = Selected(a, own) \o Selected(x, own)
  BY EventsConcat
<1>4. QED
  BY <1>1, <1>2, <1>3 DEF Mine

(* In the buffer of a thread every event is its own.                       *)
LEMMA MineOwn ==
  ASSUME NEW t, NEW kept, NEW b \in Seq(EventsOf(t))
  PROVE  Mine(t, kept, b) = Selected(b, kept)
<1>1. Selected(b, kept) \in Seq(EventsOf(t))
  BY SelectedType
<1>2. Selected(Selected(b, kept), EventsOf(t)) = Selected(b, kept)
  BY <1>1, SelectedAll
<1>3. QED
  BY <1>2 DEF Mine

(* In the buffer of another thread none is.                                *)
LEMMA MineOther ==
  ASSUME NEW t, NEW u, u # t, NEW kept, NEW b \in Seq(EventsOf(u))
  PROVE  Mine(t, kept, b) = <<>>
<1>1. EventsOf(u) \cap EventsOf(t) = {}
  BY OwnEvents
<1>2. Selected(Selected(b, kept), EventsOf(t)) = <<>>
  BY <1>1, SelectedNone
<1>3. QED
  BY <1>2 DEF Mine

(* A buffer of a thread is a sequence of events.                           *)
LEMMA OwnIsEvent == ASSUME NEW t, NEW b \in Seq(EventsOf(t)) PROVE b \in Seq(Event)
BY OwnEvents, SeqMonotonic

(* The parts of InOrder as sequences.                                      *)
LEMMA OrderParts ==
  ASSUME NEW t, NEW kept, NEW done \in Seq(Event), NEW merged \in Seq(Event), NEW left \in Seq(Event),
         NEW buffer \in Seq(EventsOf(t))
  PROVE  /\ Selected(done, EventsOf(t)) \in Seq(Event)
         /\ Mine(t, kept, merged) \in Seq(Event) /\ Mine(t, kept, left) \in Seq(Event)
         /\ Selected(buffer, kept) \in Seq(Event)
<1>1. buffer \in Seq(Event)
  BY OwnIsEvent
<1>2. Selected(done, EventsOf(t)) \in Seq(Event) /\ Selected(buffer, kept) \in Seq(Event)
  BY <1>1, SelectedType
<1>3. QED
  BY <1>2, MineType

(* A thread adds an event.                                                 *)
LEMMA OrderAfterAdd ==
  ASSUME NEW t, NEW kept, NEW enq \in Seq(Event), NEW done \in Seq(Event), NEW merged \in Seq(Event),
         NEW left \in Seq(Event), NEW buffer \in Seq(EventsOf(t)), NEW e \in EventsOf(t),
         InOrder(t, kept, enq, done, merged, left, buffer)
  PROVE  InOrder(t, kept, Append(enq, e), done, merged, left, Append(buffer, e))
<1> DEFINE a == Selected(done, EventsOf(t))
           b == Mine(t, kept, merged)
           c == Mine(t, kept, left)
           d == Selected(buffer, kept)
<1>1. a \in Seq(Event) /\ b \in Seq(Event) /\ c \in Seq(Event) /\ d \in Seq(Event) /\ e \in Event
  BY OrderParts, OwnEvents
<1>2. Selected(enq, kept) = a \o (b \o (c \o d))
  BY DEF InOrder
<1>3. Selected(Append(enq, e), kept) = IF e \in kept THEN Append(Selected(enq, kept), e) ELSE Selected(enq, kept)
  BY <1>1, SelectedAppend
<1>4. Selected(Append(buffer, e), kept) = IF e \in kept THEN Append(d, e) ELSE d
  BY SelectedAppend
<1>5. a \o (b \o (c \o Append(d, e))) = Append(a \o (b \o (c \o d)), e)
  <2> HIDE DEF a, b, c, d
  <2>1. c \o d \in Seq(Event) /\ c \o Append(d, e) = Append(c \o d, e)
    BY <1>1, EventsAppend
  <2>2. PICK x \in Seq(Event) : x = c \o d
    BY <2>1
  <2>3. b \o x \in Seq(Event) /\ b \o Append(x, e) = Append(b \o x, e)
    BY <1>1, EventsAppend
  <2>4. c \o Append(d, e) = Append(x, e)
    BY <2>1, <2>2
  <2>5. b \o (c \o Append(d, e)) = Append(b \o x, e)
    BY <2>3, <2>4
  <2>6. a \o Append(b \o x, e) = Append(a \o (b \o x), e)
    <3>1. ASSUME NEW v \in Seq(Event) PROVE a \o Append(v, e) = Append(a \o v, e)
      BY <1>1, EventsAppend
    <3>2. QED
      BY <2>3, <3>1, Zenon
  <2>7. QED
    BY <2>2, <2>5, <2>6
<1>6. Selected(Append(enq, e), kept) = a \o (b \o (c \o Selected(Append(buffer, e), kept)))
  <2> HIDE DEF a, b, c, d
  <2>1. QED
    BY <1>2, <1>3, <1>4, <1>5
<1>7. QED
  BY <1>6 DEF InOrder

(* A thread ends and leaves its events.                                    *)
LEMMA OrderAfterEnd ==
  ASSUME NEW t, NEW kept, NEW enq \in Seq(Event), NEW done \in Seq(Event), NEW merged \in Seq(Event),
         NEW left \in Seq(Event), NEW buffer \in Seq(EventsOf(t)),
         InOrder(t, kept, enq, done, merged, left, buffer)
  PROVE  InOrder(t, kept, enq, done, merged, left \o buffer, <<>>)
<1>1. Mine(t, kept, left \o buffer) = Mine(t, kept, left) \o Selected(buffer, kept)
  <2>1. buffer \in Seq(Event)
    BY OwnIsEvent
  <2>2. Mine(t, kept, left \o buffer) = Mine(t, kept, left) \o Mine(t, kept, buffer)
    BY <2>1, MineConcat
  <2>3. QED
    BY <2>2, MineOwn
<1>2. Mine(t, kept, left \o buffer) \o Selected(<<>>, kept) = Mine(t, kept, left) \o Selected(buffer, kept)
  <2>1. Mine(t, kept, left) \in Seq(Event) /\ Selected(buffer, kept) \in Seq(Event)
    BY OrderParts
  <2>2. PICK x : x = Mine(t, kept, left) \o Selected(buffer, kept)
    OBVIOUS
  <2>3. x \in Seq(Event)
    BY <2>1, <2>2, EventsAppend
  <2>4. x \o <<>> = x
    BY <2>3, EventsEmpty
  <2>5. QED
    BY <1>1, <2>2, <2>4, SelectedEmpty
<1>3. QED
  BY <1>2 DEF InOrder

(* Another one ends.                                                       *)
LEMMA OrderAfterOtherEnd ==
  ASSUME NEW t, NEW u, u # t, NEW kept, NEW enq, NEW done, NEW merged, NEW left \in Seq(Event),
         NEW buffer, NEW other \in Seq(EventsOf(u)),
         InOrder(t, kept, enq, done, merged, left, buffer)
  PROVE  InOrder(t, kept, enq, done, merged, left \o other, buffer)
<1>1. Mine(t, kept, left \o other) = Mine(t, kept, left) \o Mine(t, kept, other)
  BY OwnIsEvent, MineConcat
<1>2. Mine(t, kept, other) = <<>> /\ Mine(t, kept, left) \in Seq(Event)
  BY MineOther, MineType
<1>3. Mine(t, kept, left \o other) = Mine(t, kept, left)
  BY <1>1, <1>2, ConcatEmptySeq
<1>4. QED
  BY <1>3 DEF InOrder

(* A flush takes the events of threads that ended ...                      *)
LEMMA OrderAfterBegin ==
  ASSUME NEW t, NEW kept, NEW enq, NEW done, NEW left \in Seq(Event), NEW buffer \in Seq(EventsOf(t)),
         InOrder(t, kept, enq, done, <<>>, left, buffer)
  PROVE  InOrder(t, kept, enq, done, left, <<>>, buffer)
<1> DEFINE c == Mine(t, kept, left)
           d == Selected(buffer, kept)
<1>1. c \in Seq(Event) /\ d \in Seq(Event)
  BY OwnIsEvent, MineType, SelectedType
<1>2. c \o d \in Seq(Event)
  BY <1>1
<1>3. <<>> \o (c \o d) = c \o (<<>> \o d)
  <2> HIDE DEF c, d
  <2>1. QED
    BY <1>1, <1>2, ConcatEmptySeq
<1>4. QED
  BY <1>3, MineEmpty DEF InOrder

(* ... then the buffer of the thread, or of another ...                    *)
LEMMA OrderAfterMerge ==
  ASSUME NEW t, NEW kept, NEW enq, NEW done, NEW merged \in Seq(Event), NEW buffer \in Seq(EventsOf(t)),
         InOrder(t, kept, enq, done, merged, <<>>, buffer)
  PROVE  InOrder(t, kept, enq, done, merged \o buffer, <<>>, <<>>)
<1> DEFINE b == Mine(t, kept, merged)
           d == Selected(buffer, kept)
<1>1. b \in Seq(Event) /\ d \in Seq(Event)
  BY OwnIsEvent, MineType, SelectedType
<1>2. Mine(t, kept, merged \o buffer) = b \o d
  <2>1. buffer \in Seq(Event)
    BY OwnIsEvent
  <2>2. Mine(t, kept, merged \o buffer) = Mine(t, kept, merged) \o Mine(t, kept, buffer)
    BY <2>1, MineConcat
  <2>3. QED
    BY <2>2, MineOwn
<1>3. b \o (<<>> \o d) = (b \o d) \o (<<>> \o <<>>)
  <2> HIDE DEF b, d
  <2>1. b \o d \in Seq(Event)
    BY <1>1
  <2>2. <<>> \o d = d /\ (b \o d) \o <<>> = b \o d
    BY <1>1, <2>1, ConcatEmptySeq
  <2>3. <<>> \o <<>> = <<>>
    OBVIOUS
  <2>4. QED
    BY <2>2, <2>3
<1>4. QED
  BY <1>2, <1>3, MineEmpty, SelectedEmpty DEF InOrder

(* A flush that merges the buffer of another thread changes nothing for    *)
(* this one.                                                               *)
LEMMA OrderAfterOtherMerge ==
  ASSUME NEW t, NEW u, u # t, NEW kept, NEW enq, NEW done, NEW merged \in Seq(Event), NEW left,
         NEW buffer, NEW other \in Seq(EventsOf(u)),
         InOrder(t, kept, enq, done, merged, left, buffer)
  PROVE  InOrder(t, kept, enq, done, merged \o other, left, buffer)
<1>1. Mine(t, kept, merged \o other) = Mine(t, kept, merged) \o Mine(t, kept, other)
  BY OwnIsEvent, MineConcat
<1>2. Mine(t, kept, other) = <<>> /\ Mine(t, kept, merged) \in Seq(Event)
  BY MineOther, MineType
<1>3. Mine(t, kept, merged \o other) = Mine(t, kept, merged)
  BY <1>1, <1>2, ConcatEmptySeq
<1>4. QED
  BY <1>3 DEF InOrder

(* ... and writes what it kept.                                            *)
LEMMA OrderAfterWrite ==
  ASSUME NEW t, NEW kept, NEW enq, NEW done \in Seq(Event), NEW merged \in Seq(Event),
         NEW left \in Seq(Event), NEW buffer \in Seq(EventsOf(t)),
         InOrder(t, kept, enq, done, merged, left, buffer)
  PROVE  InOrder(t, kept, enq, done \o Selected(merged, kept), <<>>, left, buffer)
<1> DEFINE a == Selected(done, EventsOf(t))
           b == Mine(t, kept, merged)
           c == Mine(t, kept, left)
           d == Selected(buffer, kept)
<1>1. a \in Seq(Event) /\ b \in Seq(Event) /\ c \in Seq(Event) /\ d \in Seq(Event)
  BY OrderParts
<1>2. Selected(done \o Selected(merged, kept), EventsOf(t)) = a \o b
  <2>1. Selected(merged, kept) \in Seq(Event)
    BY SelectedType
  <2>2. PICK x \in Seq(Event) : x = Selected(merged, kept)
    BY <2>1
  <2>3. PICK own : own = EventsOf(t)
    OBVIOUS
  <2>4. Selected(done \o x, own) = Selected(done, own) \o Selected(x, own)
    BY EventsConcat
  <2>5. QED
    BY <2>2, <2>3, <2>4 DEF Mine
<1>3. a \o (b \o (c \o d)) = (a \o b) \o (<<>> \o (c \o d))
  <2> HIDE DEF a, b, c, d
  <2>1. PICK x : x = c \o d
    OBVIOUS
  <2>2. x \in Seq(Event)
    BY <1>1, <2>1, EventsAppend
  <2>3. <<>> \o x = x
    BY <2>2, EventsEmpty
  <2>4. PICK v \in Seq(Event), w \in Seq(Event) : v = a /\ w = b
    BY <1>1
  <2>5. (v \o w) \o x = v \o (w \o x)
    BY <2>2, EventsTogether
  <2>6. QED
    BY <2>1, <2>3, <2>4, <2>5
<1>4. QED
  BY <1>2, <1>3, MineEmpty DEF InOrder

(* all is a, then b, then c.                                               *)
IsAll(all, a, b, c) == all = (a \o b) \o c

(* All that is queued, taken apart.                                        *)
LEMMA MineOfAll ==
  ASSUME NEW t, NEW kept, NEW a \in Seq(Event), NEW b \in Seq(Event), NEW c \in Seq(EventsOf(t)),
         NEW all, IsAll(all, a, b, c)
  PROVE  Mine(t, kept, all) = Mine(t, kept, a) \o (Mine(t, kept, b) \o Selected(c, kept))
<1>1. c \in Seq(Event)
  BY OwnIsEvent
<1>2. PICK x \in Seq(Event), y \in Seq(Event), z \in Seq(Event) :
         x = Mine(t, kept, a) /\ y = Mine(t, kept, b) /\ z = Selected(c, kept)
  BY <1>1, MineType, SelectedType
<1>3. (x \o y) \o z = x \o (y \o z)
  BY EventsTogether
<1>4. a \o b \in Seq(Event) /\ Mine(t, kept, a \o b) = x \o y
  <2>1. Mine(t, kept, a \o b) = Mine(t, kept, a) \o Mine(t, kept, b)
    BY MineConcat
  <2>2. QED
    BY <1>2, <2>1
<1>5. PICK q \in Seq(Event) : q = a \o b
  BY <1>4
<1>6. Mine(t, kept, q \o c) = Mine(t, kept, q) \o Mine(t, kept, c)
  BY <1>1, <1>5, MineConcat
<1>7. Mine(t, kept, c) = z
  BY <1>2, MineOwn
<1>8. QED
  BY <1>2, <1>3, <1>4, <1>5, <1>6, <1>7 DEF IsAll

(* What InOrder says of all that is written and queued, in one sequence.   *)
LEMMA OrderInFile ==
  ASSUME NEW t, NEW kept, NEW enq, NEW done \in Seq(Event), NEW merged \in Seq(Event),
         NEW left \in Seq(Event), NEW buffer \in Seq(EventsOf(t)),
         InOrder(t, kept, enq, done, merged, left, buffer)
  PROVE  Selected(enq, kept) =
           Selected(done \o Selected((merged \o left) \o buffer, kept), EventsOf(t))
<1>1. PICK all : all = (merged \o left) \o buffer
  OBVIOUS
<1>2. all \in Seq(Event)
  <2>1. buffer \in Seq(Event)
    BY OwnIsEvent
  <2>2. QED
    BY <1>1, <2>1
<1>3. Mine(t, kept, all) = Mine(t, kept, merged) \o (Mine(t, kept, left) \o Selected(buffer, kept))
  <2>1. IsAll(all, merged, left, buffer)
    BY <1>1 DEF IsAll
  <2>2. QED
    BY <2>1, MineOfAll
<1>4. Selected(done \o Selected(all, kept), EventsOf(t)) = Selected(done, EventsOf(t)) \o Mine(t, kept, all)
  BY <1>2, SelectedTwice
<1>5. QED
  BY <1>1, <1>3, <1>4 DEF InOrder

-----------------------------------------------------------------------------
(* What the invariant of the event trace says, piece by piece; TraceInv is *)
(* inductive.                                                              *)

(* A flush in progress.                                                    *)
Flush == [by : Threads \cup {"destructor"}, todo : SUBSET Threads, merged : Seq(Event)]

(* A buffer has events of its thread only.                                 *)
BuffersInv ==
    /\ mBufferPerThread = [t \in Threads |-> mBufferPerThread[t]]
    /\ \A t \in Threads :
          mBufferPerThread[t] = <<>> \/ \E b \in Seq(EventsOf(t)) : mBufferPerThread[t] = <<b>>

(* What the other variables hold.                                          *)
EventsInv ==
    /\ writer \in {"null", "enabled", "released", "destroyed"}
    /\ mIgnoreMask \subseteq Phases /\ adding \subseteq Threads
    /\ mUnmergedBuffer \in Seq(Event) /\ file \in Seq(Event) /\ written \in Seq(Event)
    /\ enqueued \in [Threads -> Seq(Event)]
    /\ flush = <<>> \/ \E f \in Flush : flush = <<f>>

(* Nothing was traced before the start: the mask does not change after.    *)
NotStarted ==
    /\ flush = <<>> /\ mUnmergedBuffer = <<>> /\ written = <<>> /\ adding = {}
    /\ \A t \in Threads : enqueued[t] = <<>> /\ ~HasBuffer(t)

(* While a flush holds mMutex no thread leaves its events behind those     *)
(* that were merged; and the destructor's finds no thread with a buffer.   *)
WriterInv ==
    /\ writer = "null" => NotStarted
    /\ adding # {} => writer = "enabled"
    /\ \A t \in adding : HasBuffer(t) /\ Len(enqueued[t]) < MaxEvents
    /\ flush # <<>> =>
          /\ mUnmergedBuffer = <<>>
          /\ flush[1].todo \subseteq {t \in Threads : HasBuffer(t)}
          /\ flush[1].by = "destructor" => writer = "released" /\ \A t \in Threads : ~HasBuffer(t)
    /\ writer = "destroyed" =>
          flush = <<>> /\ mUnmergedBuffer = <<>> /\ \A t \in Threads : ~HasBuffer(t)

(* For every thread, also in the middle of a flush.                        *)
OrderInv ==
    \A t \in Threads :
        InOrder(t, Kept, enqueued[t], written, Merged, mUnmergedBuffer, Buffered(t))

TraceInv == BuffersInv /\ EventsInv /\ WriterInv /\ OrderInv

(* A thread without a buffer has no buffered events.                       *)
LEMMA BufferedIs ==
  ASSUME BuffersInv, NEW t \in Threads
  PROVE  /\ Buffered(t) \in Seq(EventsOf(t)) /\ Buffered(t) \in Seq(Event)
         /\ HasBuffer(t) => mBufferPerThread[t] = <<Buffered(t)>>
         /\ ~HasBuffer(t) => mBufferPerThread[t] = <<>> /\ Buffered(t) = <<>>
<1>1. CASE mBufferPerThread[t] = <<>>
  <2>1. ~HasBuffer(t) /\ Buffered(t) = <<>>
    BY <1>1 DEF HasBuffer, Buffered
  <2>2. QED
    BY <1>1, <2>1
<1>2. CASE mBufferPerThread[t] # <<>>
  <2>1. PICK b \in Seq(EventsOf(t)) : mBufferPerThread[t] = <<b>>
    BY <1>2 DEF BuffersInv
  <2>2. HasBuffer(t) /\ Buffered(t) = b
    BY <1>2, <2>1 DEF HasBuffer, Buffered
  <2>3. b \in Seq(Event)
    BY OwnIsEvent
  <2>4. QED
    BY <2>1, <2>2, <2>3
<1>3. QED
  BY <1>1, <1>2

(* Without a flush nothing is merged.                                      *)
LEMMA MergedIs ==
  ASSUME EventsInv
  PROVE  /\ Merged \in Seq(Event)
         /\ flush = <<>> => Merged = <<>>
         /\ flush # <<>> => flush[1] \in Flush /\ Merged = flush[1].merged /\ flush = <<flush[1]>>
BY DEF EventsInv, Merged, Flush

(* What the next state has to show for each thread.                        *)
LEMMA OrderNext ==
  OrderInv' <=> \A t \in Threads :
      InOrder(t, Kept', enqueued'[t], written', Merged', mUnmergedBuffer', Buffered(t)')
BY DEF OrderInv, InOrder, Mine, EventsOf, Event

(* Nothing is queued initially.                                            *)
LEMMA InitTrace == TraceInit => TraceInv
<1> SUFFICES ASSUME TraceInit PROVE TraceInv
  OBVIOUS
<1> USE DEF TraceInit
<1>1. BuffersInv
  BY DEF BuffersInv
<1>2. EventsInv
  BY DEF EventsInv
<1>3. WriterInv
  BY DEF WriterInv, NotStarted, HasBuffer
<1>4. ASSUME NEW t \in Threads
      PROVE  InOrder(t, Kept, enqueued[t], written, Merged, mUnmergedBuffer, Buffered(t))
  <2>1. /\ enqueued[t] = <<>> /\ written = <<>> /\ Merged = <<>> /\ mUnmergedBuffer = <<>>
        /\ Buffered(t) = <<>>
    BY DEF Merged, Buffered, HasBuffer
  <2>2. <<>> \o <<>> = <<>>
    OBVIOUS
  <2>3. QED
    BY <2>1, <2>2, SelectedEmpty, MineEmpty DEF InOrder
<1>5. QED
  BY <1>1, <1>2, <1>3, <1>4 DEF TraceInv, OrderInv

(* The mask is set before any event was added.                             *)
LEMMA StartupStep ==
  ASSUME TraceInv, NEW mask \in SUBSET Phases, StartupEventTrace(mask)
  PROVE  TraceInv'
<1> USE DEF TraceInv, StartupEventTrace
<1>1. BuffersInv' /\ EventsInv'
  BY DEF BuffersInv, EventsInv
<1>2. NotStarted
  BY DEF WriterInv
<1>3. WriterInv'
  BY <1>2 DEF WriterInv, NotStarted, HasBuffer
<1>4. ASSUME NEW t \in Threads
      PROVE  InOrder(t, Kept', enqueued'[t], written', Merged', mUnmergedBuffer', Buffered(t)')
  <2>1. /\ enqueued'[t] = <<>> /\ written' = <<>> /\ Merged' = <<>> /\ mUnmergedBuffer' = <<>>
        /\ Buffered(t)' = <<>>
    BY <1>2 DEF NotStarted, Merged, Buffered, HasBuffer
  <2>2. <<>> \o <<>> = <<>>
    OBVIOUS
  <2>3. QED
    BY <2>1, <2>2, SelectedEmpty, MineEmpty DEF InOrder
<1>5. QED
  BY <1>1, <1>3, <1>4, OrderNext

(* The mask stays, so the same events are kept.                            *)
LEMMA KeptStays == ASSUME UNCHANGED mIgnoreMask PROVE Kept' = Kept
BY DEF Kept, Event

(* A new buffer is empty, and no destructor is flushing while tracing is   *)
(* enabled.                                                                *)
LEMMA RegisterStep ==
  ASSUME TraceInv, NEW t \in Threads, GetOrCreateBufferFromTLS(t)
  PROVE  TraceInv'
<1> USE DEF TraceInv, GetOrCreateBufferFromTLS
<1>1. \A u \in Threads : Buffered(u)' = Buffered(u) /\ (HasBuffer(u) => HasBuffer(u)')
  <2>1. CASE UNCHANGED mBufferPerThread
    BY <2>1 DEF Buffered, HasBuffer
  <2>2. CASE ~HasBuffer(t) /\ mBufferPerThread' = [mBufferPerThread EXCEPT ![t] = << <<>> >>]
    <3>1. ASSUME NEW u \in Threads
          PROVE  mBufferPerThread'[u] = IF u = t THEN << <<>> >> ELSE mBufferPerThread[u]
      BY <2>2 DEF BuffersInv
    <3>2. mBufferPerThread[t] = <<>> /\ << <<>> >>[1] = <<>> /\ << <<>> >> # <<>>
      BY <2>2 DEF HasBuffer
    <3>3. QED
      BY <3>1, <3>2 DEF Buffered, HasBuffer
  <2>3. QED
    BY <2>1, <2>2
<1>2. BuffersInv'
  <2>1. CASE UNCHANGED mBufferPerThread
    BY <2>1 DEF BuffersInv
  <2>2. CASE mBufferPerThread' = [mBufferPerThread EXCEPT ![t] = << <<>> >>]
    <3>1. <<>> \in Seq(EventsOf(t))
      OBVIOUS
    <3>2. QED
      BY <2>2, <3>1 DEF BuffersInv
  <2>3. QED
    BY <2>1, <2>2
<1>3. EventsInv'
  BY DEF EventsInv
<1>4. HasBuffer(t)'
  BY DEF HasBuffer, BuffersInv
<1>5. WriterInv'
  <2>1. flush # <<>> => \A u \in Threads : HasBuffer(u)' <=> HasBuffer(u)
    BY DEF MutexIsFree, HasBuffer
  <2>2. writer = "enabled" /\ writer' = "enabled"
    OBVIOUS
  <2>3. \A u \in adding' : HasBuffer(u)' /\ Len(enqueued'[u]) < MaxEvents
    BY <1>1, <1>4 DEF WriterInv, EventsInv
  <2>4. flush' # <<>> =>
          /\ mUnmergedBuffer' = <<>>
          /\ flush'[1].todo \subseteq {u \in Threads : HasBuffer(u)'}
          /\ flush'[1].by # "destructor"
    BY <2>1, <2>2 DEF WriterInv
  <2>5. QED
    BY <2>2, <2>3, <2>4 DEF WriterInv
<1>6. OrderInv'
  <2>1. Kept' = Kept /\ Merged' = Merged
    BY KeptStays DEF Merged
  <2>2. QED
    BY <1>1, <2>1, OrderNext DEF OrderInv
<1>7. QED
  BY <1>2, <1>3, <1>5, <1>6

-----------------------------------------------------------------------------
(* Each step of the event trace keeps the invariant.                       *)

(* An event is the last of its thread, in the history and in the buffer.   *)
LEMMA AddStep ==
  ASSUME TraceInv, NEW t \in Threads, NEW phase \in Phases, AddEvent(t, phase)
  PROVE  TraceInv'
<1> USE DEF TraceInv
<1>1. PICK e : /\ e = [thread |-> t, number |-> Len(enqueued[t]) + 1, phase |-> phase]
               /\ mBufferPerThread' = [mBufferPerThread EXCEPT ![t][1] = Append(@, e)]
               /\ enqueued' = [enqueued EXCEPT ![t] = Append(@, e)]
  BY DEF AddEvent
<1>2. /\ t \in adding /\ adding' = adding \ {t}
      /\ UNCHANGED <<writer, mIgnoreMask, mUnmergedBuffer, flush, file, written>>
  BY DEF AddEvent
<1>3. /\ HasBuffer(t) /\ writer = "enabled" /\ Len(enqueued[t]) < MaxEvents
      /\ \A u \in adding : u \in Threads
  BY <1>2 DEF WriterInv, EventsInv
<1>4. e \in EventsOf(t) /\ e \in Event
  <2>1. Len(enqueued[t]) + 1 \in 1..MaxEvents
    BY <1>3, EventTraceAssumption DEF EventsInv
  <2>2. e \in Event
    BY <1>1, <2>1 DEF Event
  <2>3. QED
    BY <1>1, <2>2 DEF EventsOf
<1>5. PICK b \in Seq(EventsOf(t)) : mBufferPerThread[t] = <<b>> /\ Buffered(t) = b
  BY <1>3, BufferedIs
<1>6. Append(b, e) \in Seq(EventsOf(t))
  BY <1>4
<1>7. mBufferPerThread'[t] = <<Append(b, e)>>
  <2>1. mBufferPerThread'[t] = [mBufferPerThread[t] EXCEPT ![1] = Append(@, e)]
    BY <1>1 DEF BuffersInv
  <2>2. QED
    BY <2>1, <1>5
<1>8. \A u \in Threads : u # t => mBufferPerThread'[u] = mBufferPerThread[u]
  BY <1>1 DEF BuffersInv
<1>9. Buffered(t)' = Append(b, e) /\ HasBuffer(t)'
  BY <1>7 DEF Buffered, HasBuffer
<1>10. \A u \in Threads : (u # t => Buffered(u)' = Buffered(u)) /\ (HasBuffer(u)' <=> HasBuffer(u))
  <2>1. \A u \in Threads : u # t => Buffered(u)' = Buffered(u) /\ (HasBuffer(u)' <=> HasBuffer(u))
    BY <1>8 DEF Buffered, HasBuffer
  <2>2. QED
    BY <2>1, <1>3, <1>9
<1>11. BuffersInv'
  <2>1. mBufferPerThread' = [u \in Threads |-> mBufferPerThread'[u]]
    BY <1>1 DEF BuffersInv
  <2>2. ASSUME NEW u \in Threads
        PROVE  mBufferPerThread'[u] = <<>> \/ \E c \in Seq(EventsOf(u)) : mBufferPerThread'[u] = <<c>>
    BY <1>6, <1>7, <1>8 DEF BuffersInv
  <2>3. QED
    BY <2>1, <2>2 DEF BuffersInv, EventsOf, Event
<1>12. EventsInv'
  <2>1. enqueued' \in [Threads -> Seq(Event)]
    BY <1>1, <1>4 DEF EventsInv
  <2>2. QED
    BY <2>1, <1>2 DEF EventsInv, Event, Flush
<1>13. WriterInv'
  <2>1. \A u \in adding' : HasBuffer(u)' /\ Len(enqueued'[u]) < MaxEvents
    BY <1>1, <1>2, <1>3, <1>10 DEF WriterInv, EventsInv
  <2>2. flush' # <<>> =>
          /\ mUnmergedBuffer' = <<>>
          /\ flush'[1].todo \subseteq {u \in Threads : HasBuffer(u)'}
          /\ flush'[1].by # "destructor"
    BY <1>2, <1>3, <1>10 DEF WriterInv
  <2>3. QED
    BY <1>2, <1>3, <2>1, <2>2 DEF WriterInv
<1>14. OrderInv'
  <2>1. Kept' = Kept /\ Merged' = Merged /\ Merged \in Seq(Event)
    BY <1>2, KeptStays, MergedIs DEF Merged
  <2>2. ASSUME NEW u \in Threads
        PROVE  InOrder(u, Kept, enqueued'[u], written, Merged, mUnmergedBuffer, Buffered(u)')
    <3>1. CASE u = t
      <4>1. InOrder(t, Kept, enqueued[t], written, Merged, mUnmergedBuffer, b)
        BY <1>5 DEF OrderInv
      <4>2. enqueued[t] \in Seq(Event) /\ written \in Seq(Event) /\ mUnmergedBuffer \in Seq(Event)
        BY DEF EventsInv
      <4>3. InOrder(t, Kept, Append(enqueued[t], e), written, Merged, mUnmergedBuffer, Append(b, e))
        BY <4>1, <4>2, <2>1, <1>4, OrderAfterAdd
      <4>4. enqueued'[t] = Append(enqueued[t], e)
        BY <1>1 DEF EventsInv
      <4>5. QED
        BY <3>1, <4>3, <4>4, <1>9
    <3>2. CASE u # t
      <4>1. enqueued'[u] = enqueued[u] /\ Buffered(u)' = Buffered(u)
        BY <1>1, <1>10, <3>2 DEF EventsInv
      <4>2. QED
        BY <4>1 DEF OrderInv
    <3>3. QED
      BY <3>1, <3>2
  <2>3. QED
    BY <1>2, <2>1, <2>2, OrderNext
<1>15. QED
  BY <1>11, <1>12, <1>13, <1>14

(* What becomes of the buffers when one of them is replaced.               *)
LEMMA Replaced ==
  ASSUME BuffersInv, NEW t \in Threads, NEW x, mBufferPerThread' = [mBufferPerThread EXCEPT ![t] = x],
         x = <<>> \/ x = << <<>> >>
  PROVE  /\ BuffersInv'
         /\ Buffered(t)' = <<>> /\ (HasBuffer(t)' <=> x # <<>>)
         /\ \A u \in Threads : u # t => Buffered(u)' = Buffered(u) /\ (HasBuffer(u)' <=> HasBuffer(u))
<1>1. ASSUME NEW u \in Threads PROVE mBufferPerThread'[u] = IF u = t THEN x ELSE mBufferPerThread[u]
  BY DEF BuffersInv
<1>2. mBufferPerThread' = [u \in Threads |-> mBufferPerThread'[u]]
  BY DEF BuffersInv
<1>3. ASSUME NEW u \in Threads
      PROVE  mBufferPerThread'[u] = <<>> \/ \E c \in Seq(EventsOf(u)) : mBufferPerThread'[u] = <<c>>
  <2>1. <<>> \in Seq(EventsOf(u))
    OBVIOUS
  <2>2. QED
    BY <1>1, <2>1 DEF BuffersInv
<1>4. BuffersInv'
  BY <1>2, <1>3 DEF BuffersInv, EventsOf, Event
<1>5. Buffered(t)' = <<>> /\ (HasBuffer(t)' <=> x # <<>>)
  <2>1. mBufferPerThread'[t] = x
    BY <1>1
  <2>2. << <<>> >>[1] = <<>>
    OBVIOUS
  <2>3. QED
    BY <2>1, <2>2 DEF Buffered, HasBuffer
<1>6. \A u \in Threads : u # t => Buffered(u)' = Buffered(u) /\ (HasBuffer(u)' <=> HasBuffer(u))
  BY <1>1 DEF Buffered, HasBuffer
<1>7. QED
  BY <1>4, <1>5, <1>6

(* The events of a thread that ends are behind all others of its id; no    *)
(* flush is under way.                                                     *)
LEMMA EndStep ==
  ASSUME TraceInv, NEW t \in Threads, FlushAndRemoveBufferEntry(t)
  PROVE  TraceInv'
<1> USE DEF TraceInv
<1>1. /\ HasBuffer(t) /\ t \notin adding /\ flush = <<>>
      /\ mBufferPerThread' = [mBufferPerThread EXCEPT ![t] = <<>>]
      /\ mUnmergedBuffer' = mUnmergedBuffer \o mBufferPerThread[t][1]
      /\ UNCHANGED <<writer, mIgnoreMask, adding, flush, file, enqueued, written>>
  BY DEF FlushAndRemoveBufferEntry, MutexIsFree
<1>2. PICK b \in Seq(EventsOf(t)) : mBufferPerThread[t] = <<b>> /\ Buffered(t) = b /\ b \in Seq(Event)
  BY <1>1, BufferedIs
<1>3. mUnmergedBuffer' = mUnmergedBuffer \o b
  BY <1>1, <1>2
<1>4. /\ BuffersInv'
      /\ Buffered(t)' = <<>> /\ ~HasBuffer(t)'
      /\ \A u \in Threads : u # t => Buffered(u)' = Buffered(u) /\ (HasBuffer(u)' <=> HasBuffer(u))
  BY <1>1, Replaced
<1>5. mUnmergedBuffer \in Seq(Event) /\ mUnmergedBuffer' \in Seq(Event)
  BY <1>2, <1>3 DEF EventsInv
<1>6. EventsInv'
  BY <1>1, <1>5 DEF EventsInv, Event, Flush
<1>7. WriterInv'
  <2>1. writer # "null" /\ writer # "destroyed"
    BY <1>1 DEF WriterInv, NotStarted
  <2>2. \A u \in adding : u \in Threads /\ u # t
    BY <1>1 DEF EventsInv
  <2>3. \A u \in adding' : HasBuffer(u)' /\ Len(enqueued'[u]) < MaxEvents
    BY <1>1, <1>4, <2>2 DEF WriterInv
  <2>4. QED
    BY <1>1, <2>1, <2>3 DEF WriterInv
<1>8. OrderInv'
  <2>1. Kept' = Kept /\ Merged' = Merged /\ Merged \in Seq(Event)
    BY <1>1, KeptStays, MergedIs DEF Merged
  <2>2. ASSUME NEW u \in Threads
        PROVE  InOrder(u, Kept, enqueued[u], written, Merged, mUnmergedBuffer \o b, Buffered(u)')
    <3>1. InOrder(u, Kept, enqueued[u], written, Merged, mUnmergedBuffer, Buffered(u))
      BY DEF OrderInv
    <3>2. enqueued[u] \in Seq(Event) /\ written \in Seq(Event)
      BY DEF EventsInv
    <3>3. CASE u = t
      BY <1>2, <1>4, <1>5, <2>1, <3>1, <3>2, <3>3, OrderAfterEnd
    <3>4. CASE u # t
      BY <1>2, <1>4, <1>5, <3>1, <3>4, OrderAfterOtherEnd
    <3>5. QED
      BY <3>3, <3>4
  <2>3. QED
    BY <1>1, <1>3, <2>1, <2>2, OrderNext
<1>9. QED
  BY <1>4, <1>6, <1>7, <1>8

(* The events that threads left become the merged ones.                    *)
LEMMA BeginStep ==
  ASSUME TraceInv, NEW by, Begin(by),
         \/ by \in Threads /\ writer = "enabled"
         \/ by = "destructor" /\ writer = "released" /\ \A t \in Threads : ~HasBuffer(t)
  PROVE  TraceInv'
<1> USE DEF TraceInv
<1>1. /\ flush = <<>> /\ mUnmergedBuffer' = <<>>
      /\ flush' = <<[by |-> by, todo |-> {t \in Threads : HasBuffer(t)}, merged |-> mUnmergedBuffer]>>
      /\ UNCHANGED <<writer, mIgnoreMask, mBufferPerThread, adding, file, enqueued, written>>
  BY DEF Begin, MutexIsFree
<1>2. PICK f : f = [by |-> by, todo |-> {t \in Threads : HasBuffer(t)}, merged |-> mUnmergedBuffer]
  OBVIOUS
<1>3. flush' = <<f>> /\ flush' # <<>> /\ flush'[1] = f
  BY <1>1, <1>2
<1>4. mUnmergedBuffer \in Seq(Event)
  BY DEF EventsInv
<1>5. f \in Flush
  BY <1>2, <1>4 DEF Flush
<1>6. BuffersInv'
  BY <1>1 DEF BuffersInv, EventsOf, Event
<1>7. EventsInv'
  <2>1. \E h \in Flush : flush' = <<h>>
    BY <1>3, <1>5
  <2>2. Flush' = Flush /\ mUnmergedBuffer' \in Seq(Event)
    BY <1>1 DEF Flush, Event
  <2>3. QED
    BY <1>1, <2>1, <2>2 DEF EventsInv, Event
<1>8. \A t \in Threads : Buffered(t)' = Buffered(t) /\ (HasBuffer(t)' <=> HasBuffer(t))
  BY <1>1 DEF Buffered, HasBuffer
<1>9. WriterInv'
  <2>1. f.todo = {t \in Threads : HasBuffer(t)} /\ f.by = by
    BY <1>2
  <2>2. by \in Threads => by # "destructor"
    BY EventTraceAssumption
  <2>3. f.todo \subseteq {t \in Threads : HasBuffer(t)'}
    BY <2>1, <1>8
  <2>4. \A t \in adding' : HasBuffer(t)' /\ Len(enqueued'[t]) < MaxEvents
    BY <1>1, <1>8 DEF WriterInv, EventsInv
  <2>5. flush'[1].by = "destructor" => writer' = "released" /\ \A t \in Threads : ~HasBuffer(t)'
    BY <1>1, <1>3, <1>8, <2>1, <2>2
  <2>6. writer' # "null" /\ writer' # "destroyed" /\ (adding' # {} => writer' = "enabled")
    BY <1>1 DEF WriterInv
  <2>7. QED
    BY <1>1, <1>3, <2>3, <2>4, <2>5, <2>6 DEF WriterInv
<1>10. OrderInv'
  <2>1. Kept' = Kept /\ Merged = <<>> /\ Merged' = mUnmergedBuffer
    BY <1>1, <1>2, <1>3, KeptStays DEF Merged
  <2>2. ASSUME NEW t \in Threads
        PROVE  InOrder(t, Kept, enqueued[t], written, mUnmergedBuffer, <<>>, Buffered(t))
    <3>1. InOrder(t, Kept, enqueued[t], written, <<>>, mUnmergedBuffer, Buffered(t))
      BY <2>1 DEF OrderInv
    <3>2. Buffered(t) \in Seq(EventsOf(t))
      BY BufferedIs
    <3>3. QED
      BY <1>4, <3>1, <3>2, OrderAfterBegin
  <2>3. QED
    BY <1>1, <1>8, <2>1, <2>2, OrderNext
<1>11. QED
  BY <1>6, <1>7, <1>9, <1>10

(* A buffer is taken while nothing is left behind by ended threads.        *)
LEMMA ClearStep ==
  ASSUME TraceInv, NEW t \in Threads, GetAndClearBuffer(t)
  PROVE  TraceInv'
<1> USE DEF TraceInv
<1>1. /\ flush # <<>> /\ t \in flush[1].todo
      /\ flush' = <<[flush[1] EXCEPT !.todo = @ \ {t}, !.merged = @ \o mBufferPerThread[t][1]]>>
      /\ mBufferPerThread' = [mBufferPerThread EXCEPT ![t] = << <<>> >>]
      /\ UNCHANGED <<writer, mIgnoreMask, mUnmergedBuffer, adding, file, enqueued, written>>
  BY DEF GetAndClearBuffer
<1>2. mUnmergedBuffer = <<>> /\ HasBuffer(t)
  BY <1>1 DEF WriterInv
<1>3. PICK b \in Seq(EventsOf(t)) : mBufferPerThread[t] = <<b>> /\ Buffered(t) = b /\ b \in Seq(Event)
  BY <1>2, BufferedIs
<1>4. PICK f \in Flush : flush = <<f>> /\ Merged = f.merged /\ flush[1] = f
  BY <1>1, MergedIs
<1>5. PICK g : g = [f EXCEPT !.todo = @ \ {t}, !.merged = @ \o b]
  OBVIOUS
<1>6. flush' = <<g>> /\ flush' # <<>> /\ flush'[1] = g
  BY <1>1, <1>3, <1>4, <1>5
<1>7. g \in Flush /\ g.merged = f.merged \o b /\ g.by = f.by /\ g.todo = f.todo \ {t} /\ f.merged \in Seq(Event)
  <2>1. f.merged \in Seq(Event) /\ f.merged \o b \in Seq(Event)
    BY <1>3 DEF Flush
  <2>2. QED
    BY <1>5, <2>1 DEF Flush
<1>8. /\ BuffersInv'
      /\ Buffered(t)' = <<>> /\ HasBuffer(t)'
      /\ \A u \in Threads : u # t => Buffered(u)' = Buffered(u) /\ (HasBuffer(u)' <=> HasBuffer(u))
  <2>1. PICK x : x = << <<>> >>
    OBVIOUS
  <2>2. x # <<>> /\ mBufferPerThread' = [mBufferPerThread EXCEPT ![t] = x]
    BY <1>1, <2>1
  <2>3. QED
    BY <2>1, <2>2, Replaced
<1>9. EventsInv'
  BY <1>1, <1>6, <1>7 DEF EventsInv, Event, Flush
<1>10. \A u \in Threads : HasBuffer(u)' <=> HasBuffer(u)
  BY <1>2, <1>8
<1>11. WriterInv'
  <2>1. writer # "null" /\ writer # "destroyed"
    BY <1>1 DEF WriterInv, NotStarted
  <2>2. \A u \in adding' : HasBuffer(u)' /\ Len(enqueued'[u]) < MaxEvents
    BY <1>1, <1>10 DEF WriterInv, EventsInv
  <2>3. g.todo \subseteq {u \in Threads : HasBuffer(u)'}
    BY <1>1, <1>4, <1>7, <1>10 DEF WriterInv
  <2>4. g.by = "destructor" => writer' = "released" /\ \A u \in Threads : ~HasBuffer(u)'
    BY <1>1, <1>4, <1>7, <1>10 DEF WriterInv
  <2>5. QED
    BY <1>1, <1>2, <1>6, <2>1, <2>2, <2>3, <2>4 DEF WriterInv
<1>12. OrderInv'
  <2>1. Kept' = Kept /\ Merged' = f.merged \o b /\ mUnmergedBuffer' = <<>>
    BY <1>1, <1>2, <1>6, <1>7, KeptStays DEF Merged
  <2>2. ASSUME NEW u \in Threads
        PROVE  InOrder(u, Kept, enqueued[u], written, f.merged \o b, <<>>, Buffered(u)')
    <3>1. InOrder(u, Kept, enqueued[u], written, f.merged, <<>>, Buffered(u))
      BY <1>2, <1>4 DEF OrderInv
    <3>2. CASE u = t
      BY <1>3, <1>7, <1>8, <3>1, <3>2, OrderAfterMerge
    <3>3. CASE u # t
      BY <1>3, <1>7, <1>8, <3>1, <3>3, OrderAfterOtherMerge
    <3>4. QED
      BY <3>2, <3>3
  <2>3. QED
    BY <1>1, <2>1, <2>2, OrderNext
<1>13. QED
  BY <1>8, <1>9, <1>11, <1>12

(* What was merged is written; the destructor has found everything.        *)
LEMMA WriteStep ==
  ASSUME TraceInv, WriteFile
  PROVE  TraceInv'
<1> USE DEF TraceInv
<1>1. /\ flush # <<>> /\ flush[1].todo = {} /\ flush' = <<>>
      /\ writer' = IF flush[1].by = "destructor" THEN "destroyed" ELSE writer
      /\ UNCHANGED <<mIgnoreMask, mBufferPerThread, mUnmergedBuffer, adding, enqueued>>
  BY DEF WriteFile
<1>2. PICK f \in Flush : flush = <<f>> /\ Merged = f.merged /\ flush[1] = f
  BY <1>1, MergedIs
<1>3. f.merged \in Seq(Event) /\ written \in Seq(Event) /\ mUnmergedBuffer = <<>>
  BY <1>1, <1>2 DEF Flush, EventsInv, WriterInv
<1>4. PICK r : r = Selected(f.merged, Kept)
  OBVIOUS
<1>5. r \in Seq(Event) /\ Recorded(f.merged) = r
  BY <1>3, <1>4, SelectedType DEF Recorded, Kept
<1>6. written' = written \o r /\ written' \in Seq(Event) /\ file' \in Seq(Event)
  <2>1. CASE f.merged = <<>>
    <3>1. r = <<>> /\ written' = written /\ file' = file
      BY <1>2, <1>4, <2>1, SelectedEmpty DEF WriteFile
    <3>2. QED
      BY <3>1, <1>3, EventsEmpty DEF EventsInv
  <2>2. CASE f.merged # <<>>
    <3>1. file' = r /\ written' = written \o r
      BY <1>2, <1>5, <2>2 DEF WriteFile
    <3>2. QED
      BY <3>1, <1>3, <1>5
  <2>3. QED
    BY <2>1, <2>2
<1>7. \A t \in Threads : Buffered(t)' = Buffered(t) /\ (HasBuffer(t)' <=> HasBuffer(t))
  BY <1>1 DEF Buffered, HasBuffer
<1>8. BuffersInv'
  BY <1>1 DEF BuffersInv, EventsOf, Event
<1>9. EventsInv'
  BY <1>1, <1>6 DEF EventsInv, Event, Flush
<1>10. WriterInv'
  <2>1. writer # "null" /\ writer # "destroyed"
    BY <1>1 DEF WriterInv, NotStarted
  <2>2. f.by = "destructor" => writer = "released" /\ adding = {} /\ \A t \in Threads : ~HasBuffer(t)
    BY <1>1, <1>2 DEF WriterInv
  <2>3. \A u \in adding' : HasBuffer(u)' /\ Len(enqueued'[u]) < MaxEvents
    BY <1>1, <1>7 DEF WriterInv, EventsInv
  <2>4. adding' # {} => writer' = "enabled"
    BY <1>1, <1>2, <2>2 DEF WriterInv
  <2>5. writer' = "destroyed" => \A t \in Threads : ~HasBuffer(t)'
    BY <1>1, <1>2, <1>7, <2>1, <2>2
  <2>6. writer' # "null"
    BY <1>1, <2>1
  <2>7. QED
    BY <1>1, <1>3, <2>3, <2>4, <2>5, <2>6 DEF WriterInv
<1>11. OrderInv'
  <2>1. Kept' = Kept /\ Merged' = <<>>
    BY <1>1, KeptStays DEF Merged
  <2>2. ASSUME NEW t \in Threads
        PROVE  InOrder(t, Kept, enqueued[t], written \o r, <<>>, mUnmergedBuffer, Buffered(t))
    <3>1. InOrder(t, Kept, enqueued[t], written, f.merged, mUnmergedBuffer, Buffered(t))
      BY <1>2 DEF OrderInv
    <3>2. Buffered(t) \in Seq(EventsOf(t)) /\ mUnmergedBuffer \in Seq(Event)
      BY BufferedIs DEF EventsInv
    <3>3. QED
      BY <1>3, <1>4, <3>1, <3>2, OrderAfterWrite
  <2>3. QED
    BY <1>1, <1>6, <1>7, <2>1, <2>2, OrderNext
<1>12. QED
  BY <1>8, <1>9, <1>10, <1>11

(* The remaining steps move no events.                                     *)
LEMMA OtherSteps ==
  ASSUME TraceInv, ReleaseGlobal \/ UNCHANGED traceVars
  PROVE  TraceInv'
<1> USE DEF TraceInv
<1>1. UNCHANGED <<mIgnoreMask, mBufferPerThread, mUnmergedBuffer, adding, flush, file, enqueued, written>>
  BY DEF ReleaseGlobal, traceVars
<1>2. \A t \in Threads : Buffered(t)' = Buffered(t) /\ (HasBuffer(t)' <=> HasBuffer(t))
  BY <1>1 DEF Buffered, HasBuffer
<1>3. BuffersInv'
  BY <1>1 DEF BuffersInv, EventsOf, Event
<1>4. EventsInv'
  BY <1>1 DEF EventsInv, Event, Flush, ReleaseGlobal, traceVars
<1>5. WriterInv'
  <2>1. CASE ReleaseGlobal
    <3>1. writer' = "released" /\ adding' = {} /\ flush' = <<>>
      BY <2>1 DEF ReleaseGlobal, MutexIsFree
    <3>2. QED
      BY <3>1 DEF WriterInv
  <2>2. CASE UNCHANGED traceVars
    BY <2>2 DEF traceVars, WriterInv, NotStarted, HasBuffer
  <2>3. QED
    BY <2>1, <2>2
<1>6. OrderInv'
  <2>1. Kept' = Kept /\ Merged' = Merged
    BY <1>1, KeptStays DEF Merged
  <2>2. QED
    BY <1>1, <1>2, <2>1, OrderNext DEF OrderInv
<1>7. QED
  BY <1>3, <1>4, <1>5, <1>6

(* Every step keeps the invariant.                                         *)
LEMMA StepTrace == TraceInv /\ [TraceNext]_traceVars => TraceInv'
<1> SUFFICES ASSUME TraceInv, [TraceNext]_traceVars PROVE TraceInv'
  OBVIOUS
<1>1. CASE \E ignoreMask \in SUBSET Phases : StartupEventTrace(ignoreMask)
  BY <1>1, StartupStep
<1>2. ASSUME NEW t \in Threads, FlushEventTraceToDisk(t) PROVE TraceInv'
  BY <1>2, BeginStep DEF FlushEventTraceToDisk
<1>3. CASE DestroyWriter
  BY <1>3, BeginStep DEF DestroyWriter
<1>4. CASE WriteFile
  BY <1>4, WriteStep
<1>5. CASE ReleaseGlobal \/ ProcessHasEnded \/ UNCHANGED traceVars
  BY <1>5, OtherSteps DEF ProcessHasEnded
<1>6. QED
  BY <1>1, <1>2, <1>3, <1>4, <1>5, RegisterStep, AddStep, EndStep, ClearStep DEF TraceNext

(* TraceInv in every reachable state.  EnqueueTraceEvent,                  *)
(* FlushAndRemoveBufferEntry and MergeAndClearBuffers never change the     *)
(* order of a thread's events between its buffer and the file.             *)
THEOREM TraceInvariant == TraceSpec => []TraceInv
<1>1. QED
  BY InitTrace, StepTrace, PTL DEF TraceSpec

(* EventsInOrder in every reachable state: whatever flushes run while      *)
(* threads call EnqueueTraceEvent, end and start again with the same id,   *)
(* every event that is not ignored is written once and in its thread's     *)
(* order, and all of them are when ~EventTraceWriter has run.              *)
THEOREM EventsStayInOrder == TraceSpec => []EventsInOrder
<1>1. TraceInv => EventsInOrder
  <2> SUFFICES ASSUME TraceInv, NEW t \in Threads
               PROVE  Recorded(enqueued[t]) =
                        Selected(written \o (IF writer = "destroyed" THEN <<>> ELSE Recorded(Queued(t))),
                                 EventsOf(t))
    BY DEF EventsInOrder
  <2> USE DEF TraceInv
  <2>1. /\ Merged \in Seq(Event) /\ mUnmergedBuffer \in Seq(Event) /\ written \in Seq(Event)
        /\ Buffered(t) \in Seq(EventsOf(t)) /\ Buffered(t) \in Seq(Event)
    BY BufferedIs, MergedIs DEF EventsInv
  <2>2. Selected(enqueued[t], Kept) =
          Selected(written \o Selected((Merged \o mUnmergedBuffer) \o Buffered(t), Kept), EventsOf(t))
    <3>1. PICK m \in Seq(Event), u \in Seq(Event), b \in Seq(EventsOf(t)) :
             m = Merged /\ u = mUnmergedBuffer /\ b = Buffered(t)
      BY <2>1
    <3>2. InOrder(t, Kept, enqueued[t], written, m, u, b)
      BY <3>1 DEF OrderInv
    <3>3. Selected(enqueued[t], Kept) = Selected(written \o Selected((m \o u) \o b, Kept), EventsOf(t))
      BY <2>1, <3>2, OrderInFile
    <3>4. QED
      BY <3>1, <3>3
  <2>3. Recorded(Queued(t)) = Selected((Merged \o mUnmergedBuffer) \o Buffered(t), Kept)
    BY DEF Queued, Recorded, Kept
  <2>4. Recorded(enqueued[t]) = Selected(enqueued[t], Kept)
    BY DEF Recorded, Kept
  <2>5. CASE writer = "destroyed"
    <3>1. mUnmergedBuffer = <<>> /\ Merged = <<>> /\ Buffered(t) = <<>>
      BY <2>5, MergedIs, BufferedIs DEF WriterInv
    <3>2. (<<>> \o <<>>) \o <<>> = <<>>
      OBVIOUS
    <3>3. Selected((Merged \o mUnmergedBuffer) \o Buffered(t), Kept) = <<>>
      BY <3>1, <3>2, SelectedEmpty
    <3>4. QED
      BY <2>2, <2>4, <2>5, <3>3
  <2>6. CASE writer # "destroyed"
    BY <2>2, <2>3, <2>4, <2>6
  <2>7. QED
    BY <2>5, <2>6
<1>2. QED
  BY <1>1, TraceInvariant, PTL

(* TraceTypeOK in every reachable state: the buffers, the flush in         *)
(* progress, the file and what ended threads left hold events of threads.  *)
THEOREM TraceTypeCorrect == TraceSpec => []TraceTypeOK
<1>1. TraceInv => TraceTypeOK
  <2> SUFFICES ASSUME TraceInv PROVE TraceTypeOK
    OBVIOUS
  <2> USE DEF TraceInv
  <2>1. \A t \in Threads : mBufferPerThread[t] = <<>> \/ mBufferPerThread[t][1] \in Seq(Event)
    <3> SUFFICES ASSUME NEW t \in Threads, mBufferPerThread[t] # <<>>
                 PROVE  mBufferPerThread[t][1] \in Seq(Event)
      OBVIOUS
    <3>1. PICK b \in Seq(Event) : mBufferPerThread[t] = <<b>>
      BY BufferedIs DEF HasBuffer
    <3>2. QED
      BY <3>1
  <2>2. flush = <<>> \/ flush[1] \in Flush
    BY MergedIs
  <2>3. QED
    BY <2>1, <2>2 DEF EventsInv, TraceTypeOK, Flush
<1>2. QED
  BY <1>1, TraceInvariant, PTL
=============================================================================
