---------------------------- MODULE BudgetWorker ----------------------------
(***************************************************************************)
(* The worker thread of the ResidencyManager that applies the budgets the  *)
(* OS announces (ResidencyManagerD3D12.cpp: BudgetUpdateTask,              *)
(* BudgetUpdateEvent, Start/StopBudgetNotificationUpdates), from the       *)
(* creation of the manager to its destruction, and the thread and event it *)
(* runs on (WorkerThread.cpp).                                             *)
(*                                                                         *)
(* One memory segment stands for both, and the budget is not restricted by *)
(* the descriptor.  The two Windows events reset themselves when they end  *)
(* a wait; if both are signaled the wait returns the first, the            *)
(* notification.  UpdateMemorySegments holds the manager's mutex and asks  *)
(* DXGI for the budget of the moment, so it is one step.                   *)
(***************************************************************************)
EXTENDS Integers

CONSTANT OsBudgets    \* budgets the OS may announce

ASSUME OsBudgetsAssumption == OsBudgets \subseteq Nat \ {0} /\ OsBudgets # {}

(* The HRESULTs of this code and the macro FAILED.                         *)
S_OK == 0
S_FALSE == 1
E_FAIL == -1
FAILED(hr) == hr < 0

VARIABLES
    neverOnWorker,  \* mIsBudgetChangeEventsDisabled
    manager,        \* where the life of the ResidencyManager is
    budget,         \* DXGI_QUERY_VIDEO_MEMORY_INFO::Budget, 0 before the first query
    hasEvent,       \* mBudgetNotificationUpdateEvent # nullptr
    worker,         \* where BudgetUpdateTask::operator() is
    mLastError,     \* BudgetUpdateTask::mLastError
    isSignaled,     \* AsyncEventImpl::mIsSignaled
    notification,   \* mBudgetNotificationUpdateEvent of the task is signaled
    exit,           \* mUnregisterAndExitEvent is signaled
    registered,     \* external: DXGI signals the notification event
    osBudget        \* external: the budget of the OS

vars == <<neverOnWorker, manager, budget, hasEvent, worker, mLastError, isSignaled,
          notification, exit, registered, osBudget>>

TypeOK ==
    /\ neverOnWorker \in BOOLEAN /\ hasEvent \in BOOLEAN /\ isSignaled \in BOOLEAN
    /\ notification \in BOOLEAN /\ exit \in BOOLEAN /\ registered \in BOOLEAN
    /\ manager \in {"creating", "started", "alive", "destroying", "unregistered",
                    "waiting", "destroyed"}
    /\ worker \in {"none", "starting", "waiting", "updating", "failed", "exiting", "ended"}
    /\ mLastError \in {S_OK, E_FAIL}
    /\ budget \in OsBudgets \cup {0} /\ osBudget \in OsBudgets

Init ==
    /\ neverOnWorker \in BOOLEAN /\ osBudget \in OsBudgets
    /\ manager = "creating" /\ worker = "none"
    /\ budget = 0 /\ mLastError = S_OK
    /\ hasEvent = FALSE /\ isSignaled = FALSE
    /\ notification = FALSE /\ exit = FALSE /\ registered = FALSE

-----------------------------------------------------------------------------
(* BudgetUpdateEvent::GetLastError returns the HRESULT as a bool, which    *)
(* its callers convert back: a failure becomes S_FALSE.                    *)
GetLastError == IF mLastError = S_OK THEN S_OK ELSE S_FALSE

IsBudgetNotificationUpdatesDisabled == neverOnWorker \/ (hasEvent /\ FAILED(GetLastError))

(* BudgetUpdateTask's constructor registers the event and keeps the        *)
(* result; the task is then posted to a thread of its own.  GetLastError   *)
(* is never FAILED, so creation goes on either way.                        *)
StartBudgetNotificationUpdates ==
    /\ manager = "creating" /\ ~neverOnWorker
    /\ hasEvent' = TRUE /\ worker' = "starting" /\ manager' = "started"
    /\ \/ registered' = TRUE /\ UNCHANGED mLastError
       \/ mLastError' = E_FAIL /\ UNCHANGED registered
    /\ UNCHANGED <<neverOnWorker, budget, isSignaled, notification, exit, osBudget>>

(* RESIDENCY_FLAG_NEVER_UPDATE_BUDGET_ON_WORKER_THREAD                     *)
StartWithoutWorker ==
    /\ manager = "creating" /\ neverOnWorker
    /\ manager' = "started"
    /\ UNCHANGED <<neverOnWorker, budget, hasEvent, worker, mLastError, isSignaled,
                   notification, exit, registered, osBudget>>

(* The first UpdateMemorySegments; if it fails, the manager is destroyed.  *)
SetInitialLimits ==
    /\ manager = "started"
    /\ \/ manager' = "alive" /\ budget' = osBudget
       \/ manager' = "destroying" /\ UNCHANGED budget
    /\ UNCHANGED <<neverOnWorker, hasEvent, worker, mLastError, isSignaled, notification,
                   exit, registered, osBudget>>

(* Every operation that reads a budget updates it first when no            *)
(* notifications arrive.                                                   *)
ClientPolls ==
    /\ manager = "alive" /\ IsBudgetNotificationUpdatesDisabled
    /\ budget' = osBudget
    /\ UNCHANGED <<neverOnWorker, manager, hasEvent, worker, mLastError, isSignaled,
                   notification, exit, registered, osBudget>>

(* The last reference to the manager is released.                          *)
Destroy ==
    /\ manager = "alive"
    /\ manager' = "destroying"
    /\ UNCHANGED <<neverOnWorker, budget, hasEvent, worker, mLastError, isSignaled,
                   notification, exit, registered, osBudget>>

(* Mutant: the notifications go on while the worker is told to exit.       *)
Unregister_Forgotten ==
    /\ manager = "destroying" /\ hasEvent
    /\ manager' = "unregistered"
    /\ UNCHANGED <<neverOnWorker, budget, hasEvent, worker, mLastError, isSignaled,
                   notification, exit, registered, osBudget>>

(* StopBudgetNotificationUpdates of ~ResidencyManager returns early        *)
(* without a worker.                                                       *)
NothingToStop ==
    /\ manager = "destroying" /\ ~hasEvent
    /\ manager' = "destroyed"
    /\ UNCHANGED <<neverOnWorker, budget, hasEvent, worker, mLastError, isSignaled,
                   notification, exit, registered, osBudget>>

UnregisterVideoMemoryBudgetChangeNotification ==
    /\ manager = "destroying" /\ hasEvent
    /\ manager' = "unregistered" /\ registered' = FALSE
    /\ UNCHANGED <<neverOnWorker, budget, hasEvent, worker, mLastError, isSignaled,
                   notification, exit, osBudget>>

SetUnregisterAndExitEvent ==
    /\ manager = "unregistered"
    /\ manager' = "waiting" /\ exit' = TRUE
    /\ UNCHANGED <<neverOnWorker, budget, hasEvent, worker, mLastError, isSignaled,
                   notification, registered, osBudget>>

(* Mutant: the destructor does not wait for the event.                     *)
WaitReturns_AtOnce == TRUE

(* AsyncEventImpl::Wait returns.                                           *)
WaitReturns == isSignaled

StopReturns ==
    /\ manager = "waiting" /\ WaitReturns
    /\ manager' = "destroyed" /\ hasEvent' = FALSE
    /\ UNCHANGED <<neverOnWorker, budget, worker, mLastError, isSignaled, notification,
                   exit, registered, osBudget>>

-----------------------------------------------------------------------------
(* operator(): the loop is entered unless the registration failed.         *)
WorkerStarts ==
    /\ worker = "starting"
    /\ worker' = IF FAILED(mLastError) THEN "failed" ELSE "waiting"
    /\ UNCHANGED <<neverOnWorker, manager, budget, hasEvent, mLastError, isSignaled,
                   notification, exit, registered, osBudget>>

(* WaitForMultipleObjects returns WAIT_OBJECT_0 + 0.                       *)
WorkerIsNotified ==
    /\ worker = "waiting" /\ notification
    /\ worker' = "updating" /\ notification' = FALSE
    /\ UNCHANGED <<neverOnWorker, manager, budget, hasEvent, mLastError, isSignaled, exit,
                   registered, osBudget>>

(* It returns WAIT_OBJECT_0 + 1.                                           *)
WorkerIsToldToExit ==
    /\ worker = "waiting" /\ ~notification /\ exit
    /\ worker' = "exiting" /\ exit' = FALSE
    /\ UNCHANGED <<neverOnWorker, manager, budget, hasEvent, mLastError, isSignaled,
                   notification, registered, osBudget>>

(* Mutant: the case of the notification falls through to the exit.         *)
AfterUpdate_Exits == "exiting"

(* Where a successful update takes the loop.                               *)
AfterUpdate == "waiting"

(* UpdateMemorySegments on the worker; a failure ends the loop.            *)
WorkerUpdates ==
    /\ worker = "updating"
    /\ \/ worker' = AfterUpdate /\ budget' = osBudget
       \/ worker' = "failed" /\ UNCHANGED budget
    /\ UNCHANGED <<neverOnWorker, manager, hasEvent, mLastError, isSignaled, notification,
                   exit, registered, osBudget>>

(* SetLastError(hr), then the thread signals the event and ends.           *)
WorkerEnds ==
    /\ worker \in {"failed", "exiting"}
    /\ worker' = "ended" /\ isSignaled' = TRUE
    /\ mLastError' = IF worker = "failed" THEN E_FAIL ELSE S_OK
    /\ UNCHANGED <<neverOnWorker, manager, budget, hasEvent, notification, exit,
                   registered, osBudget>>

(* External: the OS changes the budget and DXGI signals the event.         *)
OsChangesBudget ==
    /\ osBudget' \in OsBudgets \ {osBudget}
    /\ notification' = (notification \/ registered)
    /\ UNCHANGED <<neverOnWorker, manager, budget, hasEvent, worker, mLastError,
                   isSignaled, exit, registered>>

-----------------------------------------------------------------------------
WorkerSteps == WorkerStarts \/ WorkerIsNotified \/ WorkerIsToldToExit \/ WorkerUpdates \/ WorkerEnds
StopSteps ==
    \/ NothingToStop \/ UnregisterVideoMemoryBudgetChangeNotification
    \/ SetUnregisterAndExitEvent \/ StopReturns

Next ==
    \/ StartBudgetNotificationUpdates \/ StartWithoutWorker \/ SetInitialLimits
    \/ ClientPolls \/ Destroy \/ StopSteps
    \/ WorkerSteps \/ OsChangesBudget

(* The OS scheduler runs the worker and the thread that destroys the       *)
(* manager; nothing obliges clients or the OS budget to do anything.       *)
Spec == Init /\ [][Next]_vars /\ WF_vars(WorkerSteps) /\ WF_vars(StopSteps)

-----------------------------------------------------------------------------
(* The worker thread, which has a raw pointer to the manager and is        *)
(* detached, never uses a manager that is gone, whichever step of creation *)
(* failed and whenever a last notification arrived.                        *)
NoUseAfterDestroy == manager = "destroyed" => worker \in {"none", "ended"}

(* While notifications are delivered, no budget that lasts goes unnoticed: *)
(* neither one set between the registration and the first query, nor one   *)
(* announced while the worker is still applying the one before.            *)
BudgetIsSeen ==
    \A b \in OsBudgets :
        (manager = "alive" /\ registered /\ osBudget = b)
            ~> (budget = b \/ osBudget # b \/ manager # "alive" \/ FAILED(mLastError))

(* StopBudgetNotificationUpdates returns: the destructor does not wait for *)
(* ever for a worker that failed, has not started yet or is kept busy by   *)
(* budgets that keep changing.                                             *)
DestructorReturns == manager = "destroying" ~> manager = "destroyed"

(* What the comment of StartBudgetNotificationUpdates and its callers rely *)
(* on: when the worker could not register, or has given up, the operations *)
(* poll the budget themselves.  BudgetUpdateEvent::GetLastError breaks it. *)
FailureIsNoticed ==
    (manager = "alive" /\ FAILED(mLastError)) => IsBudgetNotificationUpdatesDisabled
=============================================================================
