---------------------------- MODULE Microservice ----------------------------
(***************************************************************************)
(* The periodic worker of src/src/service/Microservice.cpp: a FreeRTOS     *)
(* task that runs `operation' between a take and a give of a binary        *)
(* semaphore and then sleeps for `interval'; suspend() and resume() are a  *)
(* take and a give of the same semaphore by another task; the destructor   *)
(* deletes the task wherever it is and then the semaphore.                 *)
(*                                                                         *)
(* Callers are Controllers that keep to the order the class is written     *)
(* for: construct, start, suspend/resume in pairs, destroy with no other   *)
(* call in flight.                                                         *)
(***************************************************************************)
EXTENDS Naturals

CONSTANT Controllers

\* No controller is confused with the other holders of the turn.
ASSUME ControllersAreTasks == Controllers \cap {"free", "operation"} = {}

VARIABLES object,     \* lifetime of the Microservice object
          worker,     \* where the task is in its loop, "none" without a task
          semaphore,  \* tokens in taskSemaphore
          controller  \* what each controlling task is doing

vars == <<object, worker, semaphore, controller>>

ObjectStates     == {"absent", "constructed", "started", "destroying"}
WorkerStates     == {"none", "take", "operation", "give", "delay"}
ControllerStates == {"idle", "suspending", "holding", "destroying", "deleted"}

TypeOK ==
    /\ object \in ObjectStates
    /\ worker \in WorkerStates
    /\ semaphore \in {0, 1}
    /\ controller \in [Controllers -> ControllerStates]

Init ==
    /\ object = "absent"
    /\ worker = "none"
    /\ semaphore = 0
    /\ controller = [c \in Controllers |-> "idle"]

-----------------------------------------------------------------------------
\* FreeRTOS, as Microservice.cpp uses it.

\* xSemaphoreTake(.., portMAX_DELAY): blocks until there is a token.
Take == semaphore = 1 /\ semaphore' = 0

\* xSemaphoreGive: a full binary semaphore stays full.
Give == semaphore' = 1

Becomes(c, from, to) ==
    /\ controller[c] = from
    /\ controller' = [controller EXCEPT ![c] = to]

-----------------------------------------------------------------------------
\* The task.

TaskTake ==
    /\ worker = "take"
    /\ Take
    /\ worker' = "operation"
    /\ UNCHANGED <<object, controller>>

OperationReturns ==
    /\ worker = "operation"
    /\ worker' = "give"
    /\ UNCHANGED <<object, semaphore, controller>>

\* Mutation of TaskGive: the semaphore is not given back.
TaskKeepsToken ==
    /\ worker = "give"
    /\ worker' = "delay"
    /\ UNCHANGED <<object, semaphore, controller>>

TaskGive ==
    /\ worker = "give"
    /\ Give
    /\ worker' = "delay"
    /\ UNCHANGED <<object, controller>>

IntervalOver ==
    /\ worker = "delay"
    /\ worker' = "take"
    /\ UNCHANGED <<object, semaphore, controller>>

TaskStep == TaskTake \/ OperationReturns \/ TaskGive \/ IntervalOver

-----------------------------------------------------------------------------
\* The object's operations.

Construct(c) ==
    /\ object = "absent"
    /\ controller[c] = "idle"
    /\ object' = "constructed"
    /\ UNCHANGED <<worker, semaphore, controller>>

\* Mutation of Start: the new binary semaphore is not given.
StartEmpty(c) ==
    /\ object = "constructed"
    /\ controller[c] = "idle"
    /\ object' = "started"
    /\ semaphore' = 0
    /\ worker' \in {"take", "none"}
    /\ UNCHANGED controller

\* Mutation of Start: a counting semaphore, created with a token and given one.
StartCounting(c) ==
    /\ object = "constructed"
    /\ controller[c] = "idle"
    /\ object' = "started"
    /\ semaphore' = 2
    /\ worker' \in {"take", "none"}
    /\ UNCHANGED controller

\* The semaphore is created empty and given once.  The result of xTaskCreate
\* is not looked at: without memory for the stack there is no task.
Start(c) ==
    /\ object = "constructed"
    /\ controller[c] = "idle"
    /\ object' = "started"
    /\ semaphore' = 1
    /\ worker' \in {"take", "none"}
    /\ UNCHANGED controller

SuspendCall(c) ==
    /\ object = "started"
    /\ Becomes(c, "idle", "suspending")
    /\ UNCHANGED <<object, worker, semaphore>>

\* Mutation of SuspendReturn: suspend() returns without the semaphore.
SuspendUnlocked(c) ==
    /\ Becomes(c, "suspending", "holding")
    /\ UNCHANGED <<object, worker, semaphore>>

SuspendReturn(c) ==
    /\ Take
    /\ Becomes(c, "suspending", "holding")
    /\ UNCHANGED <<object, worker>>

Resume(c) ==
    /\ object = "started"
    /\ Give
    /\ Becomes(c, "holding", "idle")
    /\ UNCHANGED <<object, worker>>

\* C++ lets nobody else be inside the object when it is destroyed.
MayDestroy(c) ==
    /\ object = "started"
    /\ controller[c] \in {"idle", "holding"}
    /\ \A d \in Controllers \ {c} : controller[d] \in {"idle", "deleted"}

\* vTaskDelete(taskHandle): the task ends where it is, mid-operation included.
DeleteTask(c) ==
    /\ MayDestroy(c)
    /\ worker # "none"
    /\ object' = "destroying"
    /\ worker' = "none"
    /\ controller' = [controller EXCEPT ![c] = "destroying"]
    /\ UNCHANGED semaphore

\* vTaskDelete of a handle xTaskCreate never wrote: the null handle deletes
\* the calling task, any other value ends in a reboot.
DeleteMissingTask(c) ==
    /\ MayDestroy(c)
    /\ worker = "none"
    /\ \/ /\ object' = "destroying"
          /\ controller' = [controller EXCEPT ![c] = "deleted"]
          /\ UNCHANGED <<worker, semaphore>>
       \/ /\ object' = "absent"
          /\ worker' = "none"
          /\ semaphore' = 0
          /\ controller' = [d \in Controllers |-> "idle"]

DeleteSemaphore(c) ==
    /\ object = "destroying"
    /\ Becomes(c, "destroying", "idle")
    /\ object' = "absent"
    /\ semaphore' = 0
    /\ UNCHANGED worker

ControllerStep(c) ==
    \/ Construct(c) \/ Start(c)
    \/ SuspendCall(c) \/ SuspendReturn(c) \/ Resume(c)
    \/ DeleteTask(c) \/ DeleteMissingTask(c) \/ DeleteSemaphore(c)

Next == TaskStep \/ \E c \in Controllers : ControllerStep(c)

(***************************************************************************)
(* Operations return and controllers resume what they suspended.  A give   *)
(* readies the task that has waited longest, and the giver goes on to its  *)
(* delay, so a waiter that finds a token again and again gets one.         *)
(***************************************************************************)
Fairness ==
    /\ SF_vars(TaskTake)
    /\ WF_vars(OperationReturns) /\ WF_vars(TaskGive) /\ WF_vars(IntervalOver)
    /\ \A c \in Controllers : SF_vars(SuspendReturn(c)) /\ WF_vars(Resume(c))

Spec     == Init /\ [][Next]_vars
FairSpec == Spec /\ Fairness

-----------------------------------------------------------------------------
\* Properties.

Running == worker \in {"operation", "give"}
Holders == {c \in Controllers : controller[c] = "holding"}

\* While a controller holds the suspension the operation does not run: the
\* task is never between its take and its give, whatever the two did before.
Exclusion == Holders # {} => ~Running

\* At most one controller holds the suspension.
OneHolder == \A c, d \in Holders : c = d

\* The token is never lost or doubled while the object is in use: it is in
\* the semaphore exactly when neither the task nor a controller has it.
TokenConserved ==
    object = "started" => (semaphore = 1 <=> ~Running /\ Holders = {})

\* suspend() returns (or its caller's object is gone).
SuspendReturns ==
    \A c \in Controllers : controller[c] = "suspending" ~> controller[c] # "suspending"

\* A task that waits for its turn runs its operation again.
OperationRecurs == worker = "take" ~> worker # "take"

\* The service is a task that its controllers can pause.
Turn == IF Running THEN "operation"
        ELSE IF Holders # {} THEN CHOOSE c \in Holders : TRUE
        ELSE "free"

Abstract == INSTANCE PausableTask WITH exists <- object = "started", turn <- Turn

ImplementsPausableTask == Abstract!Spec
=============================================================================
