------------------------- MODULE MicroserviceProofs -------------------------
(***************************************************************************)
(* For every set of controllers: the state of a service is well typed, its *)
(* operation never overlaps a suspension, its token is conserved, a        *)
(* suspended task is never cut in mid-operation, and the service           *)
(* implements PausableTask.                                                *)
(***************************************************************************)
EXTENDS Microservice, TLAPS

\* Outside the life of a started object nobody runs, waits or holds.
Lifetime ==
    object # "started" =>
        /\ worker = "none"
        /\ \A c \in Controllers : controller[c] \notin {"suspending", "holding"}

\* The inductive invariant.  Exclusion alone is not inductive: that a take
\* succeeds only when nobody has the token is TokenConserved, that a second
\* controller cannot hold it is OneHolder, and that nothing survives the
\* destruction of the object is Lifetime.
IInv == TypeOK /\ Exclusion /\ OneHolder /\ TokenConserved /\ Lifetime

USE DEF ObjectStates, WorkerStates, ControllerStates

-----------------------------------------------------------------------------
\* No object, no task, nobody holding: the invariant at power-on.
LEMMA InitInvariant == Init => IInv
  BY DEF Init, IInv, TypeOK, Exclusion, OneHolder, TokenConserved, Lifetime,
         Running, Holders

\* Every step of the task and of a controller keeps the state in range.
LEMMA TypeStep == TypeOK /\ [Next]_vars => TypeOK'
<1> SUFFICES ASSUME TypeOK, [Next]_vars PROVE TypeOK'
  OBVIOUS
<1>1. CASE UNCHANGED vars
  BY <1>1 DEF TypeOK, vars
<1>2. CASE TaskStep
  BY <1>2 DEF TypeOK, TaskStep, TaskTake, OperationReturns, TaskGive,
              IntervalOver, Take, Give
<1>3. ASSUME NEW c \in Controllers, ControllerStep(c) PROVE TypeOK'
  <2>1. CASE Construct(c) \/ Start(c)
    BY <2>1 DEF TypeOK, Construct, Start
  <2>2. CASE SuspendCall(c) \/ SuspendReturn(c) \/ Resume(c)
    BY <2>2 DEF TypeOK, SuspendCall, SuspendReturn, Resume, Becomes, Take, Give
  <2>3. CASE DeleteTask(c)
    BY <2>3 DEF TypeOK, DeleteTask
  <2>4. CASE DeleteMissingTask(c)
    BY <2>4 DEF TypeOK, DeleteMissingTask
  <2>5. CASE DeleteSemaphore(c)
    BY <2>5 DEF TypeOK, DeleteSemaphore, Becomes
  <2> QED
    BY <1>3, <2>1, <2>2, <2>3, <2>4, <2>5 DEF ControllerStep
<1> QED
  BY <1>1, <1>2, <1>3 DEF Next

\* ... and keeps the operation apart from the suspensions, one action at a time.
LEMMA InvariantStep == IInv /\ [Next]_vars => IInv'
<1> SUFFICES ASSUME IInv, [Next]_vars
             PROVE (Exclusion /\ OneHolder /\ TokenConserved /\ Lifetime)'
  BY TypeStep DEF IInv
<1> USE DEF IInv, TypeOK, Exclusion, OneHolder, TokenConserved, Lifetime,
            Running, Holders
<1>1. CASE UNCHANGED vars
  BY <1>1 DEF vars
<1>2. CASE TaskTake
  BY <1>2 DEF TaskTake, Take
<1>3. CASE OperationReturns
  BY <1>3 DEF OperationReturns
<1>4. CASE TaskGive
  BY <1>4 DEF TaskGive, Give
<1>5. CASE IntervalOver
  BY <1>5 DEF IntervalOver
<1>6. ASSUME NEW c \in Controllers, ControllerStep(c)
      PROVE (Exclusion /\ OneHolder /\ TokenConserved /\ Lifetime)'
  <2>1. CASE Construct(c)
    BY <2>1 DEF Construct
  <2>2. CASE Start(c)
    BY <2>2 DEF Start
  <2>3. CASE SuspendCall(c)
    BY <2>3 DEF SuspendCall, Becomes
  <2>4. CASE SuspendReturn(c)
    BY <2>4 DEF SuspendReturn, Becomes, Take
  <2>5. CASE Resume(c)
    BY <2>5 DEF Resume, Becomes, Give
  <2>6. CASE DeleteTask(c)
    BY <2>6 DEF DeleteTask, MayDestroy
  <2>7. CASE DeleteMissingTask(c)
    BY <2>7 DEF DeleteMissingTask, MayDestroy
  <2>8. CASE DeleteSemaphore(c)
    BY <2>8 DEF DeleteSemaphore, Becomes
  <2> QED
    BY <1>6, <2>1, <2>2, <2>3, <2>4, <2>5, <2>6, <2>7, <2>8 DEF ControllerStep
<1> QED
  BY <1>1, <1>2, <1>3, <1>4, <1>5, <1>6 DEF Next, TaskStep

\* The inductive invariant holds in every state of a service.
LEMMA Invariance == Spec => []IInv
<1>1. Init => IInv
  BY InitInvariant
<1>2. IInv /\ [Next]_vars => IInv'
  BY InvariantStep
<1> QED
  BY <1>1, <1>2, PTL DEF Spec

-----------------------------------------------------------------------------
\* Microservice.cpp keeps its state in range for any number of callers.
THEOREM TypeCorrect == Spec => []TypeOK
<1>1. IInv => TypeOK
  BY DEF IInv
<1> QED
  BY <1>1, Invariance, PTL

\* The operation of task() never overlaps a suspend()/resume() pair.
THEOREM OperationExcludesSuspension == Spec => []Exclusion
<1>1. IInv => Exclusion
  BY DEF IInv
<1> QED
  BY <1>1, Invariance, PTL

\* taskSemaphore has its token exactly when nobody else has it.
THEOREM TokenIsConserved == Spec => []TokenConserved
<1>1. IInv => TokenConserved
  BY DEF IInv
<1> QED
  BY <1>1, Invariance, PTL

-----------------------------------------------------------------------------
\* The refinement mapping.

\* A controller that holds the suspension has the turn.
LEMMA TurnOfHolder ==
  ASSUME NEW c \in Controllers, OneHolder, ~Running, controller[c] = "holding"
  PROVE  Turn = c
  BY DEF OneHolder, Turn, Holders

\* When neither the task nor a controller is inside, the turn is free.
LEMMA TurnFree ==
  ASSUME ~Running, Holders = {}
  PROVE  Turn = "free"
  BY DEF Turn

\* The service that is not started is the abstract task that does not exist.
LEMMA InitRefines == Init => Abstract!Init
  BY DEF Init, Abstract!Init, Turn, Running, Holders

\* TurnOfHolder of the state after a step.
LEMMA TurnOfHolderNext ==
  ASSUME NEW c \in Controllers, OneHolder', ~Running', controller'[c] = "holding"
  PROVE  Turn' = c
  BY DEF OneHolder, Turn, Holders

\* TurnFree of the state after a step.
LEMMA TurnFreeNext ==
  ASSUME ~Running', Holders' = {}
  PROVE  Turn' = "free"
  BY DEF Turn

\* A step that changes neither who runs nor who holds leaves the turn alone.
LEMMA TurnKept ==
  ASSUME Running' <=> Running, Holders' = Holders
  PROVE  Turn' = Turn
  BY DEF Turn

\* task(): its take begins the abstract operation, its give ends it.
LEMMA TaskStepRefines ==
  ASSUME IInv, IInv', TaskStep
  PROVE  [Abstract!Next]_(Abstract!vars)
<1> USE DEF IInv, Lifetime, Abstract!Next, Abstract!vars
<1>1. CASE TaskTake
  <2>1. Turn = "free" /\ object = "started"
    BY <1>1, TurnFree DEF TaskTake, Take, TokenConserved
  <2>2. Turn' = "operation" /\ object' = "started"
    BY <1>1, <2>1 DEF TaskTake, Turn, Running
  <2> QED
    BY <2>1, <2>2 DEF Abstract!Begin, Abstract!Pass
<1>2. CASE OperationReturns \/ IntervalOver
  <2>1. (Running' <=> Running) /\ Holders' = Holders /\ object' = object
    BY <1>2 DEF OperationReturns, IntervalOver, Running, Holders
  <2> QED
    BY <2>1, TurnKept
<1>3. CASE TaskGive
  <2>1. Running /\ Turn = "operation" /\ object = "started"
    BY <1>3 DEF TaskGive, Turn, Running
  <2>2. ~Running' /\ Holders' = {} /\ object' = "started"
    BY <1>3, <2>1 DEF TaskGive, Running, Holders, Exclusion
  <2> QED
    BY <2>1, <2>2, TurnFreeNext DEF Abstract!End, Abstract!Pass
<1> QED
  BY <1>1, <1>2, <1>3 DEF TaskStep

\* suspend() pauses, resume() unpauses, the destructor destroys.
LEMMA ControllerStepRefines ==
  ASSUME IInv, IInv', NEW c \in Controllers, ControllerStep(c)
  PROVE  [Abstract!Next]_(Abstract!vars)
<1> USE DEF IInv, TypeOK, Lifetime, Abstract!Next, Abstract!vars
<1>1. CASE Construct(c)
  <2>1. (Running' <=> Running) /\ Holders' = Holders
    BY <1>1 DEF Construct, Running, Holders
  <2> QED
    BY <1>1, <2>1, TurnKept DEF Construct
<1>2. CASE Start(c)
  <2>1. ~Running' /\ Holders' = {}
    BY <1>2 DEF Start, Running, Holders
  <2> QED
    BY <1>2, <2>1, TurnFreeNext DEF Start, Abstract!Create
<1>3. CASE SuspendCall(c)
  <2>1. (Running' <=> Running) /\ Holders' = Holders
    BY <1>3 DEF SuspendCall, Becomes, Running, Holders
  <2> QED
    BY <1>3, <2>1, TurnKept DEF SuspendCall
<1>4. CASE SuspendReturn(c)
  <2>1. object = "started" /\ object' = "started"
    BY <1>4 DEF SuspendReturn, Becomes
  <2>2. ~Running /\ Holders = {}
    BY <1>4, <2>1 DEF SuspendReturn, Take, TokenConserved
  <2>3. ~Running' /\ controller'[c] = "holding"
    BY <1>4, <2>2 DEF SuspendReturn, Becomes, Running
  <2>4. Turn = "free" /\ Turn' = c
    BY <2>2, <2>3, TurnFree, TurnOfHolderNext
  <2> QED
    BY <2>1, <2>4 DEF Abstract!Pause, Abstract!Pass
<1>5. CASE Resume(c)
  <2>1. object = "started" /\ object' = "started" /\ controller[c] = "holding"
    BY <1>5 DEF Resume, Becomes
  <2>2. ~Running /\ ~Running'
    BY <1>5, <2>1 DEF Resume, Running, Exclusion, Holders
  <2>3. Holders' = {}
    BY <1>5, <2>1 DEF Resume, Becomes, Holders, OneHolder
  <2>4. Turn = c /\ Turn' = "free"
    BY <2>1, <2>2, <2>3, TurnOfHolder, TurnFreeNext
  <2> QED
    BY <2>1, <2>4 DEF Abstract!Unpause, Abstract!Pass
<1>6. CASE DeleteTask(c) \/ DeleteMissingTask(c)
  <2>1. object = "started" /\ object' # "started"
    BY <1>6 DEF DeleteTask, DeleteMissingTask, MayDestroy
  <2>2. ~Running' /\ Holders' = {}
    BY <2>1 DEF Running, Holders
  <2> QED
    BY <2>1, <2>2, TurnFreeNext DEF Abstract!Destroy
<1>7. CASE DeleteSemaphore(c)
  <2>1. object # "started" /\ object' # "started"
    BY <1>7 DEF DeleteSemaphore
  <2>2. (Running' <=> Running) /\ Holders' = Holders
    BY <2>1 DEF Running, Holders
  <2> QED
    BY <2>1, <2>2, TurnKept
<1> QED
  BY <1>1, <1>2, <1>3, <1>4, <1>5, <1>6, <1>7 DEF ControllerStep

\* Every step of the service is a step of PausableTask or a stutter.
LEMMA NextRefines ==
  ASSUME IInv, IInv', [Next]_vars
  PROVE  [Abstract!Next]_(Abstract!vars)
<1>1. CASE UNCHANGED vars
  <2>1. (Running' <=> Running) /\ Holders' = Holders /\ object' = object
    BY <1>1 DEF vars, Running, Holders
  <2> QED
    BY <2>1, TurnKept DEF Abstract!vars
<1>2. CASE Next
  BY <1>2, TaskStepRefines, ControllerStepRefines DEF Next
<1> QED
  BY <1>1, <1>2

\* A service is a periodic task that its controllers can pause: every step of
\* the code is a step of PausableTask or leaves its state alone.
THEOREM ServiceIsPausableTask == Spec => ImplementsPausableTask
<1>1. Init => Abstract!Init
  BY InitRefines
<1>2. IInv /\ IInv' /\ [Next]_vars => [Abstract!Next]_(Abstract!vars)
  BY NextRefines
<1> QED
  BY <1>1, <1>2, Invariance, PTL DEF Spec, ImplementsPausableTask, Abstract!Spec
=============================================================================
