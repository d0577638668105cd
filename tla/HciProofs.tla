----------------------------- MODULE HciProofs ------------------------------
(***************************************************************************)
(* For any number of tasks and opcodes: one acknowledgement at a time in   *)
(* the semaphore always; and, until an acknowledgement comes late, every   *)
(* command takes its own and frees it.  The commands implement             *)
(* SerialCommands.                                                         *)
(***************************************************************************)
EXTENDS Hci, TLAPS

(* ------------------------------- Types --------------------------------- *)

\* A message that has grown old is still one.
LEMMA OldAckType ==
    ASSUME NEW a \in Ack \cup {NULL}
    PROVE  OldAck(a) \in Ack \cup {NULL} /\ (a = NULL <=> OldAck(a) = NULL)
<1>1. ASSUME a # NULL PROVE Old(a) \in Ack
  BY <1>1 DEF Old, Ack
<1> QED
  BY <1>1, NullIsNoAck DEF OldAck

LEMMA OldQueueType ==
    ASSUME NEW q \in Seq(Command), NEW c \in Command
    PROVE  Append([i \in DOMAIN q |-> Old(q[i])], c) \in Seq(Command)
<1>1. \A m \in Command : Old(m) \in Command
  BY DEF Old, Command
<1>2. [i \in DOMAIN q |-> Old(q[i])] \in Seq(Command)
  BY <1>1
<1> QED
  BY <1>2

(* ----------------------- However late the answers ----------------------- *)

\* The tasks past ble_hs_hci_lock are the one that holds the mutex.
Exclusive == \A t \in Tasks : pc[t] \in Inside <=> mutex = t

\* Of BuffersAccounted, what lateness does not touch.
FreedOnce == held >= ToFree

Base == TypeOK /\ Exclusive /\ FreedOnce /\ OneToken

LEMMA BaseInit == Init => Base
<1> SUFFICES ASSUME Init PROVE Base
  OBVIOUS
<1>1. <<>> \in Seq(Command)
  OBVIOUS
<1>2. TypeOK
  BY <1>1 DEF Init, TypeOK, PCs, Results
<1>3. Exclusive
  BY NullIsNoAck DEF Init, Exclusive, Inside
<1>4. FreedOnce /\ OneToken
  BY DEF Init, FreedOnce, ToFree, OneToken
<1> QED
  BY <1>2, <1>3, <1>4 DEF Base

LEMMA BaseReboot == Reboot /\ Base => Base'
<1> SUFFICES ASSUME Reboot, Base PROVE Base'
  OBVIOUS
<1>1. <<>> \in Seq(Command)
  OBVIOUS
<1>2. TypeOK'
  BY <1>1 DEF Base, Reboot, TypeOK, PCs, Results
<1>3. Exclusive'
  BY NullIsNoAck DEF Reboot, Exclusive, Inside
<1>4. FreedOnce' /\ OneToken'
  BY DEF Reboot, FreedOnce, ToFree, OneToken
<1> QED
  BY <1>2, <1>3, <1>4 DEF Base

LEMMA BaseStep == Base /\ [Next]_vars => Base'
<1> SUFFICES ASSUME Base, [Next]_vars PROVE Base'
  OBVIOUS
<1> USE NullIsNoAck DEF Base, TypeOK, Exclusive, FreedOnce, ToFree, OneToken,
        At, Result, PCs, Inside, Results, taskVars, rxVars
<1>1. ASSUME NEW t \in Tasks, NEW o \in Opcodes, Call(t, o) PROVE Base'
  BY <1>1 DEF Call
<1>2. ASSUME NEW t \in Tasks, Lock(t) PROVE Base'
  BY <1>2 DEF Lock
<1>3. ASSUME NEW t \in Tasks, NotSent(t) PROVE Base'
  BY <1>3 DEF NotSent
<1>4. ASSUME NEW t \in Tasks, Send(t) PROVE Base'
  <2>1. [op |-> op[t], live |-> TRUE] \in Command
    BY DEF Command
  <2>2. queue' \in Seq(Command)
    BY <1>4, <2>1, OldQueueType DEF Send
  <2>3. rxEv' \in Ack \cup {NULL} /\ ack' \in Ack \cup {NULL} /\ (ack = NULL <=> ack' = NULL)
    BY <1>4, OldAckType DEF Send
  <2> QED
    BY <1>4, <2>2, <2>3 DEF Send
<1>5. ASSUME NEW t \in Tasks, Woken(t) PROVE Base'
  BY <1>5 DEF Woken
<1>6. ASSUME NEW t \in Tasks, Timeout(t) PROVE Base'
  BY <1>6 DEF Timeout
<1>7. ASSUME NEW t \in Tasks, Process(t) PROVE Base'
  <2>1. Outcome(op[t], ack) \in Results
    BY DEF Outcome
  <2>2. reset' \in BOOLEAN
    BY <1>7 DEF Process
  <2> QED
    BY <1>7, <2>1, <2>2 DEF Process
<1>8. ASSUME NEW t \in Tasks, FreeAck(t) PROVE Base'
  <2>1. \A u \in Tasks : pc[u] # "clear"
    BY <1>8 DEF FreeAck
  <2>2. held' \in Nat
    BY <1>8, <2>1 DEF FreeAck
  <2> QED
    BY <1>8, <2>1, <2>2 DEF FreeAck
<1>9. ASSUME NEW t \in Tasks, ClearAck(t) PROVE Base'
  BY <1>9 DEF ClearAck
<1>10. ASSUME NEW t \in Tasks, Unlock(t) PROVE Base'
  BY <1>10 DEF Unlock
<1>11. CASE Ready \/ DataPacket \/ HandleReset
  BY <1>11 DEF Ready, DataPacket, HandleReset
<1>12. CASE LoseCommand
  BY <1>12 DEF LoseCommand
<1>13. ASSUME NEW reply \in Replies, Answer(reply) PROVE Base'
  <2>1. Head(queue) \in Command /\ Tail(queue) \in Seq(Command)
    BY <1>13 DEF Answer
  <2>2. rxEv' \in Ack
    BY <1>13, <2>1 DEF Answer, Ack, Command
  <2> QED
    BY <1>13, <2>1, <2>2 DEF Answer
<1>14. CASE RxCheck
  BY <1>14 DEF RxCheck
<1>15. CASE RxStore
  BY <1>15 DEF RxStore
<1>16. CASE RxRelease
  BY <1>16 DEF RxRelease
<1>17. CASE UNCHANGED vars
  BY <1>17 DEF vars
<1>18. CASE Reboot
  BY <1>18, BaseReboot
<1> QED
  BY <1>1, <1>2, <1>3, <1>4, <1>5, <1>6, <1>7, <1>8, <1>9, <1>10, <1>11, <1>12,
     <1>13, <1>14, <1>15, <1>16, <1>17, <1>18
  DEF Next, Step, Controller, Rx, NullRead, PoolEmpty

\* Every value stays in its type.
THEOREM TypeCorrect == Spec => []TypeOK
<1>1. Base => TypeOK
  BY DEF Base
<1> QED
  BY BaseInit, BaseStep, <1>1, PTL DEF Spec

\* ble_hs_hci_sem never counts a second acknowledgement, although its limit is
\* 128 and rx_ack reads its count and raises it in two steps.
THEOREM OneTokenOnly == Spec => []OneToken
<1>1. Base => OneToken
  BY DEF Base
<1> QED
  BY BaseInit, BaseStep, <1>1, PTL DEF Spec

(* -------------------- When no answer comes too late --------------------- *)

\* No command and no acknowledgement is on its way, or waits to be taken.
Quiet == queue = <<>> /\ rxAt = "idle" /\ sem = 0

Own(t, a) == a \in Ack /\ a.op = op[t] /\ a.live

\* Between the command and the wakeup, its acknowledgement is in one place: at
\* the controller, with the controller's task, stored, or lost.
Waiting(t) ==
    \/ Quiet /\ ack = NULL
    \/ queue = <<[op |-> op[t], live |-> TRUE]>> /\ rxAt = "idle" /\ sem = 0 /\ ack = NULL
    \/ queue = <<>> /\ rxAt \in {"check", "store"} /\ Own(t, rxEv) /\ sem = 0 /\ ack = NULL
    \/ queue = <<>> /\ rxAt = "release" /\ Own(t, ack) /\ sem = 0
    \/ queue = <<>> /\ rxAt = "idle" /\ Own(t, ack) /\ sem = 1

Phase(t) ==
    /\ pc[t] = "send" => Quiet /\ ack = NULL
    /\ pc[t] = "pend" => Waiting(t)
    /\ pc[t] = "process" => Quiet /\ Own(t, ack)
    /\ pc[t] \in {"free", "clear", "unlock"} =>
           Quiet /\ (rc[t] \in {"ok", "status"} => got[t].live /\ got[t].op = op[t])
    /\ pc[t] = "clear" => ack # NULL
    /\ pc[t] = "unlock" => ack = NULL

Holder ==
    /\ mutex = NULL => Quiet /\ ack = NULL
    /\ mutex # NULL => Phase(mutex)

\* The results of a task that is not past the lock say nothing yet.
Kept ==
    held = (IF ack # NULL /\ ~(mutex # NULL /\ pc[mutex] = "clear") THEN 1 ELSE 0)
         + (IF rxAt \in {"check", "store"} THEN 1 ELSE 0)

IInv == Base /\ (~late => Holder /\ Kept)

LEMMA PromptInit == Init => IInv
<1> SUFFICES ASSUME Init PROVE IInv
  OBVIOUS
<1>1. Holder /\ Kept
  BY DEF Init, Holder, Kept, Quiet
<1> QED
  BY <1>1, BaseInit DEF IInv

\* A restart of the chip forgets that an acknowledgement was late, and leaves
\* nothing of it behind.
LEMMA RebootQuiet == Reboot => Holder' /\ Kept'
  BY DEF Reboot, Holder, Kept, Quiet

\* Nothing else does.
LEMMA LateStays == late /\ [Next]_vars => late' \/ Reboot
<1> SUFFICES ASSUME late, [Next]_vars, ~Reboot PROVE late'
  OBVIOUS
<1>1. ASSUME NEW t \in Tasks, NEW o \in Opcodes, Call(t, o) PROVE late'
  BY <1>1 DEF Call
<1>2. ASSUME NEW t \in Tasks, Step(t) PROVE late'
  BY <1>2 DEF Step, Lock, NotSent, Send, Woken, Timeout, Process, NullRead, FreeAck,
       ClearAck, Unlock
<1>3. CASE Ready \/ DataPacket \/ HandleReset
  BY <1>3 DEF Ready, DataPacket, HandleReset
<1>4. CASE Controller
  BY <1>4 DEF Controller, LoseCommand, PoolEmpty, Answer
<1>5. CASE Rx
  BY <1>5 DEF Rx, RxCheck, RxStore, RxRelease
<1>6. CASE UNCHANGED vars
  BY <1>6 DEF vars
<1> QED
  BY <1>1, <1>2, <1>3, <1>4, <1>5, <1>6 DEF Next

LEMMA PromptStep == IInv /\ [Next]_vars => IInv'
<1> SUFFICES ASSUME IInv, [Next]_vars, ~late', ~Reboot PROVE Holder' /\ Kept'
  BY BaseStep, RebootQuiet DEF IInv
<1>0. TypeOK /\ Exclusive /\ Holder /\ Kept /\ FreedOnce /\ OneToken
  BY LateStays DEF IInv, Base
<1> USE NullIsNoAck, <1>0 DEF TypeOK, Exclusive, Holder, Kept, Phase, Waiting, Quiet, Own,
        At, Result, PCs, Inside, Results, taskVars, rxVars
<1>1. ASSUME NEW t \in Tasks, NEW o \in Opcodes, Call(t, o) PROVE Holder' /\ Kept'
  BY <1>1 DEF Call
<1>2. ASSUME NEW t \in Tasks, Lock(t) PROVE Holder' /\ Kept'
  BY <1>2 DEF Lock
<1>3. ASSUME NEW t \in Tasks, NotSent(t) PROVE Holder' /\ Kept'
  BY <1>3 DEF NotSent
<1>4. ASSUME NEW t \in Tasks, Send(t) PROVE Holder' /\ Kept'
  <2>1. mutex = t /\ mutex' = t /\ pc'[t] = "pend" /\ Quiet /\ ack = NULL
    BY <1>4 DEF Send
  <2>2. queue' = <<[op |-> op[t], live |-> TRUE]>>
    <3>1. [i \in DOMAIN queue |-> Old(queue[i])] = <<>>
      BY <2>1
    <3>2. \A x : Append(<< >>, x) = <<x>>
      OBVIOUS
    <3> QED
      BY <1>4, <3>1, <3>2 DEF Send
  <2>3. ack' = NULL /\ rxAt' = "idle" /\ sem' = 0 /\ op' = op /\ held' = held
    BY <1>4, <2>1 DEF Send, OldAck
  <2> QED
    BY <2>1, <2>2, <2>3
<1>5. ASSUME NEW t \in Tasks, Woken(t) PROVE Holder' /\ Kept'
  BY <1>5 DEF Woken
<1>6. ASSUME NEW t \in Tasks, Timeout(t) PROVE Holder' /\ Kept'
  BY <1>6 DEF Timeout
<1>7. ASSUME NEW t \in Tasks, Process(t) PROVE Holder' /\ Kept'
  <2>1. mutex = t /\ Quiet /\ Own(t, ack)
    BY <1>7 DEF Process
  <2>2. got'[t] = ack /\ op' = op
    BY <1>7 DEF Process
  <2> QED
    BY <1>7, <2>1, <2>2 DEF Process
<1>8. ASSUME NEW t \in Tasks, FreeAck(t) PROVE Holder' /\ Kept'
  BY <1>8 DEF FreeAck
<1>9. ASSUME NEW t \in Tasks, ClearAck(t) PROVE Holder' /\ Kept'
  BY <1>9 DEF ClearAck
<1>10. ASSUME NEW t \in Tasks, Unlock(t) PROVE Holder' /\ Kept'
  BY <1>10 DEF Unlock
<1>11. CASE Ready \/ DataPacket \/ HandleReset
  BY <1>11 DEF Ready, DataPacket, HandleReset
\* A command is at the controller only for the task that waits for it.
<1>a. ASSUME queue # <<>>
      PROVE  /\ mutex \in Tasks /\ pc[mutex] = "pend"
             /\ queue = <<[op |-> op[mutex], live |-> TRUE]>>
             /\ rxAt = "idle" /\ sem = 0 /\ ack = NULL /\ held = 0
  BY <1>a
<1>12. CASE LoseCommand
  <2>1. queue' = <<>>
    BY <1>12, <1>a DEF LoseCommand
  <2> QED
    BY <1>12, <1>a, <2>1 DEF LoseCommand
<1>13. ASSUME NEW reply \in Replies, Answer(reply) PROVE Holder' /\ Kept'
  <2>0. queue # <<>>
    BY <1>13 DEF Answer
  <2>1. queue' = <<>> /\ Head(queue) = [op |-> op[mutex], live |-> TRUE]
    BY <1>13, <1>a, <2>0 DEF Answer
  <2>2. rxEv' \in Ack /\ rxEv'.op = op[mutex] /\ rxEv'.live
    <3>1. rxEv' = [op |-> op[mutex], live |-> TRUE, reply |-> reply]
      <4>1. Head(queue).op = op[mutex] /\ Head(queue).live = TRUE
        BY <2>1
      <4> QED
        BY <1>13, <4>1 DEF Answer
    <3>2. mutex \in Tasks /\ op[mutex] \in Opcodes
      BY <1>a, <2>0
    <3> QED
      BY <3>1, <3>2, TRUE \in BOOLEAN DEF Ack
  <2> QED
    BY <1>13, <1>a, <2>1, <2>2 DEF Answer
<1>b. ASSUME rxAt # "idle"
      PROVE  mutex \in Tasks /\ pc[mutex] = "pend"
  BY <1>b
<1>14. CASE RxCheck
  BY <1>14, <1>b DEF RxCheck
<1>15. CASE RxStore
  BY <1>15, <1>b DEF RxStore
<1>16. CASE RxRelease
  BY <1>16, <1>b DEF RxRelease
<1>17. CASE UNCHANGED vars
  BY <1>17 DEF vars
<1> QED
  BY <1>1, <1>2, <1>3, <1>4, <1>5, <1>6, <1>7, <1>8, <1>9, <1>10, <1>11, <1>12,
     <1>13, <1>14, <1>15, <1>16, <1>17
  DEF Next, Step, Controller, Rx, NullRead, PoolEmpty

LEMMA PromptHolds == IInv => OwnAck /\ NoneOverwritten /\ BuffersAccounted
<1> SUFFICES ASSUME IInv, ~late
             PROVE  OwnAck /\ NoneOverwritten /\ held = ToFree
  BY DEF OwnAck, NoneOverwritten, BuffersAccounted, IInv, Base, FreedOnce
<1> USE NullIsNoAck DEF IInv, Base, TypeOK, Exclusive, Holder, Phase, Waiting, Quiet, Own,
        Inside, PCs
<1>1. OwnAck
  BY DEF OwnAck
<1>2. NoneOverwritten
  BY DEF NoneOverwritten
<1>3. held = ToFree
  BY DEF Kept, ToFree
<1> QED
  BY <1>1, <1>2, <1>3

\* Until an acknowledgement comes after its timeout, a task that is woken finds
\* its own, and a command that was answered was answered by its own.
THEOREM PromptOwnAck == Spec => []OwnAck
  BY PromptInit, PromptStep, PromptHolds, PTL DEF Spec

\* ... and no acknowledgement is stored over another.
THEOREM PromptNoneOverwritten == Spec => []NoneOverwritten
  BY PromptInit, PromptStep, PromptHolds, PTL DEF Spec

\* No event buffer is freed twice, and, until then, none is lost.
THEOREM Accounted == Spec => []BuffersAccounted
  BY PromptInit, PromptStep, PromptHolds, PTL DEF Spec

(* ------------------------------ Refinement ------------------------------ *)

\* A task has taken an acknowledgement only once its call ends.
Untaken == \A t \in Tasks : pc[t] \notin Ended => got[t] = NULL

LEMMA UntakenStep == Base /\ Untaken /\ [Next]_vars => Untaken'
<1> SUFFICES ASSUME TypeOK, Untaken, [Next]_vars PROVE Untaken'
  BY DEF Base
<1> USE DEF TypeOK, Untaken, Ended, At, taskVars
<1>1. ASSUME NEW t \in Tasks, NEW o \in Opcodes, Call(t, o) PROVE Untaken'
  BY <1>1 DEF Call
<1>2. ASSUME NEW t \in Tasks, Lock(t) \/ NotSent(t) \/ Send(t) \/ Woken(t) \/ Timeout(t)
      PROVE  Untaken'
  BY <1>2 DEF Lock, NotSent, Send, Woken, Timeout
<1>3. ASSUME NEW t \in Tasks, Process(t) \/ FreeAck(t) \/ ClearAck(t) \/ Unlock(t)
      PROVE  Untaken'
  BY <1>3 DEF Process, FreeAck, ClearAck, Unlock
<1>4. CASE Reboot
  BY <1>4 DEF Reboot
<1>5. CASE Ready \/ DataPacket \/ LoseCommand \/ (\E reply \in Replies : Answer(reply)) \/ Rx
           \/ HandleReset \/ UNCHANGED vars
  BY <1>5 DEF Ready, DataPacket, LoseCommand, Answer, Rx, RxCheck, RxStore, RxRelease,
       HandleReset, vars
<1> QED
  BY <1>1, <1>2, <1>3, <1>4, <1>5 DEF Next, Step, Controller, NullRead, PoolEmpty

\* A task that goes on goes on in the mapped stages, and the others stay.
LEMMA StageOfStep ==
    ASSUME TypeOK, NEW t \in Tasks, NEW to \in PCs, pc' = [pc EXCEPT ![t] = to]
    PROVE  Stages' = [Stages EXCEPT ![t] = Stage(t)']
<1>1. \A u \in Tasks : u # t => Stage(u)' = Stage(u)
  BY DEF TypeOK, Stage
<1> QED
  BY <1>1 DEF Stages

\* Where a step leaves pc alone, all stay.
LEMMA StageKept ==
    ASSUME pc' = pc
    PROVE  Stages' = Stages
  BY DEF Stages, Stage

\* The command in progress is the one of the task that holds the mutex.
LEMMA Entered ==
    ASSUME Base, NEW t \in Tasks, pc[t] \in Inside
    PROVE  mutex = t /\ mutex # NULL
  BY NullIsNoAck DEF Base, Exclusive

\* The answer does not change where its place does not.
LEMMA AnswerKept ==
    ASSUME late' = late, mutex' = mutex, mutex # NULL => InHand' = InHand
    PROVE  Answered' = Answered
  BY DEF Answered

\* While a command waits, what there is for it is with the controller's task
\* or stored.
LEMMA InHandBusy ==
    ASSUME pc[mutex] \notin Ended
    PROVE  InHand = IF rxAt \in {"check", "store"} THEN rxEv ELSE ack
  BY DEF InHand

\* A call, the mutex, and what of the command stays with the task.
LEMMA CallRefines ==
    ASSUME IInv, IInv', Untaken, NEW t \in Tasks, NEW o \in Opcodes, Call(t, o)
    PROVE  Serial!Call(t)
<1> USE DEF IInv, Base, TypeOK, Call, At, taskVars, rxVars
<1>1. Stages' = [Stages EXCEPT ![t] = Stage(t)']
  BY StageOfStep DEF PCs
<1>2. Stage(t)' = "waiting" /\ Stage(t) = "idle"
  BY DEF Stage, Ended
<1>3. mutex # t
  BY DEF Exclusive, Inside
<1>4. Answered' = Answered
  BY <1>3, AnswerKept DEF InHand
<1> QED
  BY <1>1, <1>2, <1>4 DEF Serial!Call, Serial!Moves, Stages

LEMMA LockRefines ==
    ASSUME IInv, IInv', Untaken, NEW t \in Tasks, Lock(t)
    PROVE  Serial!Begin(t)
<1> USE DEF IInv, Base, TypeOK, Lock, At, taskVars, rxVars
<1>1. Stages' = [Stages EXCEPT ![t] = Stage(t)']
  BY StageOfStep DEF PCs
<1>2. Stage(t)' = "busy" /\ Stages[t] = "waiting"
  BY DEF Stage, Stages, Ended
<1>3. \A u \in Tasks : Stages[u] \notin {"busy", "done"}
  <2>1. \A u \in Tasks : pc[u] \in {"idle", "lock"}
    BY NullIsNoAck DEF Exclusive, Inside, PCs
  <2>2. ASSUME NEW u \in Tasks PROVE Stage(u) \notin {"busy", "done"}
    BY <2>1 DEF Stage, Ended
  <2> QED
    BY <2>2 DEF Stages
<1>4. Answered = NULL /\ Answered' = NULL
  BY DEF Answered, InHand, Holder, Quiet, Ended
<1> QED
  BY <1>1, <1>2, <1>3, <1>4 DEF Serial!Begin, Serial!Moves

LEMMA NotSentRefines ==
    ASSUME IInv, IInv', Untaken, NEW t \in Tasks, NotSent(t)
    PROVE  Serial!Unsent(t)
<1> USE DEF IInv, Base, TypeOK, NotSent, At, Result, taskVars, rxVars
<1>1. Stages' = [Stages EXCEPT ![t] = Stage(t)']
  BY StageOfStep DEF PCs
<1>2. Stage(t)' = "done" /\ Stages[t] = "busy"
  BY DEF Stage, Stages, Ended
<1>3. mutex = t
  BY Entered DEF Inside
<1>4. Answered = NULL /\ Answered' = NULL
  BY <1>3 DEF Answered, InHand, Holder, Phase, Quiet, Ended, Untaken
<1> QED
  BY <1>1, <1>2, <1>4 DEF Serial!Unsent, Serial!Returns, Serial!Moves

LEMMA SendRefines ==
    ASSUME IInv, IInv', Untaken, NEW t \in Tasks, Send(t) \/ Woken(t)
    PROVE  UNCHANGED Serial!vars
<1> USE DEF IInv, Base, TypeOK, At, taskVars, rxVars
<1>1. PICK to \in {"pend", "process"} : pc' = [pc EXCEPT ![t] = to]
  BY DEF Send, Woken
<1>2. Stages' = [Stages EXCEPT ![t] = Stage(t)']
  BY <1>1, StageOfStep DEF PCs
<1>3. Stage(t)' = "busy" /\ Stages[t] = "busy"
  BY <1>1 DEF Send, Woken, Stage, Stages, Ended
<1>4. Stages' = Stages
  BY <1>2, <1>3 DEF Stages
<1>5. mutex = t /\ mutex' = t /\ pc[t] \notin Ended /\ pc'[t] \notin Ended
  BY <1>1, Entered DEF Inside, Ended, Send, Woken
<1>6. Answered' = Answered
  <2>1. CASE late
    BY <2>1 DEF Answered, Send, Woken
  <2>2. CASE ~late /\ Send(t)
    <3>1. rxAt = "idle" /\ ack = NULL /\ rxAt' = "idle" /\ ack' = NULL
      BY <1>5, <2>2 DEF Send, Holder, Phase, Quiet, OldAck
    <3> QED
      BY <1>5, <3>1 DEF Answered, InHand
  <2>3. CASE Woken(t)
    BY <1>5, <2>3, AnswerKept DEF Woken, InHand
  <2> QED
    BY <2>1, <2>2, <2>3
<1> QED
  BY <1>4, <1>6 DEF Serial!vars, Send, Woken

\* A wait that runs out: the command was lost, or its answer is on its way.
LEMMA TimeoutRefines ==
    ASSUME IInv, IInv', Untaken, NEW t \in Tasks, Timeout(t)
    PROVE  Serial!Lost(t) \/ Serial!GivenUp(t)
<1> USE DEF IInv, Base, TypeOK, Timeout, At, Result, taskVars, rxVars
<1>1. Stages' = [Stages EXCEPT ![t] = Stage(t)']
  BY StageOfStep DEF PCs
<1>2. Stage(t)' = "done" /\ Stages[t] = "busy"
  BY DEF Stage, Stages, Ended
<1>3. Serial!Returns(t, "timeout")
  BY <1>1, <1>2 DEF Serial!Returns, Serial!Moves
<1>4. mutex = t /\ mutex' = t
  BY Entered DEF Inside
<1>5. CASE late
  <2>1. Answered = NULL /\ Answered' = NULL /\ late' = late
    BY <1>5 DEF Answered
  <2> QED
    BY <1>3, <2>1 DEF Serial!Lost
<1>6. CASE ~late /\ late'
  <2>1. Answered' = NULL
    BY <1>6 DEF Answered
  <2> QED
    BY <1>3, <1>6, <2>1 DEF Serial!GivenUp
<1>7. CASE ~late /\ ~late'
  <2>1. queue = <<>> /\ rxAt = "idle" /\ sem = 0 /\ ack = NULL
    BY <1>4, <1>7 DEF Holder, Phase, Waiting, Quiet
  <2>2. Answered = NULL
    BY <1>4, <2>1 DEF Answered, InHand, Ended
  <2>3. Answered' = NULL
    BY <1>4, <1>7 DEF Answered, InHand, Ended, Untaken
  <2> QED
    BY <1>3, <1>7, <2>2, <2>3 DEF Serial!Lost
<1> QED
  BY <1>5, <1>6, <1>7

\* The answer that is read is the command's own, or one was late.
LEMMA ProcessRefines ==
    ASSUME IInv, IInv', Untaken, NEW t \in Tasks, Process(t)
    PROVE  Serial!Answered(t) \/ Serial!Stray(t)
<1> USE DEF IInv, Base, TypeOK, Process, At, Result, taskVars, rxVars
<1>1. Stages' = [Stages EXCEPT ![t] = Stage(t)']
  BY StageOfStep DEF PCs
<1>2. Stage(t)' = "done" /\ Stages[t] = "busy"
  BY DEF Stage, Stages, Ended
<1>3. Serial!Returns(t, Outcome(op[t], ack))
  BY <1>1, <1>2 DEF Serial!Returns, Serial!Moves
<1>4. mutex = t /\ mutex' = t
  BY Entered DEF Inside
<1>5. Outcome(op[t], ack) \in {"ok", "status", "invalid"}
  BY DEF Outcome
<1>6. CASE late
  <2>1. Answered = NULL /\ Answered' = NULL /\ late' = late
    BY <1>6 DEF Answered
  <2>2. Outcome(op[t], ack) = "invalid" => reset'
    BY DEF Resets
  <2>3. reset' \in {reset, TRUE}
    BY Zenon DEF Resets
  <2> QED
    BY <1>3, <1>5, <1>6, <2>1, <2>2, <2>3 DEF Serial!Stray
<1>7. CASE ~late
  <2>1. rxAt = "idle" /\ ack \in Ack /\ ack.op = op[t]
    BY <1>4, <1>7 DEF Holder, Phase, Quiet, Own
  <2>2. ack.reply \in Replies /\ ack.reply # NULL /\ ack # NULL
    BY <2>1, NullIsNoAck DEF Ack
  <2>3. InHand = ack /\ InHand' = ack
    BY <1>4, <2>1 DEF InHand, Ended
  <2>4. Answered = ack.reply /\ Answered' = ack.reply
    BY <1>4, <1>7, <2>2, <2>3, NullIsNoAck DEF Answered
  <2>5. Outcome(op[t], ack) = Serial!Verdict[ack.reply]
    BY <2>1, <2>2 DEF Outcome, Replies, Serial!Verdict
  <2>6. Resets(op[t], ack) <=> ack.reply \in Serial!Malformed
    BY <2>1, <2>2 DEF Resets, Outcome, Replies, Serial!Malformed
  <2> QED
    BY <1>3, <2>2, <2>4, <2>5, <2>6 DEF Serial!Answered
<1> QED
  BY <1>6, <1>7

\* The acknowledgement is freed and forgotten; the result is kept.
LEMMA FreeRefines ==
    ASSUME IInv, IInv', Untaken, NEW t \in Tasks, FreeAck(t) \/ ClearAck(t)
    PROVE  UNCHANGED Serial!vars
<1> USE DEF IInv, Base, TypeOK, At, taskVars, rxVars
<1>1. PICK to \in {"clear", "unlock"} : pc' = [pc EXCEPT ![t] = to]
  BY DEF FreeAck, ClearAck
<1>2. Stages' = [Stages EXCEPT ![t] = Stage(t)']
  BY <1>1, StageOfStep DEF PCs
<1>3. Stage(t)' = "done" /\ Stages[t] = "done"
  BY <1>1 DEF FreeAck, ClearAck, Stage, Stages, Ended
<1>4. Stages' = Stages
  BY <1>2, <1>3 DEF Stages
<1>5. mutex = t /\ mutex' = t /\ pc[t] \in Ended /\ pc'[t] \in Ended
  BY <1>1, Entered DEF Inside, Ended, FreeAck, ClearAck
<1>6. InHand' = InHand
  BY <1>5 DEF InHand, FreeAck, ClearAck
<1>7. Answered' = Answered
  BY <1>5, <1>6, AnswerKept DEF FreeAck, ClearAck
<1> QED
  BY <1>4, <1>7 DEF Serial!vars, FreeAck, ClearAck

LEMMA UnlockRefines ==
    ASSUME IInv, IInv', NEW t \in Tasks, Unlock(t)
    PROVE  Serial!Finish(t)
<1> USE DEF IInv, Base, TypeOK, Unlock, At, Result, taskVars, rxVars
<1>1. Stages' = [Stages EXCEPT ![t] = Stage(t)']
  BY StageOfStep DEF PCs
<1>2. Stage(t)' = "idle" /\ Stages[t] = "done"
  BY DEF Stage, Stages, Ended
<1>3. Answered' = NULL
  BY DEF Answered
<1> QED
  BY <1>1, <1>2, <1>3 DEF Serial!Finish, Serial!Moves

\* The first that is heard of a command's answer.
LEMMA AnswerRefines ==
    ASSUME IInv, IInv', Untaken, NEW reply \in Replies, Answer(reply)
    PROVE  Serial!Reply(reply) \/ UNCHANGED Serial!vars
<1> USE DEF IInv, Base, TypeOK, Answer, taskVars, rxVars
<1>1. Stages' = Stages
  BY StageKept
<1>2. CASE late
  <2>1. Answered' = Answered
    BY <1>2 DEF Answered
  <2> QED
    BY <1>1, <2>1 DEF Serial!vars
<1>3. CASE ~late
  <2>1. mutex \in Tasks /\ pc[mutex] = "pend" /\ rxAt = "idle" /\ ack = NULL
    BY <1>3, NullIsNoAck DEF Holder, Phase, Waiting, Quiet, Exclusive, Inside, PCs
  <2>2. Answered = NULL
    BY <2>1 DEF Answered, InHand, Ended
  <2>3. Answered' = reply
    <3>1. InHand' = rxEv'
      BY <2>1 DEF InHand, Ended
    <3>2. rxEv' # NULL /\ rxEv'.reply = reply
      <4>1. rxEv' \in Ack \cup {NULL} /\ rxEv' = [op |-> Head(queue).op, live |-> Head(queue).live, reply |-> reply]
        OBVIOUS
      <4>2. Head(queue) \in Command
        OBVIOUS
      <4>3. rxEv' \in Ack
        BY <4>1, <4>2 DEF Ack, Command
      <4> QED
        BY <4>1, <4>3, NullIsNoAck
    <3> QED
      BY <1>3, <2>1, <3>1, <3>2, NullIsNoAck DEF Answered
  <2>4. Stages[mutex] = "busy"
    BY <2>1 DEF Stages, Stage, Ended
  <2> QED
    BY <1>1, <1>3, <2>1, <2>2, <2>3, <2>4 DEF Serial!Reply
<1> QED
  BY <1>2, <1>3

\* It then changes hands.
LEMMA RxRefines ==
    ASSUME IInv, IInv', Untaken, Rx
    PROVE  UNCHANGED Serial!vars
<1> USE DEF IInv, Base, TypeOK, taskVars, rxVars
<1>1. Stages' = Stages
  BY StageKept DEF Rx, RxCheck, RxStore, RxRelease
<1>2. Answered' = Answered
  <2>1. CASE late
    BY <2>1 DEF Answered, Rx, RxCheck, RxStore, RxRelease
  <2>2. CASE ~late /\ RxCheck
    <3>1. sem = 0
      BY <2>2 DEF RxCheck, Holder, Phase, Waiting, Quiet, Exclusive, Inside, PCs
    <3> QED
      BY <2>2, <3>1, AnswerKept DEF RxCheck, InHand
  <2>3. CASE RxStore
    BY <2>3, AnswerKept DEF RxStore, InHand
  <2>4. CASE RxRelease
    BY <2>4, AnswerKept DEF RxRelease, InHand
  <2> QED
    BY <2>1, <2>2, <2>3, <2>4 DEF Rx
<1> QED
  BY <1>1, <1>2 DEF Serial!vars, Rx, RxCheck, RxStore, RxRelease

\* Without a late answer nothing makes the chip start again.
LEMMA RebootRefines ==
    ASSUME IInv, (\E t \in Tasks : NullRead(t)) \/ PoolEmpty
    PROVE  Serial!Restart
<1> USE DEF IInv, Base, TypeOK
<1>1. Reboot
  BY DEF NullRead, PoolEmpty
<1>2. late
  <2>1. ASSUME ~late, NEW t \in Tasks, NullRead(t) PROVE FALSE
    <3>1. mutex = t /\ mutex # NULL
      BY <2>1, Entered DEF NullRead, Inside
    <3> QED
      BY <2>1, <3>1, NullIsNoAck DEF NullRead, Holder, Phase, Own
  <2>2. ASSUME ~late, PoolEmpty PROVE FALSE
    <3>1. queue # <<>> /\ rxAt = "idle" /\ held = MaxEvents
      BY <2>2 DEF PoolEmpty
    <3>2. ack = NULL
      BY <2>2, <3>1 DEF Holder, Phase, Waiting, Quiet, Exclusive, Inside, PCs
    <3>3. held = 0
      BY <2>2, <3>1, <3>2 DEF Kept
    <3> QED
      BY <3>1, <3>3, RoomForOne
  <2> QED
    BY <2>1, <2>2
<1>3. Stages' = [t \in Tasks |-> "idle"]
  BY <1>1 DEF Reboot, Stages, Stage, Ended
<1>4. Answered' = NULL
  BY <1>1 DEF Reboot, Answered
<1> QED
  BY <1>1, <1>2, <1>3, <1>4 DEF Reboot, Serial!Restart, Serial!Init

LEMMA SerialStep ==
    IInv /\ IInv' /\ Untaken /\ [Next]_vars => [Serial!Next]_(Serial!vars)
<1> SUFFICES ASSUME IInv, IInv', Untaken, [Next]_vars PROVE [Serial!Next]_(Serial!vars)
  OBVIOUS
<1>1. ASSUME NEW t \in Tasks, NEW o \in Opcodes, Call(t, o) PROVE Serial!Next
  BY <1>1, CallRefines DEF Serial!Next
<1>2. ASSUME NEW t \in Tasks, Step(t) PROVE Serial!Next \/ UNCHANGED Serial!vars
  <2>1. CASE Lock(t)
    BY <2>1, LockRefines DEF Serial!Next
  <2>2. CASE NotSent(t)
    BY <2>2, NotSentRefines DEF Serial!Next
  <2>3. CASE Send(t) \/ Woken(t)
    BY <2>3, SendRefines
  <2>4. CASE Timeout(t)
    BY <2>4, TimeoutRefines DEF Serial!Next
  <2>5. CASE Process(t)
    BY <2>5, ProcessRefines DEF Serial!Next
  <2>6. CASE FreeAck(t) \/ ClearAck(t)
    BY <2>6, FreeRefines
  <2>7. CASE Unlock(t)
    BY <2>7, UnlockRefines DEF Serial!Next
  <2>8. CASE NullRead(t)
    BY <2>8, RebootRefines DEF Serial!Next
  <2> QED
    BY <1>2, <2>1, <2>2, <2>3, <2>4, <2>5, <2>6, <2>7, <2>8 DEF Step
<1>3. ASSUME NEW reply \in Replies, Answer(reply) PROVE Serial!Next \/ UNCHANGED Serial!vars
  <2>1. reply \in DOMAIN Serial!Verdict
    BY DEF Replies, Serial!Verdict
  <2> QED
    BY <1>3, <2>1, AnswerRefines DEF Serial!Next
<1>4. CASE PoolEmpty
  BY <1>4, RebootRefines DEF Serial!Next
<1>5. CASE Rx
  BY <1>5, RxRefines
<1>6. CASE HandleReset
  <2>1. Stages' = Stages /\ Answered' = Answered
    BY <1>6, StageKept, AnswerKept DEF HandleReset, InHand, taskVars, rxVars
  <2> QED
    BY <1>6, <2>1 DEF HandleReset, taskVars, Serial!Next, Serial!Reset
<1>7. CASE Ready \/ DataPacket \/ LoseCommand \/ UNCHANGED vars
  <2>1. Stages' = Stages /\ Answered' = Answered
    BY <1>7, StageKept, AnswerKept
    DEF Ready, DataPacket, LoseCommand, vars, InHand, taskVars, rxVars
  <2> QED
    BY <1>7, <2>1 DEF Ready, DataPacket, LoseCommand, vars, taskVars, Serial!vars
<1> QED
  BY <1>1, <1>2, <1>3, <1>4, <1>5, <1>6, <1>7 DEF Next, Controller

\* ble_hs_hci_cmd_tx, its mutex, its semaphore and the acknowledgements that
\* the controller's task stores do what SerialCommands promises: one command at
\* a time, with the controller's own word on it as the result or with none,
\* until an answer is late; and until then no panic.
THEOREM CommandsAreSerial == Spec => ImplementsSerialCommands
<1>1. Init => Serial!Init /\ Untaken
  <2> SUFFICES ASSUME Init PROVE Serial!Init /\ Untaken
    OBVIOUS
  <2>1. Stages = [t \in Tasks |-> "idle"]
    BY DEF Init, Stages, Stage, Ended
  <2>2. Answered = NULL
    BY DEF Init, Answered
  <2> QED
    BY <2>1, <2>2 DEF Init, Serial!Init, Untaken
<1>2. IInv /\ Untaken /\ [Next]_vars => Untaken'
  BY UntakenStep DEF IInv
<1> QED
  BY <1>1, <1>2, PromptInit, PromptStep, SerialStep, PTL
  DEF Spec, ImplementsSerialCommands, Serial!Spec
=============================================================================
