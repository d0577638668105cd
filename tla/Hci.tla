-------------------------------- MODULE Hci ---------------------------------
(***************************************************************************)
(* HCI commands of the NimBLE host (ble_hs_hci.c): a task sends one under  *)
(* ble_hs_hci_mutex, waits 2 s for its acknowledgement on ble_hs_hci_sem   *)
(* and reads it from ble_hs_hci_ack, which the controller's task fills.    *)
(*                                                                         *)
(* A wait that runs out is a command lost, or an acknowledgement that is   *)
(* late; the history variable late tells whether one ever was.             *)
(***************************************************************************)
EXTENDS Integers, Sequences

CONSTANTS Tasks,       \* tasks that send commands
          Opcodes,
          MaxPending,  \* commands the controller has room for
          MaxEvents,   \* buffers of ble_hci_evt_hi_pool
          NULL

ASSUME RoomForOne == MaxPending \in Nat \ {0} /\ MaxEvents \in Nat \ {0}

VARIABLES
    pc,        \* where a task is in ble_hs_hci_cmd_tx
    op,        \* the opcode it was called with
    rc,        \* the result
    mutex,     \* the holder of ble_hs_hci_mutex
    credit,    \* vhci_send_sem, a binary semaphore
    queue,     \* commands the controller has received
    rxAt,      \* where the controller's task is in ble_hs_hci_rx_ack
    rxEv,      \* ack_ev
    sem,       \* the count of ble_hs_hci_sem
    ack,       \* ble_hs_hci_ack
    held,      \* event buffers allocated to acknowledgements
    reset,     \* ble_hs_ev_reset is queued
    got,       \* history: the acknowledgement a task has processed
    late       \* history: a command was given up that may yet be acknowledged

taskVars == <<pc, op, rc, got>>
rxVars   == <<rxAt, rxEv>>
vars == <<taskVars, mutex, credit, queue, rxVars, sem, ack, held, reset, late>>

PCs == {"idle", "lock", "send", "pend", "process", "free", "clear", "unlock"}
Inside == PCs \ {"idle", "lock"}
Results == {"none", "unsent", "timeout", "invalid", "status", "ok"}
Replies == {"full", "short", "long", "error"}

\* A command, and its acknowledgement.  live is history: it is TRUE until the
\* next command is sent.
Command == [op : Opcodes, live : BOOLEAN]
Ack == [op : Opcodes, live : BOOLEAN, reply : Replies]

ASSUME NullIsNoAck == NULL \notin Ack /\ NULL \notin Tasks /\ NULL \notin Replies

TypeOK ==
    /\ pc \in [Tasks -> PCs]
    /\ op \in [Tasks -> Opcodes]
    /\ rc \in [Tasks -> Results]
    /\ got \in [Tasks -> Ack \cup {NULL}]
    /\ mutex \in Tasks \cup {NULL}
    /\ credit \in BOOLEAN
    /\ queue \in Seq(Command)
    /\ rxAt \in {"idle", "check", "store", "release"}
    /\ rxEv \in Ack \cup {NULL}
    /\ sem \in Nat
    /\ ack \in Ack \cup {NULL}
    /\ held \in Nat
    /\ reset \in BOOLEAN
    /\ late \in BOOLEAN

(* ------------------------------ The tasks ------------------------------ *)

At(t, from, to) == pc[t] = from /\ pc' = [pc EXCEPT ![t] = to]
Result(t, r) == rc' = [rc EXCEPT ![t] = r]

Old(m) == [m EXCEPT !.live = FALSE]
OldAck(a) == IF a = NULL THEN NULL ELSE Old(a)

Call(t, o) ==
    /\ At(t, "idle", "lock")
    /\ op' = [op EXCEPT ![t] = o]
    /\ UNCHANGED <<rc, got, mutex, credit, queue, rxVars, sem, ack, held, reset, late>>

\* Mutation of Lock: the mutex is not waited for.
LockAtOnce(t) ==
    /\ At(t, "lock", "send")
    /\ mutex' = t
    /\ UNCHANGED <<op, rc, got, credit, queue, rxVars, sem, ack, held, reset, late>>

Lock(t) ==
    /\ At(t, "lock", "send")
    /\ mutex = NULL
    /\ mutex' = t
    /\ UNCHANGED <<op, rc, got, credit, queue, rxVars, sem, ack, held, reset, late>>

\* The host is not in sync, or the controller is not ready within 2 s.
NotSent(t) ==
    /\ At(t, "send", "free")
    /\ Result(t, "unsent")
    /\ UNCHANGED <<op, got, mutex, credit, queue, rxVars, sem, ack, held, reset, late>>

Send(t) ==
    /\ At(t, "send", "pend")
    /\ credit
    /\ credit' = FALSE
    /\ queue' = Append([i \in DOMAIN queue |-> Old(queue[i])], [op |-> op[t], live |-> TRUE])
    /\ rxEv' = OldAck(rxEv)
    /\ ack' = OldAck(ack)
    /\ UNCHANGED <<op, rc, got, mutex, rxAt, sem, held, reset, late>>

\* ble_hs_hci_wait_for_ack
Woken(t) ==
    /\ At(t, "pend", "process")
    /\ sem > 0
    /\ sem' = sem - 1
    /\ UNCHANGED <<op, rc, got, mutex, credit, queue, rxVars, ack, held, reset, late>>

\* Mutation of Timeout: BLE_NPL_TIME_FOREVER.
TimeoutNever(t) ==
    /\ FALSE
    /\ UNCHANGED <<vars>>

\* Mutation of Timeout: the controller is believed to have lost the command.
TimeoutQuiet(t) ==
    /\ At(t, "pend", "free")
    /\ sem = 0
    /\ Result(t, "timeout")
    /\ late' = (late \/ queue # <<>> \/ rxAt # "idle")
    /\ UNCHANGED <<op, got, mutex, credit, queue, rxVars, sem, ack, held, reset>>

Timeout(t) ==
    /\ At(t, "pend", "free")
    /\ sem = 0
    /\ Result(t, "timeout")
    /\ reset' = TRUE
    /\ late' = (late \/ queue # <<>> \/ rxAt # "idle")
    /\ UNCHANGED <<op, got, mutex, credit, queue, rxVars, sem, ack, held>>

\* What ble_hs_hci_cmd_tx returns for an acknowledgement: an answer that is too
\* short schedules a reset and is still a success.
Outcome(o, a) ==
    CASE a.op # o \/ a.reply = "long" -> "invalid"
      [] a.reply = "error"            -> "status"
      [] OTHER                        -> "ok"

Resets(o, a) == Outcome(o, a) = "invalid" \/ a.reply = "short"

Process(t) ==
    /\ At(t, "process", "free")
    /\ ack # NULL
    /\ Result(t, Outcome(op[t], ack))
    /\ reset' = (reset \/ Resets(op[t], ack))
    /\ got' = [got EXCEPT ![t] = ack]
    /\ UNCHANGED <<op, mutex, credit, queue, rxVars, sem, ack, held, late>>

\* Mutation of FreeAck: the buffer is freed without the test.
FreeAckAlways(t) ==
    /\ At(t, "free", IF ack = NULL THEN "unlock" ELSE "clear")
    /\ held' = held - 1
    /\ UNCHANGED <<op, rc, got, mutex, credit, queue, rxVars, sem, ack, reset, late>>

FreeAck(t) ==
    /\ At(t, "free", IF ack = NULL THEN "unlock" ELSE "clear")
    /\ held' = IF ack = NULL THEN held ELSE held - 1
    /\ UNCHANGED <<op, rc, got, mutex, credit, queue, rxVars, sem, ack, reset, late>>

\* Mutation of ClearAck: the pointer to the freed buffer is kept.
ClearAckNever(t) ==
    /\ At(t, "clear", "unlock")
    /\ UNCHANGED <<op, rc, got, mutex, credit, queue, rxVars, sem, ack, held, reset, late>>

ClearAck(t) ==
    /\ At(t, "clear", "unlock")
    /\ ack' = NULL
    /\ UNCHANGED <<op, rc, got, mutex, credit, queue, rxVars, sem, held, reset, late>>

\* ... and cmd_tx returns rc.
Unlock(t) ==
    /\ At(t, "unlock", "idle")
    /\ mutex' = NULL
    /\ Result(t, "none")
    /\ got' = [got EXCEPT ![t] = NULL]
    /\ UNCHANGED <<op, credit, queue, rxVars, sem, ack, held, reset, late>>

(* --------------------------- The controller ---------------------------- *)

\* notify_host_send_available
Ready ==
    /\ ~credit
    /\ Len(queue) < MaxPending
    /\ credit' = TRUE
    /\ UNCHANGED <<taskVars, mutex, queue, rxVars, sem, ack, held, reset, late>>

\* ble_hci_trans_hs_acl_tx takes the same semaphore for a data packet.
DataPacket ==
    /\ credit
    /\ credit' = FALSE
    /\ UNCHANGED <<taskVars, mutex, queue, rxVars, sem, ack, held, reset, late>>

LoseCommand ==
    /\ queue # <<>>
    /\ queue' = Tail(queue)
    /\ UNCHANGED <<taskVars, mutex, credit, rxVars, sem, ack, held, reset, late>>

\* host_rcv_pkt copies the event to a buffer and hands it to ble_hs_hci_rx_evt.
Answer(reply) ==
    /\ queue # <<>> /\ rxAt = "idle" /\ held < MaxEvents
    /\ rxAt' = "check"
    /\ rxEv' = [op |-> Head(queue).op, live |-> Head(queue).live, reply |-> reply]
    /\ queue' = Tail(queue)
    /\ held' = held + 1
    /\ UNCHANGED <<taskVars, mutex, credit, sem, ack, reset, late>>

\* Mutation of RxCheck: every acknowledgement is expected.
RxCheckNot ==
    /\ rxAt = "check"
    /\ rxAt' = "store"
    /\ UNCHANGED <<taskVars, mutex, credit, queue, rxEv, sem, ack, held, reset, late>>

RxCheck ==
    /\ rxAt = "check"
    /\ IF sem > 0
       THEN rxAt' = "idle" /\ rxEv' = NULL /\ held' = held - 1
       ELSE rxAt' = "store" /\ UNCHANGED <<rxEv, held>>
    /\ UNCHANGED <<taskVars, mutex, credit, queue, sem, ack, reset, late>>

RxStore ==
    /\ rxAt = "store"
    /\ rxAt' = "release"
    /\ ack' = rxEv
    /\ rxEv' = NULL
    /\ UNCHANGED <<taskVars, mutex, credit, queue, sem, held, reset, late>>

RxRelease ==
    /\ rxAt = "release"
    /\ rxAt' = "idle"
    /\ sem' = sem + 1
    /\ UNCHANGED <<taskVars, mutex, credit, queue, rxEv, ack, held, reset, late>>

Rx == RxCheck \/ RxStore \/ RxRelease

\* The host task serves ble_hs_ev_reset.
HandleReset ==
    /\ reset
    /\ reset' = FALSE
    /\ UNCHANGED <<taskVars, mutex, credit, queue, rxVars, sem, ack, held, late>>

(* ----------------------------------------------------------------------- *)

Init ==
    /\ pc = [t \in Tasks |-> "idle"]
    /\ op \in [Tasks -> Opcodes]
    /\ rc = [t \in Tasks |-> "none"]
    /\ got = [t \in Tasks |-> NULL]
    /\ mutex = NULL
    /\ credit = TRUE
    /\ queue = <<>>
    /\ rxAt = "idle" /\ rxEv = NULL
    /\ sem = 0 /\ ack = NULL /\ held = 0
    /\ reset = FALSE
    /\ late = FALSE

\* A panic or a failed assert(): the chip starts again.
Reboot ==
    /\ pc' = [u \in Tasks |-> "idle"]
    /\ rc' = [u \in Tasks |-> "none"]
    /\ got' = [u \in Tasks |-> NULL]
    /\ mutex' = NULL
    /\ credit' = TRUE
    /\ queue' = <<>>
    /\ rxAt' = "idle" /\ rxEv' = NULL
    /\ sem' = 0 /\ ack' = NULL /\ held' = 0
    /\ reset' = FALSE
    /\ late' = FALSE
    /\ UNCHANGED op

\* ble_hs_hci_process_ack reads through a null ble_hs_hci_ack.
NullRead(t) == pc[t] = "process" /\ ack = NULL /\ Reboot

\* host_rcv_pkt: assert(evbuf != NULL)
PoolEmpty == queue # <<>> /\ rxAt = "idle" /\ held = MaxEvents /\ Reboot

Step(t) ==
    \/ Lock(t) \/ NotSent(t) \/ Send(t) \/ Woken(t) \/ Timeout(t)
    \/ Process(t) \/ NullRead(t) \/ FreeAck(t) \/ ClearAck(t) \/ Unlock(t)

Controller == LoseCommand \/ PoolEmpty \/ \E reply \in Replies : Answer(reply)

Next ==
    \/ \E t \in Tasks : Step(t) \/ \E o \in Opcodes : Call(t, o)
    \/ Ready \/ DataPacket \/ Controller \/ Rx \/ HandleReset

Spec == Init /\ [][Next]_vars

\* Every task runs; the controller's does, and takes every command up.
FairSpec ==
    /\ Spec
    /\ \A t \in Tasks : WF_vars(Step(t))
    /\ WF_vars(Controller) /\ WF_vars(Rx)

(* ----------------------------- Properties ------------------------------ *)

\* As long as no acknowledgement has been late, a task that is woken finds its
\* own acknowledgement, and a command that was answered took that and no other:
\* what cmd_tx returns without an error of its own is the controller's word on
\* the command it was called for (wait_for_ack, process_ack, rx_ack).
OwnAck ==
    ~late => \A t \in Tasks :
        /\ pc[t] = "process" => ack # NULL /\ ack.live /\ ack.op = op[t]
        /\ pc[t] \in {"free", "clear", "unlock"} /\ rc[t] \in {"ok", "status"}
               => got[t].live /\ got[t].op = op[t]

\* Nor is an acknowledgement stored where one is (rx_ack:
\* BLE_HS_DBG_ASSERT(ble_hs_hci_ack == NULL)).
NoneOverwritten == ~late /\ rxAt = "store" => ack = NULL

\* The buffers that ble_hs_hci_ack and the controller's task have to free.
ToFree == (IF ack # NULL /\ \A t \in Tasks : pc[t] # "clear" THEN 1 ELSE 0)
        + (IF rxAt \in {"check", "store"} THEN 1 ELSE 0)

\* No event buffer is freed twice, however late the acknowledgements: as many
\* are held as there are to free.  Until one is late, none gets lost either.
BuffersAccounted == held >= ToFree /\ (~late => held = ToFree)

\* Whatever the delays, ble_hs_hci_sem never counts a second acknowledgement.
OneToken == sem + (IF rxAt \in {"store", "release"} THEN 1 ELSE 0) <= 1

\* A task that holds ble_hs_hci_mutex gives it back, however late the
\* acknowledgement.
CommandEnds == \A t \in Tasks : mutex = t ~> mutex # t

\* What wait_for_ack asserts of every acknowledgement, the late ones too:
\* BLE_HS_DBG_ASSERT(ble_hs_hci_ack != NULL).
AckAlwaysPresent == \A t \in Tasks : pc[t] = "process" => ack # NULL

\* What rx_ack asserts: BLE_HS_DBG_ASSERT(ble_hs_hci_ack == NULL).
NeverOverwritten == rxAt = "store" => ack = NULL

\* cmd_tx is entered with no acknowledgement lying about (its
\* BLE_HS_DBG_ASSERT(ble_hs_hci_ack == NULL)).
EntryAssertion == [][\A t \in Tasks : pc[t] = "idle" /\ pc'[t] = "lock" => ack = NULL]_vars

\* "on success we should always get full response" (cmd_tx).
FullOnSuccess ==
    \A t \in Tasks :
        pc[t] \in {"free", "clear", "unlock"} /\ rc[t] = "ok" => got[t].reply = "full"

(* ---------------------------- Refinement ------------------------------- *)

Ended == {"free", "clear", "unlock"}

Stage(t) == CASE pc[t] = "idle" -> "idle"
              [] pc[t] = "lock" -> "waiting"
              [] pc[t] \in Ended -> "done"
              [] OTHER -> "busy"
Stages == [t \in Tasks |-> Stage(t)]

\* Where the acknowledgement of the command in progress is.
InHand == IF pc[mutex] \in Ended THEN got[mutex]
          ELSE IF rxAt \in {"check", "store"} THEN rxEv
          ELSE ack

Answered == IF late \/ mutex = NULL \/ InHand = NULL THEN NULL ELSE InHand.reply

Serial == INSTANCE SerialCommands
              WITH stage <- Stages, result <- rc, answer <- Answered

\* cmd_tx, with its mutex, its semaphore and the acknowledgements that the
\* controller's task stores, does what SerialCommands promises: whatever the
\* tasks and the controller's answers do, every result is the controller's on
\* that very command, or tells that there is none, until an answer is late.
ImplementsSerialCommands == Serial!Spec
=============================================================================
