------------------------------ MODULE AclFlow -------------------------------
(***************************************************************************)
(* Outgoing data of the NimBLE host: any task sends packets on connections *)
(* under the host mutex, a fragment for each free buffer of the controller *)
(* (ble_hs_hci_avail_pkts); what does not fit waits in the queue of its    *)
(* connection until the host task, told of completed packets, of a         *)
(* disconnection or of a reset, wakes it (ble_hs_wakeup_tx).               *)
(***************************************************************************)
EXTENDS Integers, Sequences, FiniteSets, Functions

CONSTANTS Conns,       \* connection handles
          MaxConns,    \* CONFIG_BT_NIMBLE_MAX_CONNECTIONS
          MaxPkts,     \* the controller's buffers
          MaxFrags,    \* bounds the fragments of a packet
          MaxQueue,    \* bounds the packets queued on a connection
          MaxEvents,   \* bounds the events on their way to the host task
          MaxRefusals, \* bounds the disconnections the controller refuses
          Faults,      \* the host may be reset
          NULL

ASSUME BufferCount == MaxPkts \in Nat
ASSUME FragmentCount == MaxFrags \in Nat
ASSUME HandlesFinite == IsFiniteSet(Conns)
ASSUME NullIsNoConn == NULL \notin Conns

VARIABLES
    conns,        \* the connections of ble_hs_conns; their order is left open
    avail,        \* ble_hs_hci_avail_pkts
    outstanding,  \* bhc_outstanding_pkts
    txq,          \* bhc_tx_q
    frag,         \* BLE_HS_CONN_F_TX_FRAG
    adv,          \* the host takes advertising for active
    hostAt,       \* where the host task is
    entries,      \* the packets of the event in hand not yet counted
    cur,          \* the connection in hand
    todo,         \* the connections ble_hs_wakeup_tx has yet to serve
    evts,         \* events on their way to the host task
    link,         \* the controller's links
    ctl,          \* the controller's buffers a link uses
    refusals      \* refused disconnections, so far

connVars == <<outstanding, txq, frag>>
loopVars == <<entries, cur, todo>>
radio == <<link, ctl, refusals>>
vars == <<conns, avail, connVars, adv, hostAt, loopVars, evts, radio>>

\* A packet: the fragments left, and whether one was sent (history).
Packet == [left : Nat \ {0}, begun : BOOLEAN]
Event ==
    [kind : {"completed"}, pkts : [Conns -> Nat]]
        \cup [kind : {"disconn"}, conn : Conns, ok : BOOLEAN]
        \cup [kind : {"connect"}, conn : Conns]
        \cup [kind : {"reset"}]

Places == {"idle", "entries", "broken", "wakeup", "waking", "reset"}
None == [c \in Conns |-> 0]

TypeOK ==
    /\ conns \in SUBSET Conns
    /\ avail \in Nat
    /\ outstanding \in [Conns -> Nat]
    /\ txq \in [Conns -> Seq(Packet)]
    /\ frag \in [Conns -> BOOLEAN]
    /\ adv \in BOOLEAN
    /\ hostAt \in Places
    /\ entries \in [Conns -> Nat]
    /\ cur \in Conns \cup {NULL}
    /\ todo \in SUBSET Conns
    /\ evts \in Seq(Event)
    /\ link \in [Conns -> BOOLEAN]
    /\ ctl \in [Conns -> Nat]
    /\ refusals \in Nat

(* ------------------------------- Sending ------------------------------- *)

\* The controller discards what is sent on a link it does not have.
Transmit(c, n) ==
    /\ avail' = avail - n
    /\ outstanding' = [outstanding EXCEPT ![c] = @ + n]
    /\ ctl' = IF link[c] THEN [ctl EXCEPT ![c] = @ + n] ELSE ctl

Flag(c, b) == frag' = [frag EXCEPT ![c] = b]

\* Mutation of TxAll: off by one at the last buffer.
TxAllOneMore(c, n) ==
    /\ n <= avail + 1
    /\ Transmit(c, n)
    /\ Flag(c, FALSE)

\* ble_hs_hci_acl_tx_now, of a packet with n fragments left: all are sent;
\* the buffers do not suffice; the transport takes k and refuses the next.
TxAll(c, n) ==
    /\ n <= avail
    /\ Transmit(c, n)
    /\ Flag(c, FALSE)

\* The remainder goes back to the caller.  That mem_split_frag finds no memory
\* while there are buffers would have the same result; its pool has a block for
\* each call, so that it does not come to this.
TxSome(c, n) ==
    /\ n > avail
    /\ Transmit(c, avail)
    /\ Flag(c, frag[c] \/ avail > 0)

\* There is no memory for the header, or the transport refuses: the rest of the
\* packet is freed.
TxFails(c, n) ==
    \E k \in 0..(n - 1) :
        /\ k < avail
        /\ Transmit(c, k)
        /\ Flag(c, FALSE)

\* The host task holds the host mutex all through ble_hs_wakeup_tx.
Locked == hostAt = "waking"

\* ble_l2cap_tx
SendBackedUp(c, n) ==
    /\ txq[c] # <<>>
    /\ txq' = [txq EXCEPT ![c] = Append(@, [left |-> n, begun |-> FALSE])]
    /\ UNCHANGED <<avail, outstanding, frag, ctl>>

SendNow(c, n) ==
    /\ txq[c] = <<>>
    /\ TxAll(c, n) \/ TxFails(c, n)
    /\ UNCHANGED txq

SendRemainder(c, n) ==
    /\ txq[c] = <<>>
    /\ TxSome(c, n)
    /\ txq' = [txq EXCEPT ![c] = <<[left |-> n - avail, begun |-> avail > 0]>>]

Send(c, n) ==
    /\ ~Locked
    /\ c \in conns
    /\ Len(txq[c]) < MaxQueue
    /\ SendBackedUp(c, n) \/ SendNow(c, n) \/ SendRemainder(c, n)
    /\ UNCHANGED <<conns, adv, hostAt, loopVars, evts, link, refusals>>

(* ---------------------------- The host task ---------------------------- *)

Goto(from, to) == hostAt = from /\ hostAt' = to

Handle(kind) ==
    /\ hostAt = "idle"
    /\ evts # <<>>
    /\ Head(evts).kind = kind
    /\ evts' = Tail(evts)

\* ble_hs_hci_evt_num_completed_pkts counts the entries one by one.
Completed ==
    /\ Handle("completed")
    /\ hostAt' = "entries"
    /\ entries' = Head(evts).pkts
    /\ UNCHANGED <<conns, avail, connVars, adv, cur, todo, radio>>

ResetQueued == \E i \in DOMAIN evts : evts[i].kind = "reset"
SchedReset ==
    evts' = IF ResetQueued THEN evts ELSE Append(evts, [kind |-> "reset"])

\* Mutation of CountEntry: entries of unknown handles count.
CountEntryUnknown(c) ==
    LET n == entries[c] IN
    /\ hostAt = "entries" /\ n > 0
    /\ entries' = [entries EXCEPT ![c] = 0]
    /\ avail' = avail + n
    /\ outstanding' = [outstanding EXCEPT ![c] = IF @ < n THEN @ ELSE @ - n]
    /\ UNCHANGED <<conns, txq, frag, adv, hostAt, cur, todo, evts, radio>>

CountEntry(c) ==
    LET n == entries[c] IN
    /\ hostAt = "entries" /\ n > 0
    /\ entries' = [entries EXCEPT ![c] = 0]
    /\ IF c \in conns
       THEN /\ avail' = avail + n
            /\ outstanding' = [outstanding EXCEPT ![c] = IF @ < n THEN @ ELSE @ - n]
            /\ IF outstanding[c] < n THEN SchedReset ELSE UNCHANGED evts
       ELSE UNCHANGED <<avail, outstanding, evts>>
    /\ UNCHANGED <<conns, txq, frag, adv, hostAt, cur, todo, radio>>

\* Mutation of EntriesDone: stalled connections are not woken.
EntriesDoneNoWakeup ==
    /\ Goto("entries", "idle")
    /\ entries = None
    /\ UNCHANGED <<conns, avail, connVars, adv, loopVars, evts, radio>>

EntriesDone ==
    /\ Goto("entries", "wakeup")
    /\ entries = None
    /\ UNCHANGED <<conns, avail, connVars, adv, loopVars, evts, radio>>

Unlist(c) ==
    /\ conns' = conns \ {c}
    /\ outstanding' = [outstanding EXCEPT ![c] = 0]
    /\ txq' = [txq EXCEPT ![c] = <<>>]
    /\ Flag(c, FALSE)

\* ble_hs_hci_evt_disconn_complete returns the connection's buffers, and
\* releases the mutex.
DisconnComplete ==
    LET c == Head(evts).conn IN
    /\ Handle("disconn")
    /\ avail' = IF c \in conns THEN avail + outstanding[c] ELSE avail
    /\ hostAt' = IF Head(evts).ok THEN "broken" ELSE "wakeup"
    /\ cur' = IF Head(evts).ok THEN c ELSE NULL
    /\ UNCHANGED <<conns, connVars, adv, entries, todo, radio>>

\* ble_gap_conn_broken: ble_hs_atomic_conn_delete takes the mutex again.
ConnBroken ==
    /\ Goto("broken", "wakeup")
    /\ Unlist(cur)
    /\ cur' = NULL
    /\ UNCHANGED <<avail, adv, entries, todo, evts, radio>>

\* ble_gap_rx_conn_complete
ConnComplete ==
    LET c == Head(evts).conn IN
    /\ Handle("connect")
    /\ IF adv /\ c \notin conns
       THEN conns' = conns \cup {c} /\ adv' = FALSE
       ELSE UNCHANGED <<conns, adv>>
    /\ UNCHANGED <<avail, connVars, hostAt, loopVars, radio>>

\* ble_hs_wakeup_tx: a connection with a packet half sent, then every one.
WakeupTx ==
    /\ Goto("wakeup", "waking")
    /\ \/ \E c \in conns : frag[c] /\ cur' = c
       \/ (\A c \in conns : ~frag[c]) /\ cur' = NULL
    /\ todo' = conns
    /\ UNCHANGED <<conns, avail, connVars, adv, entries, evts, radio>>

WakePick ==
    /\ hostAt = "waking" /\ cur = NULL
    /\ \E c \in todo : cur' = c /\ todo' = todo \ {c}
    /\ UNCHANGED <<conns, avail, connVars, adv, hostAt, entries, evts, radio>>

\* ble_hs_wakeup_tx_conn
WakeConn(c) == hostAt = "waking" /\ c = cur /\ txq[c] # <<>>

WakeSent(c) ==
    /\ WakeConn(c)
    /\ LET n == Head(txq[c]).left IN TxAll(c, n) \/ TxFails(c, n)
    /\ txq' = [txq EXCEPT ![c] = Tail(@)]
    /\ UNCHANGED <<conns, adv, hostAt, loopVars, evts, link, refusals>>

Remainder(p) == [left |-> p.left - avail, begun |-> p.begun \/ avail > 0]

\* Mutation of WakeFull: what is left of the packet goes to the end.
WakeFullToTail(c) ==
    /\ WakeConn(c)
    /\ TxSome(c, Head(txq[c]).left)
    /\ txq' = [txq EXCEPT ![c] = Append(Tail(@), Remainder(Head(@)))]
    /\ hostAt' = "idle"
    /\ cur' = NULL
    /\ todo' = {}
    /\ UNCHANGED <<conns, adv, entries, evts, link, refusals>>

\* EAGAIN ends the whole of ble_hs_wakeup_tx.
WakeFull(c) ==
    /\ WakeConn(c)
    /\ TxSome(c, Head(txq[c]).left)
    /\ txq' = [txq EXCEPT ![c] = <<Remainder(Head(@))>> \o Tail(@)]
    /\ hostAt' = "idle"
    /\ cur' = NULL
    /\ todo' = {}
    /\ UNCHANGED <<conns, adv, entries, evts, link, refusals>>

WakeNext ==
    /\ hostAt = "waking" /\ cur # NULL
    /\ txq[cur] = <<>>
    /\ cur' = NULL
    /\ UNCHANGED <<conns, avail, connVars, adv, hostAt, entries, todo, evts, radio>>

WakeDone ==
    /\ Goto("waking", "idle")
    /\ cur = NULL /\ todo = {}
    /\ UNCHANGED <<conns, avail, connVars, adv, loopVars, evts, radio>>

\* ble_hs_reset: every connection is broken, advertising is over, and the
\* start-up sequence resets the controller and reads its buffers anew.
Reset ==
    /\ Handle("reset")
    /\ hostAt' = "reset"
    /\ UNCHANGED <<conns, avail, connVars, adv, loopVars, radio>>

ResetConn ==
    /\ hostAt = "reset"
    /\ \E c \in conns : Unlist(c)
    /\ UNCHANGED <<avail, adv, hostAt, loopVars, evts, radio>>

Sync ==
    /\ Goto("reset", "idle")
    /\ conns = {}
    /\ adv' = FALSE
    /\ avail' = MaxPkts
    /\ link' = [c \in Conns |-> FALSE]
    /\ ctl' = None
    /\ UNCHANGED <<conns, connVars, loopVars, evts, refusals>>

HostStep ==
    \/ Completed \/ EntriesDone \/ DisconnComplete \/ ConnBroken \/ ConnComplete
    \/ \E c \in Conns : CountEntry(c) \/ WakeSent(c) \/ WakeFull(c)
    \/ WakeupTx \/ WakePick \/ WakeNext \/ WakeDone
    \/ Reset \/ ResetConn \/ Sync

\* Any task: advertising is refused where no connection could be allocated.
Advertise ==
    /\ ~adv
    /\ Cardinality(conns) < MaxConns
    /\ adv' = TRUE
    /\ UNCHANGED <<conns, avail, connVars, hostAt, loopVars, evts, radio>>

\* A command got no answer in time, or the controller reported an error.
Fault ==
    /\ Faults
    /\ ~ResetQueued
    /\ SchedReset
    /\ UNCHANGED <<conns, avail, connVars, adv, hostAt, loopVars, radio>>

(* --------------------- The controller (external) ----------------------- *)

Post(e) == Len(evts) < MaxEvents /\ evts' = Append(evts, e)

Complete ==
    \E done \in [Conns -> 0..MaxPkts] \ {None} :
        /\ \A c \in Conns : done[c] <= ctl[c]
        /\ ctl' = [c \in Conns |-> ctl[c] - done[c]]
        /\ Post([kind |-> "completed", pkts |-> done])
        /\ UNCHANGED <<conns, avail, connVars, adv, hostAt, loopVars, link, refusals>>

Disconnect(c) ==
    /\ link[c]
    /\ link' = [link EXCEPT ![c] = FALSE]
    /\ ctl' = [ctl EXCEPT ![c] = 0]
    /\ Post([kind |-> "disconn", conn |-> c, ok |-> TRUE])
    /\ UNCHANGED <<conns, avail, connVars, adv, hostAt, loopVars, refusals>>

RefuseDisconnect(c) ==
    /\ refusals < MaxRefusals
    /\ refusals' = refusals + 1
    /\ link[c]
    /\ Post([kind |-> "disconn", conn |-> c, ok |-> FALSE])
    /\ UNCHANGED <<conns, avail, connVars, adv, hostAt, loopVars, link, ctl>>

Connecting == \E i \in DOMAIN evts : evts[i].kind = "connect"

\* A connection ends the controller's advertising.
Connect(c) ==
    /\ adv
    /\ ~link[c]
    /\ ~Connecting
    /\ link' = [link EXCEPT ![c] = TRUE]
    /\ Post([kind |-> "connect", conn |-> c])
    /\ UNCHANGED <<conns, avail, connVars, adv, hostAt, loopVars, ctl, refusals>>

Controller ==
    \/ Complete
    \/ \E c \in Conns : Disconnect(c) \/ RefuseDisconnect(c) \/ Connect(c)

Init ==
    /\ conns = {}
    /\ avail = MaxPkts
    /\ outstanding = None
    /\ txq = [c \in Conns |-> <<>>]
    /\ frag = [c \in Conns |-> FALSE]
    /\ adv = FALSE
    /\ hostAt = "idle"
    /\ entries = None
    /\ cur = NULL
    /\ todo = {}
    /\ evts = <<>>
    /\ link = [c \in Conns |-> FALSE]
    /\ ctl = None
    /\ refusals = 0

Next ==
    \/ \E c \in Conns, n \in 1..MaxFrags : Send(c, n)
    \/ HostStep
    \/ Advertise
    \/ Fault
    \/ Controller

Spec == Init /\ [][Next]_vars

\* The host task runs, and the controller transmits and reports it.
FairSpec == Spec /\ WF_vars(HostStep) /\ WF_vars(Complete)

(* ----------------------------- Properties ------------------------------ *)

\* As long as no disconnection has been refused, the controller is never sent
\* more than it has buffers for.
WithinBuffers == refusals = 0 => SumFunction(ctl) <= MaxPkts

\* A queue waits only while the controller is full or the host task is about
\* to wake it (ble_hs_wakeup_tx is called wherever buffers are returned).
NoLostWakeup ==
    \A c \in Conns :
        txq[c] # <<>> => \/ avail = 0
                         \/ hostAt \in {"entries", "broken", "wakeup"}
                         \/ hostAt = "waking" /\ c \in todo \cup {cur}

\* A packet half sent is the next its connection sends, no other is begun, and
\* the flag that says so (and so "middle" in a fragment's header) is up exactly
\* while there is one.
OnlyHeadBegun(q) == \A i \in DOMAIN q : q[i].begun => i = 1
HalfSentIsNext ==
    \A c \in Conns :
        /\ OnlyHeadBegun(txq[c])
        /\ frag[c] <=> txq[c] # <<>> /\ Head(txq[c]).begun

\* The count of free buffers, of which ble_hs_hci.c:67 says "The number of
\* available ACL transmit buffers on the controller": once every event is
\* handled, it does not fall short of them ...
Settled == hostAt = "idle" /\ evts = <<>>
NoBufferLost == Settled => avail + SumFunction(ctl) >= MaxPkts

\* ... nor exceed them.
NoBufferInvented == Settled => avail + SumFunction(ctl) <= MaxPkts

\* "If there is a connection with a partially transmitted packet, it has to be
\* serviced first" (ble_hs.c:295).
PartialFirst ==
    [][\A c, d \in Conns : c # d /\ link[c] /\ frag[c] /\ frag'[c]
                           => outstanding'[d] <= outstanding[d]]_vars

\* While the controller holds packets or has buffers the host knows of, a
\* queue is emptied or moves: again and again a fragment of it is sent.
Moves(c) == []<>(txq[c] = <<>>) \/ []<><<outstanding'[c] > outstanding[c]>>_vars
QueuesMove ==
    []<>(avail + SumFunction(ctl) > 0 \/ evts # <<>>)
        => \A c \in Conns : Moves(c)

=============================================================================
