----------------------------- MODULE Indications -----------------------------
(***************************************************************************)
(* How a change of the services reaches the central: the main task marks   *)
(* the Service Changed characteristic in the connection's configuration    *)
(* (ble_gatts_chr_updated) and puts an event into the host's queue; the    *)
(* host task sends one indication at a time and the next when the central  *)
(* has confirmed it.  Confirmations and writes come through a queue of     *)
(* packets with an event of its own (ble_hs_rx_q).  Both events are        *)
(* objects that are put again and again: a flag (queued) keeps each in the *)
(* queue once, and is tested, set and cleared outside any lock.            *)
(***************************************************************************)
EXTENDS Naturals, Sequences, SequencesExt

CONSTANT MaxPackets  \* bounds the packets received and not yet handled

ASSUME PacketCount == MaxPackets \in Nat \ {0}

VARIABLES
    link,         \* the controller is connected
    advertising,  \* the host advertises
    ending,       \* ble_gap_terminate was called for the link
    refused,      \* it was, and the link stays (history)
    unconfirmed,  \* indications the central has and has not confirmed
    conn,         \* the connection in ble_hs_conns
    proc,         \* an indicate procedure is in ble_gattc_procs
    packets,      \* ble_hs_rx_q
    evq,          \* the event queue of the host task
    queued,       \* the events whose flag is set
    pc,           \* where each task is
    handled,      \* the event the host task has in hand
    due,          \* a subscribed central has not been told of a change (history)
    failure       \* memory was written through NULL

peerVars == <<link, ending, refused, unconfirmed>>
connVars == <<conn, proc, advertising>>
evqVars == <<evq, queued>>
vars == <<peerVars, connVars, packets, evqVars, pc, handled, due, failure>>

\* The tasks that put an event each, and their events.
Putters == {"main", "controller"}
Put(t) == IF t = "main" THEN "notify" ELSE "data"

\* ble_hs_ev_tx_notifications and the event of ble_hs_rx_q are static; those
\* of the controller's own events are allocated, one for each.
Static == {"notify", "data"}
Events == Static \cup {"connect", "disconnect"}

\* Packets of the central: the confirmation of an indication, and writes to
\* the configuration of Service Changed.
Packet == {"confirm", "subscribe", "unsubscribe"}

\* listed: in ble_hs_conns.  cfgs: it has its client configuration (clt_cfgs),
\* with the flags INDICATE and MODIFIED.  outstanding: indicate_val_handle.
NoConn == [listed |-> FALSE, cfgs |-> FALSE, subscribed |-> FALSE,
           modified |-> FALSE, outstanding |-> FALSE]
NewConn == [NoConn EXCEPT !.listed = TRUE, !.cfgs = TRUE]

Idle == [t \in Putters \cup {"host"} |-> "idle"]

Init ==
    /\ link = FALSE /\ advertising = TRUE /\ ending = FALSE /\ refused = FALSE
    /\ unconfirmed = 0
    /\ conn = NoConn /\ proc = FALSE
    /\ packets = <<>> /\ evq = <<>> /\ queued = {}
    /\ pc = Idle /\ handled = "none" /\ due = FALSE /\ failure = FALSE

Step(t, from, to) ==
    /\ ~failure
    /\ pc[t] = from
    /\ pc' = [pc EXCEPT ![t] = to]

(* ------------------------- Putting an event --------------------------- *)

\* Mutation of PutCheck: the flag is not looked at.
PutAlways(t) ==
    /\ Step(t, "check", "set")
    /\ UNCHANGED <<peerVars, connVars, packets, evqVars, handled, due, failure>>

\* npl_freertos_eventq_put: an event that is in the queue is not put again.
PutCheck(t) ==
    /\ Step(t, "check", IF Put(t) \in queued THEN "idle" ELSE "set")
    /\ UNCHANGED <<peerVars, connVars, packets, evqVars, handled, due, failure>>

PutSet(t) ==
    /\ Step(t, "set", "send")
    /\ queued' = queued \cup {Put(t)}
    /\ UNCHANGED <<peerVars, connVars, packets, evq, handled, due, failure>>

PutSend(t) ==
    /\ Step(t, "send", "idle")
    /\ evq' = Append(evq, Put(t))
    /\ UNCHANGED <<peerVars, connVars, packets, queued, handled, due, failure>>

PutEvent(t) == PutCheck(t) \/ PutSet(t) \/ PutSend(t)

(* --------------------- Main task and controller ----------------------- *)

\* ble_gatts_chr_updated.  A connection that is being taken down is still in
\* the list, its configuration is not: the flag is written through NULL.
Change ==
    /\ conn.listed => conn.cfgs
    /\ Step("main", "idle", IF conn.listed THEN "check" ELSE "idle")
    /\ conn' = [conn EXCEPT !.modified = conn.listed]
    /\ due' = (due \/ conn.subscribed)
    /\ UNCHANGED <<peerVars, proc, advertising, packets, evqVars, handled, failure>>

ChangeUnconfigured ==
    /\ conn.listed /\ ~conn.cfgs
    /\ Step("main", "idle", "idle")
    /\ failure' = TRUE
    /\ UNCHANGED <<peerVars, connVars, packets, evqVars, handled, due>>

\* The controller's task: a central connects; a packet of its comes; the link
\* ends, by itself or because it was told so.
Connect ==
    /\ advertising /\ ~link
    /\ Step("controller", "idle", "idle")
    /\ link' = TRUE /\ advertising' = FALSE
    /\ evq' = Append(evq, "connect")
    /\ UNCHANGED <<ending, refused, unconfirmed, conn, proc, packets, queued, handled,
                   due, failure>>

\* ble_hs_rx_data, ble_mqueue_put
Receive(p) ==
    /\ link /\ Len(packets) < MaxPackets
    /\ p = "confirm" => unconfirmed > 0
    /\ Step("controller", "idle", "check")
    /\ packets' = Append(packets, p)
    /\ unconfirmed' = IF p = "confirm" THEN unconfirmed - 1 ELSE unconfirmed
    /\ UNCHANGED <<link, ending, refused, connVars, evqVars, handled, due, failure>>

Disconnect ==
    /\ link
    /\ Step("controller", "idle", "idle")
    /\ link' = FALSE /\ ending' = FALSE /\ refused' = FALSE /\ unconfirmed' = 0
    /\ evq' = Append(evq, "disconnect")
    /\ UNCHANGED <<connVars, packets, queued, handled, due, failure>>

(* ----------------------------- Host task ------------------------------ *)

\* nimble_port_run takes an event, npl_freertos_eventq_get clears its flag.
Take ==
    /\ evq # <<>>
    /\ Step("host", "idle", "clear")
    /\ handled' = Head(evq)
    /\ evq' = Tail(evq)
    /\ UNCHANGED <<peerVars, connVars, packets, queued, due, failure>>

Handler == [notify |-> "schedule", data |-> "drain", connect |-> "accept", disconnect |-> "broken"]

\* Mutation of Clear: the flag stays set.
ClearNot ==
    /\ Step("host", "clear", Handler[handled])
    /\ UNCHANGED <<peerVars, connVars, packets, evqVars, handled, due, failure>>

Clear ==
    /\ Step("host", "clear", Handler[handled])
    /\ queued' = queued \ {handled}
    /\ UNCHANGED <<peerVars, connVars, packets, evq, handled, due, failure>>

HostStep(from, to) ==
    /\ Step("host", from, to)
    /\ UNCHANGED <<peerVars, evqVars, handled, failure>>

\* ble_gap_rx_conn_complete
Accept ==
    /\ HostStep("accept", "idle")
    /\ conn' = NewConn
    /\ UNCHANGED <<proc, advertising, packets, due>>

\* Mutation of Schedule: nobody asks whether one is outstanding.
ScheduleAnyway ==
    LET send == conn.modified /\ conn.subscribed
    IN  /\ HostStep("schedule", IF send THEN "transmit" ELSE "idle")
        /\ conn' = [conn EXCEPT !.modified = @ /\ ~send]
        /\ UNCHANGED <<proc, advertising, packets, due>>

\* ble_gatts_tx_notifications, ble_gatts_schedule_update
Schedule ==
    LET send == conn.modified /\ conn.subscribed /\ ~conn.outstanding
    IN  /\ HostStep("schedule", IF send THEN "transmit" ELSE "idle")
        /\ conn' = [conn EXCEPT !.modified = @ /\ ~send]
        /\ UNCHANGED <<proc, advertising, packets, due>>

\* ble_gattc_indicate_custom: there is no memory for the procedure or the
\* packet, or it is sent and then noted.  What comes after is the next packet
\* of ble_hs_rx_q, if it was sent for one.
Return == IF handled = "data" THEN "drain" ELSE "idle"

NotTransmitted ==
    /\ HostStep("transmit", Return)
    /\ due' = FALSE
    /\ UNCHANGED <<connVars, packets>>

Transmit ==
    /\ Step("host", "transmit", "record")
    /\ unconfirmed' = IF link THEN unconfirmed + 1 ELSE unconfirmed
    /\ due' = FALSE
    /\ UNCHANGED <<link, ending, refused, connVars, packets, evqVars, handled, failure>>

Record ==
    /\ HostStep("record", Return)
    /\ conn' = [conn EXCEPT !.outstanding = TRUE]
    /\ proc' = TRUE
    /\ UNCHANGED <<advertising, packets, due>>

\* ble_hs_process_rx_data_queue
Drained ==
    /\ packets = <<>>
    /\ HostStep("drain", "idle")
    /\ UNCHANGED <<connVars, packets, due>>

NextPacket(p) ==
    /\ packets # <<>> /\ Head(packets) = p
    /\ packets' = Tail(packets)

\* "Peer not connected; quietly discard packet."
Discard ==
    /\ ~conn.listed
    /\ \E p \in Packet : NextPacket(p)
    /\ HostStep("drain", "drain")
    /\ UNCHANGED <<connVars, due>>

\* ble_gattc_rx_indicate_rsp: the procedure may have timed out.
Confirm ==
    /\ conn.listed
    /\ NextPacket("confirm")
    /\ HostStep("drain", IF proc THEN "confirmed" ELSE "drain")
    /\ proc' = FALSE
    /\ UNCHANGED <<conn, advertising, due>>

\* ble_gatts_rx_indicate_ack
Acknowledge ==
    /\ HostStep("confirmed", "next")
    /\ conn' = [conn EXCEPT !.outstanding = FALSE]
    /\ UNCHANGED <<proc, advertising, packets, due>>

\* Mutation of SendNext: the change marked meanwhile is left to a later one.
SendNextNever ==
    /\ HostStep("next", "drain")
    /\ UNCHANGED <<connVars, packets, due>>

\* ble_gatts_send_next_indicate
SendNext ==
    /\ HostStep("next", IF conn.modified THEN "transmit" ELSE "drain")
    /\ conn' = [conn EXCEPT !.modified = FALSE]
    /\ UNCHANGED <<proc, advertising, packets, due>>

\* ble_gatts_clt_cfg_access_locked: a write that changes the flags replaces
\* them, MODIFIED with the others.
Write(p) ==
    /\ conn.listed
    /\ p \in {"subscribe", "unsubscribe"}
    /\ NextPacket(p)
    /\ HostStep("drain", "drain")
    /\ conn' = [conn EXCEPT !.subscribed = (p = "subscribe"), !.modified = FALSE]
    /\ due' = FALSE
    /\ UNCHANGED <<proc, advertising>>

\* ble_hs_hci_evt_acl_process: of a peer that is connected.
Process(p) ==
    IF ~conn.listed THEN Discard ELSE
    IF p = "confirm" THEN Confirm ELSE Write(p)

\* ble_gap_conn_broken: the configuration is freed, the procedures fail, the
\* connection is deleted; then advertising begins again.
FreeConfiguration ==
    /\ HostStep("broken", "failing")
    /\ conn' = [conn EXCEPT !.cfgs = FALSE, !.subscribed = FALSE, !.modified = FALSE]
    /\ due' = FALSE
    /\ UNCHANGED <<proc, advertising, packets>>

FailProcedures ==
    /\ HostStep("failing", "delete")
    /\ proc' = FALSE
    /\ UNCHANGED <<conn, advertising, packets, due>>

Delete ==
    /\ HostStep("delete", "idle")
    /\ conn' = NoConn
    /\ advertising' = TRUE
    /\ UNCHANGED <<proc, packets, due>>

HostIndicates == Schedule \/ NotTransmitted \/ Transmit \/ Record
HostReceives  == \/ Drained \/ Acknowledge \/ SendNext
                 \/ \E p \in Packet : Process(p)
HostEnds      == FreeConfiguration \/ FailProcedures \/ Delete
Host == Take \/ Clear \/ Accept \/ HostIndicates \/ HostReceives \/ HostEnds

\* Mutation of Timeout: the link is not told to end.
TimeoutQuiet ==
    /\ ~failure
    /\ proc
    /\ proc' = FALSE
    /\ UNCHANGED <<peerVars, conn, advertising, packets, evqVars, pc, handled, due, failure>>

\* ble_gattc_timer, in the timer task: 30 s without a confirmation; the link
\* is told to end, unless it has.  Nobody looks at the result of that: when the
\* command fails the link stays.
Timeout ==
    /\ ~failure
    /\ proc
    /\ proc' = FALSE
    /\ \/ ending' = link /\ UNCHANGED refused
       \/ link /\ refused' = TRUE /\ UNCHANGED ending
    /\ UNCHANGED <<link, unconfirmed, conn, advertising, packets, evqVars, pc, handled,
                   due, failure>>

\* The controller has taken the command and does not end the link: of the event
\* that says so (TERM_FAILURE) the host and the server make nothing.
EndRefused ==
    /\ ~failure
    /\ ending
    /\ ending' = FALSE /\ refused' = TRUE
    /\ UNCHANGED <<link, unconfirmed, connVars, packets, evqVars, pc, handled, due, failure>>

\* The fault restarts the chip.
Restart ==
    /\ failure
    /\ link' = FALSE /\ advertising' = TRUE /\ ending' = FALSE /\ refused' = FALSE
    /\ unconfirmed' = 0
    /\ conn' = NoConn /\ proc' = FALSE
    /\ packets' = <<>> /\ evq' = <<>> /\ queued' = {}
    /\ pc' = Idle /\ handled' = "none" /\ due' = FALSE /\ failure' = FALSE

Main == Change \/ ChangeUnconfigured
Controller == Connect \/ Disconnect \/ EndRefused \/ \E p \in Packet : Receive(p)

Next ==
    \/ Main \/ Controller \/ Host \/ Timeout \/ Restart
    \/ \E t \in Putters : PutEvent(t)

Spec == Init /\ [][Next]_vars

\* The tasks run; the timer runs; a central that is told to go, goes, unless the
\* controller refuses to end the link.
FairSpec ==
    /\ Spec
    /\ WF_vars(Host) /\ \A t \in Putters : WF_vars(PutEvent(t))
    /\ WF_vars(Timeout) /\ SF_vars(ending /\ Disconnect)

(* ----------------------------- Properties ----------------------------- *)

HostPlaces ==
    {"idle", "clear", "schedule", "transmit", "record", "drain", "confirmed",
     "next", "accept", "broken", "failing", "delete"}

Once(e, s) == \A i, j \in 1..Len(s) : s[i] = e /\ s[j] = e => i = j
Before(a, b, s) == \A i, j \in 1..Len(s) : s[i] = a /\ s[j] = b => i < j

\* The queue has one place for each event: one that is put over and over is in
\* it once, or a put would wait for ever for a place.
OncePerEvent == \A e \in Static : Once(e, evq)

TypeOK ==
    /\ OncePerEvent
    /\ link \in BOOLEAN /\ advertising \in BOOLEAN
    /\ ending \in BOOLEAN /\ refused \in BOOLEAN
    /\ unconfirmed \in Nat
    /\ conn \in [listed : BOOLEAN, cfgs : BOOLEAN, subscribed : BOOLEAN,
                 modified : BOOLEAN, outstanding : BOOLEAN]
    /\ proc \in BOOLEAN
    /\ packets \in Seq(Packet) /\ Len(packets) <= MaxPackets
    /\ evq \in Seq(Events)
    /\ queued \subseteq Static
    /\ pc \in [Putters \cup {"host"} -> {"check", "set", "send"} \cup HostPlaces]
    /\ handled \in Events \cup {"none"}
    /\ due \in BOOLEAN /\ failure \in BOOLEAN

\* ble_gatts.c:1339: a central never has two indications to confirm, whatever
\* is changed and however its confirmations and its writes are delayed.
OneOutstanding ==
    /\ unconfirmed <= 1 /\ Once("confirm", packets)
    /\ Contains(packets, "confirm") => unconfirmed = 0

\* What a central sent while it was connected is handled while the host knows
\* it: no packet meets a connection that is not there yet or not any more,
\* though packets and the controller's events travel by different queues.
NoneDiscarded ==
    /\ pc["host"] = "drain" /\ packets # <<>> => conn.listed
    /\ pc["host"] \in {"broken", "failing", "delete"} => packets = <<>>

\* A change that a subscribed central is owed is on its way: an event is or
\* will be in the queue, or a confirmation is awaited, or the link ends.  The
\* one exception is a link that was to end and could not be ended: the
\* indication outstanding on it is never given up, and no other is sent.
Scheduled ==
    \/ Contains(evq, "notify")
    \/ pc["main"] \in {"check", "set", "send"}
    \/ handled = "notify" /\ pc["host"] \in {"clear", "schedule"}

\* The link has ended, is told to end, or was told in vain.
Ended == ending \/ refused \/ ~link
Awaited == conn.outstanding /\ (proc \/ pc["host"] = "confirmed" \/ Ended)

ChangeOnItsWay ==
    due => \/ pc["host"] = "transmit"
           \/ conn.modified /\ (Scheduled \/ Awaited \/ pc["host"] = "next")

\* Every change is told in the end to a central that has subscribed; unless
\* memory was short, the central wrote its configuration, or it has gone, or
\* could not be made to go when it did not confirm.
ChangeTold == due ~> ~due \/ refused

\* ble_gatts.c:1412: what is indicated was subscribed to.
Subscribed == pc["host"] = "transmit" => conn.subscribed

\* ble_gatts.c:1552: a connection in the list has its configuration.
Configured == ~failure

\* ble_svc_gatt.c:76: all subscribed peers are told of a change.
NoneForgotten ==
    [][due /\ ~due' => unconfirmed' > unconfirmed \/ ~link \/ ~conn'.subscribed]_vars

(* --------------------------- Why they hold ---------------------------- *)

\* The host task has the event in hand; its flag is still set.
Taken(e) == handled = e /\ pc["host"] # "idle"
Flagged(e) == handled = e /\ pc["host"] = "clear"

\* The step the host task is at belongs to its event.
Places ==
    /\ pc["host"] = "schedule" => handled = "notify"
    /\ pc["host"] \in {"drain", "confirmed", "next"} => handled = "data"
    /\ pc["host"] \in {"transmit", "record"} => handled \in Static /\ conn.listed
    /\ pc["host"] = "accept" => handled = "connect"
    /\ pc["host"] \in {"broken", "failing", "delete"} => handled = "disconnect"
    /\ pc["host"] = "clear" => handled \in Events

\* The flag of an event is set while it is in the queue, while its task is
\* about to send it and while it has just been taken: one of the three.
Flags ==
    \A t \in Putters :
        /\ Put(t) \in queued <=> Contains(evq, Put(t)) \/ Flagged(Put(t)) \/ pc[t] = "send"
        /\ pc[t] \in {"set", "send"} \/ Flagged(Put(t)) => ~Contains(evq, Put(t))
        /\ pc[t] \in {"set", "send"} => ~Flagged(Put(t))

\* The host learns of one connection and one disconnection at a time.
Arriving == Contains(evq, "connect") \/ Taken("connect")
Leaving  == Contains(evq, "disconnect") \/ Taken("disconnect")

Links ==
    /\ Once("connect", evq) /\ Once("disconnect", evq)
    /\ ~(Contains(evq, "connect") /\ Taken("connect"))
    /\ ~(Contains(evq, "disconnect") /\ Taken("disconnect"))
    /\ advertising => ~link /\ ~Arriving /\ ~Leaving /\ ~conn.listed
    /\ ~advertising => (Arriving <=> ~conn.listed) /\ (Leaving <=> ~link)
    /\ Taken("disconnect") => conn.listed
    /\ ~conn.listed => ~conn.cfgs /\ ~conn.outstanding
    /\ conn.listed => (conn.cfgs <=> pc["host"] \notin {"failing", "delete"})
    /\ ~conn.cfgs => ~conn.subscribed /\ ~conn.modified
    /\ ~link => unconfirmed = 0 /\ ~ending /\ ~refused
    /\ pc["controller"] # "idle" => link

\* Packets are handled after the connection is known and before it ends.
Order ==
    /\ Before("connect", "disconnect", evq)
    /\ Before("connect", "data", evq)
    /\ Before("data", "disconnect", evq)
    /\ packets # <<>> =>
           pc["controller"] # "idle" \/ Contains(evq, "data") \/ Taken("data")
    /\ advertising \/ Taken("disconnect") => packets = <<>> /\ ~Contains(evq, "data")
    /\ Taken("data") => conn.listed

\* An indication that is not confirmed is the one the host has noted.
Confirming ==
    /\ OneOutstanding
    /\ unconfirmed = 1 \/ Contains(packets, "confirm") =>
           /\ pc["host"] \notin {"transmit", "confirmed", "next"}
           /\ pc["host"] = "record" \/ conn.outstanding
    /\ pc["host"] \in {"transmit", "record", "next"} => ~conn.outstanding

Changes ==
    /\ conn.outstanding => proc \/ pc["host"] = "confirmed" \/ Ended
    /\ due => pc["host"] = "transmit" \/ conn.subscribed
    /\ ChangeOnItsWay

IInv == TypeOK /\ Places /\ Flags /\ Links /\ Order /\ Confirming /\ Changes
=============================================================================
