-------------------------- MODULE IndicationsProofs --------------------------
(***************************************************************************)
(* For any number of packets waiting: a central never has two indications  *)
(* to confirm, nothing it sent is discarded, and a change it is owed is    *)
(* on its way.                                                             *)
(***************************************************************************)
EXTENDS Indications, TLAPS

(* ------------------------------- Queues -------------------------------- *)

\* A queue that is put to: what it holds, what it holds once, in which order.
LEMMA Appended ==
    ASSUME NEW S, NEW s \in Seq(S), NEW e \in S
    PROVE  /\ Append(s, e) \in Seq(S)
           /\ Append(s, e) # <<>>
           /\ \A x : Contains(Append(s, e), x) <=> Contains(s, x) \/ x = e
           /\ \A x : Once(x, s) /\ (x = e => ~Contains(s, x)) => Once(x, Append(s, e))
           /\ \A a, b : a # b /\ Before(a, b, s) /\ (e = a => ~Contains(s, b))
                            => Before(a, b, Append(s, e))
<1> DEFINE r == Append(s, e)
<1>1. /\ r \in Seq(S) /\ r # <<>> /\ Len(r) = Len(s) + 1
      /\ \A i \in 1..Len(s) : r[i] = s[i]
      /\ r[Len(s) + 1] = e
  OBVIOUS
<1>2. Len(s) \in Nat
  OBVIOUS
<1> HIDE DEF r
<1>3. \A x : Contains(r, x) <=> Contains(s, x) \/ x = e
  BY <1>1, <1>2 DEF Contains
<1>4. \A x : Once(x, s) /\ (x = e => ~Contains(s, x)) => Once(x, r)
  BY <1>1, <1>2 DEF Contains, Once
<1>5. \A a, b : a # b /\ Before(a, b, s) /\ (e = a => ~Contains(s, b)) => Before(a, b, r)
  BY <1>1, <1>2 DEF Contains, Before
<1> QED
  BY <1>1, <1>3, <1>4, <1>5 DEF r

\* A queue that is taken from.
LEMMA TakenFrom ==
    ASSUME NEW S, NEW s \in Seq(S), s # <<>>
    PROVE  /\ Head(s) \in S /\ Tail(s) \in Seq(S) /\ Len(Tail(s)) < Len(s)
           /\ \A x : Contains(s, x) <=> x = Head(s) \/ Contains(Tail(s), x)
           /\ \A x : Once(x, s) => Once(x, Tail(s)) /\ (x = Head(s) => ~Contains(Tail(s), x))
           /\ \A a, b : Before(a, b, s) => Before(a, b, Tail(s))
           /\ \A a, b : a # b /\ Before(a, b, s) /\ b = Head(s) => ~Contains(s, a)
<1> DEFINE r == Tail(s)
<1>1. /\ Head(s) \in S /\ r \in Seq(S) /\ Len(r) = Len(s) - 1 /\ Len(s) \in Nat \ {0}
      /\ \A i \in 1..Len(r) : r[i] = s[i + 1]
      /\ Head(s) = s[1]
  OBVIOUS
<1> HIDE DEF r
<1>2. \A i \in 1..Len(s) : i = 1 \/ (i - 1 \in 1..Len(r) /\ s[i] = r[i - 1])
  BY <1>1
<1>3. \A x : Contains(s, x) <=> x = Head(s) \/ Contains(r, x)
  <2>1. \A x : Contains(s, x) => x = Head(s) \/ Contains(r, x)
    BY <1>1, <1>2 DEF Contains
  <2>2. \A x : Contains(r, x) => Contains(s, x)
    BY <1>1 DEF Contains
  <2>3. Contains(s, Head(s))
    BY <1>1 DEF Contains
  <2> QED
    BY <2>1, <2>2, <2>3
<1>4. \A x : Once(x, s) => Once(x, r) /\ (x = Head(s) => ~Contains(r, x))
  BY <1>1 DEF Contains, Once
<1>5. \A a, b : Before(a, b, s) => Before(a, b, r)
  BY <1>1 DEF Before
<1>6. \A a, b : a # b /\ Before(a, b, s) /\ b = Head(s) => ~Contains(s, a)
  BY <1>1 DEF Contains, Before
<1> QED
  BY <1>1, <1>3, <1>4, <1>5, <1>6 DEF r

\* A queue with nothing in it.
LEMMA Empty ==
    ASSUME NEW S
    PROVE  /\ <<>> \in Seq(S)
           /\ \A x : ~Contains(<<>>, x) /\ Once(x, <<>>)
           /\ \A a, b : Before(a, b, <<>>)
  BY DEF Contains, Once, Before

(* -------------------------------- Steps --------------------------------- *)

\* TypeOK in two parts: the queues, and the other variables.
Queues ==
    /\ OncePerEvent
    /\ evq \in Seq(Events)
    /\ packets \in Seq(Packet) /\ Len(packets) <= MaxPackets

Values ==
    /\ link \in BOOLEAN /\ advertising \in BOOLEAN
    /\ ending \in BOOLEAN /\ refused \in BOOLEAN
    /\ unconfirmed \in Nat
    /\ conn \in [listed : BOOLEAN, cfgs : BOOLEAN, subscribed : BOOLEAN,
                 modified : BOOLEAN, outstanding : BOOLEAN]
    /\ proc \in BOOLEAN
    /\ queued \subseteq Static
    /\ pc \in [Putters \cup {"host"} -> {"check", "set", "send"} \cup HostPlaces]
    /\ handled \in Events \cup {"none"}
    /\ due \in BOOLEAN /\ failure \in BOOLEAN

LEMMA Types == TypeOK <=> Queues /\ Values
  BY DEF TypeOK, Queues, Values

\* The queues keep their type, and no event is in its queue twice.
LEMMA QueuesStep == IInv /\ Next => Queues'
<1> SUFFICES ASSUME IInv, Next PROVE Queues'
  OBVIOUS
<1> USE DEF Queues, OncePerEvent, Step, HostStep, peerVars, connVars, evqVars
<1>1. ASSUME NEW t \in Putters, PutCheck(t) PROVE Queues'
  BY <1>1, Types DEF PutCheck, IInv
<1>2. ASSUME NEW t \in Putters, PutSet(t) PROVE Queues'
  BY <1>2, Types DEF PutSet, IInv
<1>3. ASSUME NEW t \in Putters, PutSend(t) PROVE Queues'
  <2>1. ~Contains(evq, Put(t)) /\ Put(t) \in Events
    BY <1>3 DEF PutSend, IInv, Flags, Events, Static, Put, Putters
  <2>2. evq \in Seq(Events) /\ evq' = Append(evq, Put(t)) /\ packets' = packets
    BY <1>3, Types DEF PutSend, IInv
  <2> QED
    BY <2>1, <2>2, Appended, Types DEF IInv
<1>4. CASE Change
  BY <1>4, Types DEF Change, IInv
<1>5. CASE ChangeUnconfigured
  BY <1>5, Types DEF ChangeUnconfigured, IInv
<1>6. CASE Connect
  <2>1. evq \in Seq(Events) /\ evq' = Append(evq, "connect") /\ packets' = packets
    BY <1>6, Types DEF Connect, IInv
  <2>2. "connect" \in Events /\ \A e \in Static : e # "connect"
    BY DEF Events, Static
  <2> QED
    BY <2>1, <2>2, Appended, Types DEF IInv
<1>7. ASSUME NEW p \in Packet, Receive(p) PROVE Queues'
  <2>1. packets' = Append(packets, p) /\ packets \in Seq(Packet)
      /\ Len(packets) < MaxPackets /\ evq' = evq
    BY <1>7, Types DEF Receive, IInv
  <2>2. packets' \in Seq(Packet) /\ Len(packets') <= MaxPackets
    BY <2>1, PacketCount
  <2> QED
    BY <2>1, <2>2, Types DEF IInv
<1>8. CASE Disconnect
  <2>1. evq \in Seq(Events) /\ evq' = Append(evq, "disconnect") /\ packets' = packets
    BY <1>8, Types DEF Disconnect, IInv
  <2>2. "disconnect" \in Events /\ \A e \in Static : e # "disconnect"
    BY DEF Events, Static
  <2> QED
    BY <2>1, <2>2, Appended, Types DEF IInv
<1>9. CASE Take
  <2>1. evq \in Seq(Events) /\ evq # <<>> /\ evq' = Tail(evq) /\ packets' = packets
    BY <1>9, Types DEF Take, IInv
  <2> QED
    BY <2>1, TakenFrom, Types DEF IInv
<1>10. CASE Clear
  BY <1>10, Types DEF Clear, IInv
<1>11. CASE Accept
  BY <1>11, Types DEF Accept, IInv
<1>12. CASE Schedule
  BY <1>12, Types DEF Schedule, IInv
<1>13. CASE NotTransmitted
  BY <1>13, Types DEF NotTransmitted, IInv
<1>14. CASE Transmit
  BY <1>14, Types DEF Transmit, IInv
<1>15. CASE Record
  BY <1>15, Types DEF Record, IInv
<1>16. CASE Drained
  BY <1>16, Types DEF Drained, IInv
<1>17. CASE Discard
  <2>1. packets \in Seq(Packet) /\ packets # <<>> /\ packets' = Tail(packets) /\ evq' = evq
    BY <1>17, Types DEF Discard, NextPacket, IInv
  <2>2. packets' \in Seq(Packet) /\ Len(packets') <= MaxPackets
    BY <2>1, PacketCount, Types DEF IInv
  <2> QED
    BY <2>1, <2>2, Types DEF IInv
<1>18. CASE Confirm
  <2>1. packets \in Seq(Packet) /\ packets # <<>> /\ packets' = Tail(packets) /\ evq' = evq
    BY <1>18, Types DEF Confirm, NextPacket, IInv
  <2>2. packets' \in Seq(Packet) /\ Len(packets') <= MaxPackets
    BY <2>1, PacketCount, Types DEF IInv
  <2> QED
    BY <2>1, <2>2, Types DEF IInv
<1>19. CASE Acknowledge
  BY <1>19, Types DEF Acknowledge, IInv
<1>20. CASE SendNext
  BY <1>20, Types DEF SendNext, IInv
<1>21. ASSUME NEW p \in Packet, Write(p) PROVE Queues'
  <2>1. packets \in Seq(Packet) /\ packets # <<>> /\ packets' = Tail(packets) /\ evq' = evq
    BY <1>21, Types DEF Write, NextPacket, IInv
  <2>2. packets' \in Seq(Packet) /\ Len(packets') <= MaxPackets
    BY <2>1, PacketCount, Types DEF IInv
  <2> QED
    BY <2>1, <2>2, Types DEF IInv
<1>22. CASE FreeConfiguration
  BY <1>22, Types DEF FreeConfiguration, IInv
<1>23. CASE FailProcedures
  BY <1>23, Types DEF FailProcedures, IInv
<1>24. CASE Delete
  BY <1>24, Types DEF Delete, IInv
<1>25. CASE Timeout
  BY <1>25, Types DEF Timeout, IInv
<1>26. CASE Restart
  <2>1. evq' = <<>> /\ packets' = <<>>
    BY <1>26 DEF Restart
  <2> QED
    BY <2>1, Empty, PacketCount
<1>27. CASE EndRefused
  BY <1>27, Types DEF EndRefused, IInv
<1> QED
  BY <1>1, <1>2, <1>3, <1>4, <1>5, <1>6, <1>7, <1>8, <1>9, <1>10, <1>11, <1>12,
     <1>13, <1>14, <1>15, <1>16, <1>17, <1>18, <1>19, <1>20, <1>21, <1>22, <1>23,
     <1>24, <1>25, <1>26, <1>27
     DEF Next, Main, Controller, PutEvent, Host, HostIndicates, HostReceives, HostEnds,
         Process

\* The other variables keep their types.
LEMMA ValuesStep == IInv /\ Next => Values'
<1> SUFFICES ASSUME IInv, Next PROVE Values'
  OBVIOUS
<1> USE DEF Values, Step, HostStep, Putters, Static, Events, HostPlaces, peerVars,
            connVars, evqVars
<1>0. Values
  BY Types DEF IInv
<1>1. ASSUME NEW t \in Putters, PutCheck(t) PROVE Values'
  BY <1>1, Types DEF PutCheck, IInv
<1>2. ASSUME NEW t \in Putters, PutSet(t) PROVE Values'
  BY <1>2, Types DEF PutSet, IInv, Put
<1>3. ASSUME NEW t \in Putters, PutSend(t) PROVE Values'
  BY <1>3, Types DEF PutSend, IInv
<1>4. CASE Change
  <2>1. pc' \in [Putters \cup {"host"} -> {"check", "set", "send"} \cup HostPlaces]
    BY <1>4, Types DEF Change, IInv
  <2>2. conn' \in [listed : BOOLEAN, cfgs : BOOLEAN, subscribed : BOOLEAN,
                   modified : BOOLEAN, outstanding : BOOLEAN]
    BY <1>4, Types DEF Change, IInv, NoConn, NewConn
  <2> QED
    BY <1>4, <2>1, <2>2, Types DEF Change, IInv
<1>5. CASE ChangeUnconfigured
  BY <1>5, Types DEF ChangeUnconfigured, IInv
<1>6. CASE Connect
  BY <1>6, Types DEF Connect, IInv
<1>7. ASSUME NEW p \in Packet, Receive(p) PROVE Values'
  BY <1>7, Types DEF Receive, IInv
<1>8. CASE Disconnect
  BY <1>8, Types DEF Disconnect, IInv
<1>9. CASE Take
  <2>1. Head(evq) \in Events
    BY <1>9, Types, TakenFrom DEF Take, Queues, IInv
  <2> QED
    BY <1>9, <2>1, Types DEF Take, IInv
<1>10. CASE Clear
  <2>1. Handler[handled] \in HostPlaces /\ pc["host"] = "clear"
    BY <1>10, Types DEF Clear, IInv, Places, Handler
  <2>2. pc' \in [Putters \cup {"host"} -> {"check", "set", "send"} \cup HostPlaces]
    BY <1>10, <2>1, Types DEF Clear, IInv
  <2> QED
    BY <1>10, <2>2, Types DEF Clear, IInv
<1>11. CASE Accept
  <2>1. pc' \in [Putters \cup {"host"} -> {"check", "set", "send"} \cup HostPlaces]
    BY <1>11, Types DEF Accept, IInv
  <2>2. conn' \in [listed : BOOLEAN, cfgs : BOOLEAN, subscribed : BOOLEAN,
                   modified : BOOLEAN, outstanding : BOOLEAN]
    BY <1>11, Types DEF Accept, IInv, NoConn, NewConn
  <2> QED
    BY <1>11, <2>1, <2>2, Types DEF Accept, IInv
<1>12. CASE Schedule
  <2>1. pc' \in [Putters \cup {"host"} -> {"check", "set", "send"} \cup HostPlaces]
    BY <1>12, Types DEF Schedule, IInv
  <2>2. conn' \in [listed : BOOLEAN, cfgs : BOOLEAN, subscribed : BOOLEAN,
                   modified : BOOLEAN, outstanding : BOOLEAN]
    BY <1>12, Types DEF Schedule, IInv, NoConn, NewConn
  <2> QED
    BY <1>12, <2>1, <2>2, Types DEF Schedule, IInv
<1>13. CASE NotTransmitted
  <2>1. pc' \in [Putters \cup {"host"} -> {"check", "set", "send"} \cup HostPlaces]
    BY <1>13, Types DEF NotTransmitted, IInv, Return
  <2>2. conn' \in [listed : BOOLEAN, cfgs : BOOLEAN, subscribed : BOOLEAN,
                   modified : BOOLEAN, outstanding : BOOLEAN]
    BY <1>13, Types DEF NotTransmitted, IInv, NoConn, NewConn
  <2> QED
    BY <1>13, <2>1, <2>2, Types DEF NotTransmitted, IInv
<1>14. CASE Transmit
  <2>1. unconfirmed' \in Nat
    <3>1. unconfirmed \in Nat
      BY <1>0
    <3>2. unconfirmed' = IF link THEN unconfirmed + 1 ELSE unconfirmed
      BY <1>14 DEF Transmit
    <3> QED
      BY <3>1, <3>2
  <2>2. pc' \in [Putters \cup {"host"} -> {"check", "set", "send"} \cup HostPlaces]
    BY <1>0, <1>14 DEF Transmit
  <2>3. /\ UNCHANGED <<link, ending, refused, connVars, evqVars, handled, failure>>
        /\ due' = FALSE
    BY <1>14 DEF Transmit
  <2>4. conn' \in [listed : BOOLEAN, cfgs : BOOLEAN, subscribed : BOOLEAN,
                   modified : BOOLEAN, outstanding : BOOLEAN]
    BY <1>0, <2>3
  <2> QED
    BY <1>0, <2>1, <2>2, <2>3, <2>4
<1>15. CASE Record
  <2>1. pc' \in [Putters \cup {"host"} -> {"check", "set", "send"} \cup HostPlaces]
    BY <1>15, Types DEF Record, IInv, Return
  <2>2. conn' \in [listed : BOOLEAN, cfgs : BOOLEAN, subscribed : BOOLEAN,
                   modified : BOOLEAN, outstanding : BOOLEAN]
    BY <1>15, Types DEF Record, IInv, NoConn, NewConn
  <2>3. /\ UNCHANGED <<peerVars, evqVars, handled, failure, advertising, due>>
        /\ proc' = TRUE
    BY <1>15 DEF Record
  <2> QED
    BY <1>0, <2>1, <2>2, <2>3
<1>16. CASE Drained
  BY <1>16, Types DEF Drained, IInv
<1>17. CASE Discard
  BY <1>17, Types DEF Discard, IInv
<1>18. CASE Confirm
  <2>1. pc' \in [Putters \cup {"host"} -> {"check", "set", "send"} \cup HostPlaces]
    BY <1>0, <1>18 DEF Confirm
  <2>2. /\ UNCHANGED <<peerVars, conn, advertising, evqVars, handled, due, failure>>
        /\ proc' = FALSE
    BY <1>18 DEF Confirm
  <2>3. conn' \in [listed : BOOLEAN, cfgs : BOOLEAN, subscribed : BOOLEAN,
                   modified : BOOLEAN, outstanding : BOOLEAN]
    BY <1>0, <2>2
  <2> QED
    BY <1>0, <2>1, <2>2, <2>3
<1>19. CASE Acknowledge
  <2>1. pc' \in [Putters \cup {"host"} -> {"check", "set", "send"} \cup HostPlaces]
    BY <1>19, Types DEF Acknowledge, IInv
  <2>2. conn' \in [listed : BOOLEAN, cfgs : BOOLEAN, subscribed : BOOLEAN,
                   modified : BOOLEAN, outstanding : BOOLEAN]
    BY <1>19, Types DEF Acknowledge, IInv, NoConn, NewConn
  <2> QED
    BY <1>19, <2>1, <2>2, Types DEF Acknowledge, IInv
<1>20. CASE SendNext
  <2>1. pc' \in [Putters \cup {"host"} -> {"check", "set", "send"} \cup HostPlaces]
    BY <1>20, Types DEF SendNext, IInv
  <2>2. conn' \in [listed : BOOLEAN, cfgs : BOOLEAN, subscribed : BOOLEAN,
                   modified : BOOLEAN, outstanding : BOOLEAN]
    BY <1>20, Types DEF SendNext, IInv, NoConn, NewConn
  <2> QED
    BY <1>20, <2>1, <2>2, Types DEF SendNext, IInv
<1>21. ASSUME NEW p \in Packet, Write(p) PROVE Values'
  <2>1. pc' \in [Putters \cup {"host"} -> {"check", "set", "send"} \cup HostPlaces]
    BY <1>21, Types DEF Write, IInv
  <2>2. conn' \in [listed : BOOLEAN, cfgs : BOOLEAN, subscribed : BOOLEAN,
                   modified : BOOLEAN, outstanding : BOOLEAN]
    BY <1>21, Types DEF Write, IInv, NoConn, NewConn
  <2> QED
    BY <1>21, <2>1, <2>2, Types DEF Write, IInv
<1>22. CASE FreeConfiguration
  <2>1. pc' \in [Putters \cup {"host"} -> {"check", "set", "send"} \cup HostPlaces]
    BY <1>22, Types DEF FreeConfiguration, IInv
  <2>2. conn' \in [listed : BOOLEAN, cfgs : BOOLEAN, subscribed : BOOLEAN,
                   modified : BOOLEAN, outstanding : BOOLEAN]
    BY <1>22, Types DEF FreeConfiguration, IInv, NoConn, NewConn
  <2>3. /\ UNCHANGED <<peerVars, evqVars, handled, failure, proc, advertising>>
        /\ due' = FALSE
    BY <1>22 DEF FreeConfiguration
  <2> QED
    BY <1>0, <2>1, <2>2, <2>3
<1>23. CASE FailProcedures
  <2>1. pc' \in [Putters \cup {"host"} -> {"check", "set", "send"} \cup HostPlaces]
    BY <1>0, <1>23 DEF FailProcedures
  <2>2. /\ UNCHANGED <<peerVars, conn, advertising, evqVars, handled, due, failure>>
        /\ proc' = FALSE
    BY <1>23 DEF FailProcedures
  <2>3. conn' \in [listed : BOOLEAN, cfgs : BOOLEAN, subscribed : BOOLEAN,
                   modified : BOOLEAN, outstanding : BOOLEAN]
    BY <1>0, <2>2
  <2> QED
    BY <1>0, <2>1, <2>2, <2>3
<1>24. CASE Delete
  <2>1. pc' \in [Putters \cup {"host"} -> {"check", "set", "send"} \cup HostPlaces]
    BY <1>24, Types DEF Delete, IInv
  <2>2. conn' \in [listed : BOOLEAN, cfgs : BOOLEAN, subscribed : BOOLEAN,
                   modified : BOOLEAN, outstanding : BOOLEAN]
    BY <1>24, Types DEF Delete, IInv, NoConn, NewConn
  <2>3. /\ UNCHANGED <<peerVars, evqVars, handled, failure, proc, due>>
        /\ advertising' = TRUE
    BY <1>24 DEF Delete
  <2> QED
    BY <1>0, <2>1, <2>2, <2>3
<1>25. CASE Timeout
  BY <1>0, <1>25 DEF Timeout
<1>26. CASE Restart
  <2>1. conn' \in [listed : BOOLEAN, cfgs : BOOLEAN, subscribed : BOOLEAN,
                   modified : BOOLEAN, outstanding : BOOLEAN]
    BY <1>26 DEF Restart, NoConn
  <2> QED
    BY <1>26, <2>1 DEF Restart, Idle
<1>27. CASE EndRefused
  BY <1>0, <1>27 DEF EndRefused
<1> QED
  BY <1>1, <1>2, <1>3, <1>4, <1>5, <1>6, <1>7, <1>8, <1>9, <1>10, <1>11, <1>12,
     <1>13, <1>14, <1>15, <1>16, <1>17, <1>18, <1>19, <1>20, <1>21, <1>22, <1>23,
     <1>24, <1>25, <1>26, <1>27
     DEF Next, Main, Controller, PutEvent, Host, HostIndicates, HostReceives, HostEnds,
         Process

\* The host task is where its event takes it.
LEMMA PlacesStep == IInv /\ Next => Places'
<1> SUFFICES ASSUME IInv, Next PROVE Places'
  OBVIOUS
<1> USE DEF Places, Step, HostStep, Values, Putters, Static, Events, peerVars,
            connVars, evqVars
<1>1. ASSUME NEW t \in Putters, PutCheck(t) PROVE Places'
  BY <1>1, Types DEF PutCheck, IInv
<1>2. ASSUME NEW t \in Putters, PutSet(t) PROVE Places'
  BY <1>2, Types DEF PutSet, IInv
<1>3. ASSUME NEW t \in Putters, PutSend(t) PROVE Places'
  BY <1>3, Types DEF PutSend, IInv
<1>4. CASE Change
  BY <1>4, Types DEF Change, IInv
<1>5. CASE ChangeUnconfigured
  BY <1>5, Types DEF ChangeUnconfigured, IInv
<1>6. CASE Connect
  BY <1>6, Types DEF Connect, IInv
<1>7. ASSUME NEW p \in Packet, Receive(p) PROVE Places'
  BY <1>7, Types DEF Receive, IInv
<1>8. CASE Disconnect
  BY <1>8, Types DEF Disconnect, IInv
<1>9. CASE Take
  <2>1. Head(evq) \in Events
    BY <1>9, Types, TakenFrom DEF Take, Queues, IInv
  <2> QED
    BY <1>9, <2>1, Types DEF Take, IInv
<1>10. CASE Clear
  BY <1>10, Types DEF Clear, IInv, Handler
<1>11. CASE Accept
  BY <1>11, Types DEF Accept, IInv
<1>12. CASE Schedule
  <2>1. conn.modified => conn.listed
    BY DEF IInv, Links
  <2>2. conn.modified \in BOOLEAN /\ conn'.listed = conn.listed
    BY <1>12, Types DEF Schedule, IInv
  <2> QED
    BY <1>12, <2>1, <2>2, Types DEF Schedule, IInv
<1>13. CASE NotTransmitted
  BY <1>13, Types DEF NotTransmitted, IInv, Return
<1>14. CASE Transmit
  BY <1>14, Types DEF Transmit, IInv
<1>15. CASE Record
  BY <1>15, Types DEF Record, IInv, Return
<1>16. CASE Drained
  BY <1>16, Types DEF Drained, IInv
<1>17. CASE Discard
  BY <1>17, Types DEF Discard, IInv
<1>18. CASE Confirm
  BY <1>18, Types DEF Confirm, IInv
<1>19. CASE Acknowledge
  BY <1>19, Types DEF Acknowledge, IInv
<1>20. CASE SendNext
  <2>1. conn.modified => conn.listed
    BY DEF IInv, Links
  <2>2. conn.modified \in BOOLEAN /\ conn'.listed = conn.listed
    BY <1>20, Types DEF SendNext, IInv
  <2> QED
    BY <1>20, <2>1, <2>2, Types DEF SendNext, IInv
<1>21. ASSUME NEW p \in Packet, Write(p) PROVE Places'
  BY <1>21, Types DEF Write, IInv
<1>22. CASE FreeConfiguration
  BY <1>22, Types DEF FreeConfiguration, IInv
<1>23. CASE FailProcedures
  BY <1>23, Types DEF FailProcedures, IInv
<1>24. CASE Delete
  BY <1>24, Types DEF Delete, IInv
<1>25. CASE Timeout
  BY <1>25, Types DEF Timeout, IInv
<1>26. CASE Restart
  BY <1>26 DEF Restart, Idle
<1>27. CASE EndRefused
  BY <1>27, Types DEF EndRefused, IInv
<1> QED
  BY <1>1, <1>2, <1>3, <1>4, <1>5, <1>6, <1>7, <1>8, <1>9, <1>10, <1>11, <1>12,
     <1>13, <1>14, <1>15, <1>16, <1>17, <1>18, <1>19, <1>20, <1>21, <1>22, <1>23,
     <1>24, <1>25, <1>26, <1>27
     DEF Next, Main, Controller, PutEvent, Host, HostIndicates, HostReceives, HostEnds,
         Process

\* An event is flagged while it is in the queue.
LEMMA FlagsStep == IInv /\ Next => Flags'
<1> SUFFICES ASSUME IInv, Next PROVE Flags'
  OBVIOUS
<1> USE DEF Flags, Flagged, Put, Step, HostStep, Values, Putters, peerVars,
            connVars, evqVars
<1>1. ASSUME NEW t \in Putters, PutCheck(t) PROVE Flags'
  BY <1>1, Types DEF PutCheck, IInv
<1>2. ASSUME NEW t \in Putters, PutSet(t) PROVE Flags'
  BY <1>2, Types DEF PutSet, IInv
<1>3. ASSUME NEW t \in Putters, PutSend(t) PROVE Flags'
  <2>1. \A x : Contains(evq', x) <=> Contains(evq, x) \/ x = Put(t)
    BY <1>3, Types, Appended DEF PutSend, IInv, Queues, Events, Static
  <2> QED
    BY <1>3, <2>1, Types DEF PutSend, IInv
<1>4. CASE Change
  BY <1>4, Types DEF Change, IInv
<1>5. CASE ChangeUnconfigured
  BY <1>5, Types DEF ChangeUnconfigured, IInv
<1>6. CASE Connect
  <2>1. \A x : Contains(evq', x) <=> Contains(evq, x) \/ x = "connect"
    BY <1>6, Types, Appended DEF Connect, IInv, Queues, Events, Static
  <2> QED
    BY <1>6, <2>1, Types DEF Connect, IInv
<1>7. ASSUME NEW p \in Packet, Receive(p) PROVE Flags'
  BY <1>7, Types DEF Receive, IInv
<1>8. CASE Disconnect
  <2>1. \A x : Contains(evq', x) <=> Contains(evq, x) \/ x = "disconnect"
    BY <1>8, Types, Appended DEF Disconnect, IInv, Queues, Events, Static
  <2> QED
    BY <1>8, <2>1, Types DEF Disconnect, IInv
<1>9. CASE Take
  <2>1. \A x : Contains(evq, x) <=> x = Head(evq) \/ Contains(evq', x)
    BY <1>9, Types, TakenFrom DEF Take, IInv, Queues
  <2>2. \A x \in Static : x = Head(evq) => ~Contains(evq', x)
    BY <1>9, Types, TakenFrom DEF Take, IInv, Queues, OncePerEvent
  <2>3. \A t \in Putters : Put(t) \in Static
    BY DEF Static
  <2> QED
    BY <1>9, <2>1, <2>2, <2>3, Types DEF Take, IInv
<1>10. CASE Clear
  <2>1. /\ pc["host"] = "clear" /\ pc'["host"] # "clear"
        /\ \A t \in Putters : pc'[t] = pc[t]
    BY <1>10, Types DEF Clear, IInv, Handler, Places, Events, Static
  <2>2. evq' = evq /\ queued' = queued \ {handled}
    BY <1>10 DEF Clear
  <2>3. \A t \in Putters : handled = Put(t) => ~Contains(evq, Put(t)) 
    BY <2>1 DEF IInv
  <2> QED
    BY <2>1, <2>2, <2>3 DEF IInv
<1>11. CASE Accept
  BY <1>11, Types DEF Accept, IInv
<1>12. CASE Schedule
  <2>1. /\ pc["host"] # "clear" /\ pc'["host"] # "clear"
        /\ \A t \in Putters : pc'[t] = pc[t]
    BY <1>12, Types DEF Schedule, IInv
  <2>2. evq' = evq /\ queued' = queued
    BY <1>12 DEF Schedule
  <2> QED
    BY <2>1, <2>2 DEF IInv
<1>13. CASE NotTransmitted
  BY <1>13, Types DEF NotTransmitted, IInv, Return
<1>14. CASE Transmit
  BY <1>14, Types DEF Transmit, IInv
<1>15. CASE Record
  BY <1>15, Types DEF Record, IInv, Return
<1>16. CASE Drained
  BY <1>16, Types DEF Drained, IInv
<1>17. CASE Discard
  BY <1>17, Types DEF Discard, IInv
<1>18. CASE Confirm
  BY <1>18, Types DEF Confirm, IInv
<1>19. CASE Acknowledge
  BY <1>19, Types DEF Acknowledge, IInv
<1>20. CASE SendNext
  <2>1. /\ pc["host"] # "clear" /\ pc'["host"] # "clear"
        /\ \A t \in Putters : pc'[t] = pc[t]
    BY <1>20, Types DEF SendNext, IInv
  <2>2. evq' = evq /\ queued' = queued
    BY <1>20 DEF SendNext
  <2> QED
    BY <2>1, <2>2 DEF IInv
<1>21. ASSUME NEW p \in Packet, Write(p) PROVE Flags'
  BY <1>21, Types DEF Write, IInv
<1>22. CASE FreeConfiguration
  BY <1>22, Types DEF FreeConfiguration, IInv
<1>23. CASE FailProcedures
  BY <1>23, Types DEF FailProcedures, IInv
<1>24. CASE Delete
  BY <1>24, Types DEF Delete, IInv
<1>25. CASE Timeout
  BY <1>25, Types DEF Timeout, IInv
<1>26. CASE Restart
  BY <1>26, Empty DEF Restart, Idle
<1>27. CASE EndRefused
  BY <1>27, Types DEF EndRefused, IInv
<1> QED
  BY <1>1, <1>2, <1>3, <1>4, <1>5, <1>6, <1>7, <1>8, <1>9, <1>10, <1>11, <1>12,
     <1>13, <1>14, <1>15, <1>16, <1>17, <1>18, <1>19, <1>20, <1>21, <1>22, <1>23,
     <1>24, <1>25, <1>26, <1>27
     DEF Next, Main, Controller, PutEvent, Host, HostIndicates, HostReceives, HostEnds,
         Process

\* One connection comes and one goes at a time.
LEMMA LinksStep == IInv /\ Next => Links'
<1> SUFFICES ASSUME IInv, Next PROVE Links'
  OBVIOUS
<1> USE DEF Links, Arriving, Leaving, Taken, Step, HostStep, Values, Putters,
            NoConn, NewConn, peerVars, connVars, evqVars
<1>1. ASSUME NEW t \in Putters, PutCheck(t) PROVE Links'
  BY <1>1, Types DEF PutCheck, IInv
<1>2. ASSUME NEW t \in Putters, PutSet(t) PROVE Links'
  BY <1>2, Types DEF PutSet, IInv
<1>3. ASSUME NEW t \in Putters, PutSend(t) PROVE Links'
  <2>0. Put(t) \notin {"connect", "disconnect"} /\ Put(t) \in Events
    BY DEF Put, Events, Static
  <2>1. \A x : Contains(evq', x) <=> Contains(evq, x) \/ x = Put(t)
    BY <1>3, <2>0, Types, Appended DEF PutSend, IInv, Queues, Events, Static
  <2>2. \A x : Once(x, evq) /\ (x = Put(t) => ~Contains(evq, x)) => Once(x, evq')
    BY <1>3, <2>0, Types, Appended DEF PutSend, IInv, Queues, Events, Static
  <2> QED
    BY <1>3, <2>0, <2>1, <2>2, Types DEF PutSend, IInv
<1>4. CASE Change
  <2>1. /\ conn'.listed = conn.listed /\ conn'.cfgs = conn.cfgs
        /\ conn'.subscribed = conn.subscribed /\ conn'.modified = conn.listed
        /\ conn'.outstanding = conn.outstanding
    BY <1>4, Types DEF Change, IInv
  <2> QED
    BY <1>4, <2>1, Types DEF Change, IInv, Places, Static
<1>5. CASE ChangeUnconfigured
  BY <1>5, Types DEF ChangeUnconfigured, IInv
<1>6. CASE Connect
  <2>1. \A x : Contains(evq', x) <=> Contains(evq, x) \/ x = "connect"
    BY <1>6, Types, Appended DEF Connect, IInv, Queues, Events, Static
  <2>2. \A x : Once(x, evq) /\ (x = "connect" => ~Contains(evq, x)) => Once(x, evq')
    BY <1>6, Types, Appended DEF Connect, IInv, Queues, Events, Static
  <2> QED
    BY <1>6, <2>1, <2>2, Types DEF Connect, IInv
<1>7. ASSUME NEW p \in Packet, Receive(p) PROVE Links'
  BY <1>7, Types DEF Receive, IInv
<1>8. CASE Disconnect
  <2>1. \A x : Contains(evq', x) <=> Contains(evq, x) \/ x = "disconnect"
    BY <1>8, Types, Appended DEF Disconnect, IInv, Queues, Events, Static
  <2>2. \A x : Once(x, evq) /\ (x = "disconnect" => ~Contains(evq, x)) => Once(x, evq')
    BY <1>8, Types, Appended DEF Disconnect, IInv, Queues, Events, Static
  <2> QED
    BY <1>8, <2>1, <2>2, Types DEF Disconnect, IInv
<1>9. CASE Take
  <2>1. \A x : Contains(evq, x) <=> x = Head(evq) \/ Contains(evq', x)
    BY <1>9, Types, TakenFrom DEF Take, IInv, Queues
  <2>2. \A x : Once(x, evq) => Once(x, evq') /\ (x = Head(evq) => ~Contains(evq', x))
    BY <1>9, Types, TakenFrom DEF Take, IInv, Queues
  <2>3. /\ pc["host"] = "idle" /\ pc'["host"] = "clear" /\ handled' = Head(evq)
        /\ pc'["controller"] = pc["controller"]
    BY <1>9, Types DEF Take, IInv
  <2>4. /\ Arriving' <=> Arriving
        /\ Leaving' <=> Leaving
    BY <2>1, <2>3
  <2>5. Taken("disconnect")' => conn.listed
    <3>1. "disconnect" = Head(evq) => Contains(evq, "disconnect") /\ ~Contains(evq, "connect")
      BY <1>9, <2>1, TakenFrom, Types DEF Take, IInv, Queues, Order
    <3> QED
      BY <2>3, <3>1 DEF IInv
  <2> QED
    BY <1>9, <2>1, <2>2, <2>3, <2>4, <2>5, Types DEF Take, IInv
<1>10. CASE Clear
  BY <1>10, Types DEF Clear, IInv, Handler, Places, Events, Static
<1>11. CASE Accept
  <2>1. /\ conn'.listed = TRUE /\ conn'.cfgs = TRUE
        /\ conn'.subscribed = FALSE /\ conn'.modified = FALSE
        /\ conn'.outstanding = FALSE
    BY <1>11, Types DEF Accept, IInv
  <2> QED
    BY <1>11, <2>1, Types DEF Accept, IInv, Places, Static
<1>12. CASE Schedule
  <2>1. /\ conn'.listed = conn.listed /\ conn'.cfgs = conn.cfgs
        /\ conn'.subscribed = conn.subscribed
        /\ conn'.modified = (conn.modified /\ ~(conn.subscribed /\ ~conn.outstanding))
        /\ conn'.outstanding = conn.outstanding
    BY <1>12, Types DEF Schedule, IInv
  <2> QED
    BY <1>12, <2>1, Types DEF Schedule, IInv, Places, Static
<1>13. CASE NotTransmitted
  BY <1>13, Types DEF NotTransmitted, IInv, Return, Places, Static
<1>14. CASE Transmit
  BY <1>14, Types DEF Transmit, IInv
<1>15. CASE Record
  <2>1. /\ conn'.listed = conn.listed /\ conn'.cfgs = conn.cfgs
        /\ conn'.subscribed = conn.subscribed /\ conn'.modified = conn.modified
        /\ conn'.outstanding = TRUE
    BY <1>15, Types DEF Record, IInv
  <2> QED
    BY <1>15, <2>1, Types DEF Record, IInv, Places, Static, Return
<1>16. CASE Drained
  BY <1>16, Types DEF Drained, IInv, Places, Static
<1>17. CASE Discard
  BY <1>17, Types DEF Discard, IInv
<1>18. CASE Confirm
  BY <1>18, Types DEF Confirm, IInv
<1>19. CASE Acknowledge
  <2>1. /\ conn'.listed = conn.listed /\ conn'.cfgs = conn.cfgs
        /\ conn'.subscribed = conn.subscribed /\ conn'.modified = conn.modified
        /\ conn'.outstanding = FALSE
    BY <1>19, Types DEF Acknowledge, IInv
  <2> QED
    BY <1>19, <2>1, Types DEF Acknowledge, IInv, Places, Static
<1>20. CASE SendNext
  <2>1. /\ conn'.listed = conn.listed /\ conn'.cfgs = conn.cfgs
        /\ conn'.subscribed = conn.subscribed /\ conn'.modified = FALSE
        /\ conn'.outstanding = conn.outstanding
    BY <1>20, Types DEF SendNext, IInv
  <2> QED
    BY <1>20, <2>1, Types DEF SendNext, IInv, Places, Static
<1>21. ASSUME NEW p \in Packet, Write(p) PROVE Links'
  <2>1. /\ conn'.listed = conn.listed /\ conn'.cfgs = conn.cfgs
        /\ conn'.subscribed = (p = "subscribe") /\ conn'.modified = FALSE
        /\ conn'.outstanding = conn.outstanding
    BY <1>21, Types DEF Write, IInv
  <2> QED
    BY <1>21, <2>1, Types DEF Write, IInv, Places, Static
<1>22. CASE FreeConfiguration
  <2>1. /\ conn'.listed = conn.listed /\ conn'.cfgs = FALSE
        /\ conn'.subscribed = FALSE /\ conn'.modified = FALSE
        /\ conn'.outstanding = conn.outstanding
    BY <1>22, Types DEF FreeConfiguration, IInv
  <2> QED
    BY <1>22, <2>1, Types DEF FreeConfiguration, IInv, Places, Static
<1>23. CASE FailProcedures
  BY <1>23, Types DEF FailProcedures, IInv
<1>24. CASE Delete
  <2>1. /\ conn'.listed = FALSE /\ conn'.cfgs = FALSE
        /\ conn'.subscribed = FALSE /\ conn'.modified = FALSE
        /\ conn'.outstanding = FALSE
    BY <1>24, Types DEF Delete, IInv
  <2> QED
    BY <1>24, <2>1, Types DEF Delete, IInv, Places, Static
<1>25. CASE Timeout
  BY <1>25, Types DEF Timeout, IInv
<1>26. CASE Restart
  BY <1>26, Empty DEF Restart, Idle
<1>27. CASE EndRefused
  BY <1>27, Types DEF EndRefused, IInv
<1> QED
  BY <1>1, <1>2, <1>3, <1>4, <1>5, <1>6, <1>7, <1>8, <1>9, <1>10, <1>11, <1>12,
     <1>13, <1>14, <1>15, <1>16, <1>17, <1>18, <1>19, <1>20, <1>21, <1>22, <1>23,
     <1>24, <1>25, <1>26, <1>27
     DEF Next, Main, Controller, PutEvent, Host, HostIndicates, HostReceives, HostEnds,
         Process

\* Packets come after their connection and before its end.
LEMMA OrderStep == IInv /\ Next => Order'
<1> SUFFICES ASSUME IInv, Next PROVE Order'
  OBVIOUS
<1> USE DEF Order, Taken, Step, HostStep, Values, Putters, peerVars, connVars, evqVars
<1>1. ASSUME NEW t \in Putters, PutCheck(t) PROVE Order'
  BY <1>1, Types DEF PutCheck, IInv, Flags, Flagged, Put
<1>2. ASSUME NEW t \in Putters, PutSet(t) PROVE Order'
  BY <1>2, Types DEF PutSet, IInv
<1>3. ASSUME NEW t \in Putters, PutSend(t) PROVE Order'
  <2>0. Put(t) \notin {"connect", "disconnect"} /\ Put(t) \in Events
      /\ (t = "controller" <=> Put(t) = "data")
    BY DEF Put, Events, Static
  <2>1. \A x : Contains(evq', x) <=> Contains(evq, x) \/ x = Put(t)
    BY <1>3, <2>0, Types, Appended DEF PutSend, IInv, Queues, Events, Static
  <2>2. \A a, b : a # b /\ Before(a, b, evq) /\ (Put(t) = a => ~Contains(evq, b))
                      => Before(a, b, evq')
    BY <1>3, <2>0, Types, Appended DEF PutSend, IInv, Queues, Events, Static
  <2>3. /\ Before("connect", "disconnect", evq') /\ Before("connect", "data", evq')
        /\ Before("data", "disconnect", evq')
    BY <1>3, <2>0, <2>2, Types DEF PutSend, IInv, Links, Leaving, Arriving
  <2> QED
    <3>1. pc["host"] = pc'["host"] /\ (Put(t) = "data" => pc["controller"] = "send")
      BY <1>3, <2>0, Types DEF PutSend, IInv
    <3>2. Put(t) = "data" => ~advertising /\ ~Taken("disconnect")
      BY <3>1 DEF IInv, Links, Leaving
    <3>3. packets # <<>> => (pc["controller"] # "idle" \/ Contains(evq, "data") \/ Taken("data"))'
      BY <1>3, <2>0, <2>1, <3>1, Types DEF PutSend, IInv
    <3> QED
      BY <1>3, <2>1, <2>3, <3>1, <3>2, <3>3 DEF PutSend, IInv
<1>4. CASE Change
  <2>1. /\ conn'.listed = conn.listed /\ conn'.cfgs = conn.cfgs
        /\ conn'.subscribed = conn.subscribed /\ conn'.modified = conn.listed
        /\ conn'.outstanding = conn.outstanding
    BY <1>4, Types DEF Change, IInv
  <2> QED
    BY <1>4, <2>1, Types DEF Change, IInv, Places, Static
<1>5. CASE ChangeUnconfigured
  BY <1>5, Types DEF ChangeUnconfigured, IInv
<1>6. CASE Connect
  <2>1. \A x : Contains(evq', x) <=> Contains(evq, x) \/ x = "connect"
    BY <1>6, Types, Appended DEF Connect, IInv, Queues, Events, Static
  <2>2. \A a, b : a # b /\ Before(a, b, evq) /\ ("connect" = a => ~Contains(evq, b))
                      => Before(a, b, evq')
    BY <1>6, Types, Appended DEF Connect, IInv, Queues, Events, Static
  <2>3. /\ Before("connect", "disconnect", evq') /\ Before("connect", "data", evq')
        /\ Before("data", "disconnect", evq')
    BY <1>6, <2>2, Types DEF Connect, IInv, Links, Leaving, Arriving
  <2> QED
    BY <1>6, <2>1, <2>3, Types DEF Connect, IInv, Links
<1>7. ASSUME NEW p \in Packet, Receive(p) PROVE Order'
  BY <1>7, Types DEF Receive, IInv, Links, Leaving
<1>8. CASE Disconnect
  <2>1. \A x : Contains(evq', x) <=> Contains(evq, x) \/ x = "disconnect"
    BY <1>8, Types, Appended DEF Disconnect, IInv, Queues, Events, Static
  <2>2. \A a, b : a # b /\ Before(a, b, evq) /\ ("disconnect" = a => ~Contains(evq, b))
                      => Before(a, b, evq')
    BY <1>8, Types, Appended DEF Disconnect, IInv, Queues, Events, Static
  <2>3. /\ Before("connect", "disconnect", evq') /\ Before("connect", "data", evq')
        /\ Before("data", "disconnect", evq')
    BY <1>8, <2>2, Types DEF Disconnect, IInv, Links, Leaving, Arriving
  <2> QED
    BY <1>8, <2>1, <2>3, Types DEF Disconnect, IInv, Links
<1>9. CASE Take
  <2>1. \A x : Contains(evq, x) <=> x = Head(evq) \/ Contains(evq', x)
    BY <1>9, Types, TakenFrom DEF Take, IInv, Queues
  <2>2. \A a, b : Before(a, b, evq) => Before(a, b, evq')
    BY <1>9, Types, TakenFrom DEF Take, IInv, Queues
  <2>3. \A a, b : a # b /\ Before(a, b, evq) /\ b = Head(evq) => ~Contains(evq, a)
    BY <1>9, Types, TakenFrom DEF Take, IInv, Queues
  <2>4. /\ pc["host"] = "idle" /\ pc'["host"] = "clear" /\ handled' = Head(evq)
        /\ pc'["controller"] = pc["controller"]
    BY <1>9, Types DEF Take, IInv
  <2>5. Taken("disconnect")' => packets' = <<>> /\ ~Contains(evq', "data")
    BY <1>9, <2>1, <2>3, <2>4, Types DEF Take, IInv, Links, Leaving
  <2>6. Taken("data")' => conn'.listed
    BY <1>9, <2>1, <2>3, <2>4, Types DEF Take, IInv, Links, Arriving
  <2> QED
    BY <1>9, <2>1, <2>2, <2>4, <2>5, <2>6, Types DEF Take, IInv
<1>10. CASE Clear
  BY <1>10, Types DEF Clear, IInv, Handler, Places, Events, Static
<1>11. CASE Accept
  <2>1. /\ conn'.listed = TRUE /\ conn'.cfgs = TRUE
        /\ conn'.subscribed = FALSE /\ conn'.modified = FALSE
        /\ conn'.outstanding = FALSE
    BY <1>11, Types DEF Accept, IInv, NoConn, NewConn
  <2> QED
    BY <1>11, <2>1, Types DEF Accept, IInv, Places, Static
<1>12. CASE Schedule
  <2>1. /\ conn'.listed = conn.listed /\ conn'.cfgs = conn.cfgs
        /\ conn'.subscribed = conn.subscribed
        /\ conn'.modified = (conn.modified /\ ~(conn.subscribed /\ ~conn.outstanding))
        /\ conn'.outstanding = conn.outstanding
    BY <1>12, Types DEF Schedule, IInv
  <2> QED
    BY <1>12, <2>1, Types DEF Schedule, IInv, Places, Static
<1>13. CASE NotTransmitted
  BY <1>13, Types DEF NotTransmitted, IInv, Return, Places, Static
<1>14. CASE Transmit
  BY <1>14, Types DEF Transmit, IInv
<1>15. CASE Record
  <2>1. /\ conn'.listed = conn.listed /\ conn'.cfgs = conn.cfgs
        /\ conn'.subscribed = conn.subscribed /\ conn'.modified = conn.modified
        /\ conn'.outstanding = TRUE
    BY <1>15, Types DEF Record, IInv
  <2> QED
    BY <1>15, <2>1, Types DEF Record, IInv, Places, Static, Return
<1>16. CASE Drained
  BY <1>16, Types DEF Drained, IInv, Places, Static
<1>17. CASE Discard
  <2>1. packets # <<>> /\ packets' = Tail(packets) /\ conn'.listed = conn.listed
    BY <1>17, Types DEF Discard, NextPacket, IInv
  <2> QED
    BY <1>17, <2>1, Types DEF Discard, IInv, Places, Links
<1>18. CASE Confirm
  <2>1. packets # <<>> /\ packets' = Tail(packets) /\ conn'.listed = conn.listed
    BY <1>18, Types DEF Confirm, NextPacket, IInv
  <2> QED
    BY <1>18, <2>1, Types DEF Confirm, IInv, Places, Links
<1>19. CASE Acknowledge
  <2>1. /\ conn'.listed = conn.listed /\ conn'.cfgs = conn.cfgs
        /\ conn'.subscribed = conn.subscribed /\ conn'.modified = conn.modified
        /\ conn'.outstanding = FALSE
    BY <1>19, Types DEF Acknowledge, IInv
  <2> QED
    BY <1>19, <2>1, Types DEF Acknowledge, IInv, Places, Static
<1>20. CASE SendNext
  <2>1. /\ conn'.listed = conn.listed /\ conn'.cfgs = conn.cfgs
        /\ conn'.subscribed = conn.subscribed /\ conn'.modified = FALSE
        /\ conn'.outstanding = conn.outstanding
    BY <1>20, Types DEF SendNext, IInv
  <2> QED
    BY <1>20, <2>1, Types DEF SendNext, IInv, Places, Static
<1>21. ASSUME NEW p \in Packet, Write(p) PROVE Order'
  <2>1. packets # <<>> /\ packets' = Tail(packets) /\ conn'.listed = conn.listed
    BY <1>21, Types DEF Write, NextPacket, IInv
  <2> QED
    BY <1>21, <2>1, Types DEF Write, IInv, Places, Links
<1>22. CASE FreeConfiguration
  <2>1. /\ conn'.listed = conn.listed /\ conn'.cfgs = FALSE
        /\ conn'.subscribed = FALSE /\ conn'.modified = FALSE
        /\ conn'.outstanding = conn.outstanding
    BY <1>22, Types DEF FreeConfiguration, IInv
  <2> QED
    BY <1>22, <2>1, Types DEF FreeConfiguration, IInv, Places, Static
<1>23. CASE FailProcedures
  BY <1>23, Types DEF FailProcedures, IInv
<1>24. CASE Delete
  <2>1. /\ conn'.listed = FALSE /\ conn'.cfgs = FALSE
        /\ conn'.subscribed = FALSE /\ conn'.modified = FALSE
        /\ conn'.outstanding = FALSE
    BY <1>24, Types DEF Delete, IInv, NoConn, NewConn
  <2> QED
    BY <1>24, <2>1, Types DEF Delete, IInv, Places, Static
<1>25. CASE Timeout
  BY <1>25, Types DEF Timeout, IInv
<1>26. CASE Restart
  BY <1>26, Empty DEF Restart, Idle
<1>27. CASE EndRefused
  BY <1>27, Types DEF EndRefused, IInv
<1> QED
  BY <1>1, <1>2, <1>3, <1>4, <1>5, <1>6, <1>7, <1>8, <1>9, <1>10, <1>11, <1>12,
     <1>13, <1>14, <1>15, <1>16, <1>17, <1>18, <1>19, <1>20, <1>21, <1>22, <1>23,
     <1>24, <1>25, <1>26, <1>27
     DEF Next, Main, Controller, PutEvent, Host, HostIndicates, HostReceives, HostEnds,
         Process

\* What is not confirmed is what the host has noted.
LEMMA ConfirmingStep == IInv /\ Next => Confirming'
<1> SUFFICES ASSUME IInv, Next PROVE Confirming'
  OBVIOUS
<1> USE DEF Confirming, OneOutstanding, Step, HostStep, Values, Putters, peerVars,
            connVars, evqVars
<1>1. ASSUME NEW t \in Putters, PutCheck(t) PROVE Confirming'
  BY <1>1, Types DEF PutCheck, IInv
<1>2. ASSUME NEW t \in Putters, PutSet(t) PROVE Confirming'
  BY <1>2, Types DEF PutSet, IInv
<1>3. ASSUME NEW t \in Putters, PutSend(t) PROVE Confirming'
  BY <1>3, Types DEF PutSend, IInv
<1>4. CASE Change
  <2>1. /\ conn'.listed = conn.listed /\ conn'.cfgs = conn.cfgs
        /\ conn'.subscribed = conn.subscribed /\ conn'.modified = conn.listed
        /\ conn'.outstanding = conn.outstanding
    BY <1>4, Types DEF Change, IInv
  <2> QED
    BY <1>4, <2>1, Types DEF Change, IInv, Places, Static
<1>5. CASE ChangeUnconfigured
  BY <1>5, Types DEF ChangeUnconfigured, IInv
<1>6. CASE Connect
  BY <1>6, Types DEF Connect, IInv
<1>7. ASSUME NEW p \in Packet, Receive(p) PROVE Confirming'
  <2>1. \A x : Contains(packets', x) <=> Contains(packets, x) \/ x = p
    BY <1>7, Types, Appended DEF Receive, IInv, Queues
  <2>2. \A x : Once(x, packets) /\ (x = p => ~Contains(packets, x)) => Once(x, packets')
    BY <1>7, Types, Appended DEF Receive, IInv, Queues
  <2>3. pc'["host"] = pc["host"] /\ conn' = conn
    BY <1>7, Types DEF Receive, IInv
  <2> QED
    BY <1>7, <2>1, <2>2, <2>3, Types DEF Receive, IInv
<1>8. CASE Disconnect
  BY <1>8, Types DEF Disconnect, IInv
<1>9. CASE Take
  BY <1>9, Types DEF Take, IInv
<1>10. CASE Clear
  BY <1>10, Types DEF Clear, IInv, Handler, Places, Events, Static
<1>11. CASE Accept
  <2>1. conn'.outstanding = FALSE /\ ~conn.outstanding
    BY <1>11, Types DEF Accept, IInv, Places, Links, Arriving, Taken, NewConn, NoConn
  <2> QED
    BY <1>11, <2>1, Types DEF Accept, IInv
<1>12. CASE Schedule
  <2>1. /\ conn'.listed = conn.listed /\ conn'.cfgs = conn.cfgs
        /\ conn'.subscribed = conn.subscribed
        /\ conn'.modified = (conn.modified /\ ~(conn.subscribed /\ ~conn.outstanding))
        /\ conn'.outstanding = conn.outstanding
    BY <1>12, Types DEF Schedule, IInv
  <2> QED
    BY <1>12, <2>1, Types DEF Schedule, IInv, Places, Static
<1>13. CASE NotTransmitted
  BY <1>13, Types DEF NotTransmitted, IInv, Return
<1>14. CASE Transmit
  BY <1>14, Types DEF Transmit, IInv
<1>15. CASE Record
  <2>1. /\ conn'.listed = conn.listed /\ conn'.cfgs = conn.cfgs
        /\ conn'.subscribed = conn.subscribed /\ conn'.modified = conn.modified
        /\ conn'.outstanding = TRUE
    BY <1>15, Types DEF Record, IInv
  <2> QED
    BY <1>15, <2>1, Types DEF Record, IInv, Places, Static, Return
<1>16. CASE Drained
  BY <1>16, Types DEF Drained, IInv
<1>17. CASE Discard
  <2>1. \A x : Contains(packets, x) <=> x = Head(packets) \/ Contains(packets', x)
    BY <1>17, Types, TakenFrom DEF Discard, NextPacket, IInv, Queues
  <2>2. \A x : Once(x, packets) => Once(x, packets')
      /\ (x = Head(packets) => ~Contains(packets', x))
    BY <1>17, Types, TakenFrom DEF Discard, NextPacket, IInv, Queues
  <2> QED
    BY <1>17, <2>1, <2>2, Types DEF Discard, IInv
<1>18. CASE Confirm
  <2>1. \A x : Contains(packets, x) <=> x = Head(packets) \/ Contains(packets', x)
    BY <1>18, Types, TakenFrom DEF Confirm, NextPacket, IInv, Queues
  <2>2. \A x : Once(x, packets) => Once(x, packets')
      /\ (x = Head(packets) => ~Contains(packets', x))
    BY <1>18, Types, TakenFrom DEF Confirm, NextPacket, IInv, Queues
  <2>3. Head(packets) = "confirm" /\ conn' = conn /\ unconfirmed' = unconfirmed
    BY <1>18 DEF Confirm, NextPacket
  <2>4. pc["host"] = "drain" /\ pc'["host"] \in {"confirmed", "drain"}
    BY <1>18, Types DEF Confirm, IInv
  <2>5. Contains(packets, "confirm") /\ ~Contains(packets', "confirm") /\ unconfirmed = 0
    BY <2>1, <2>2, <2>3 DEF IInv
  <2> QED
    BY <2>1, <2>2, <2>3, <2>4, <2>5 DEF IInv
<1>19. CASE Acknowledge
  <2>1. /\ conn'.listed = conn.listed /\ conn'.cfgs = conn.cfgs
        /\ conn'.subscribed = conn.subscribed /\ conn'.modified = conn.modified
        /\ conn'.outstanding = FALSE
    BY <1>19, Types DEF Acknowledge, IInv
  <2> QED
    BY <1>19, <2>1, Types DEF Acknowledge, IInv, Places, Static
<1>20. CASE SendNext
  <2>1. /\ conn'.listed = conn.listed /\ conn'.cfgs = conn.cfgs
        /\ conn'.subscribed = conn.subscribed /\ conn'.modified = FALSE
        /\ conn'.outstanding = conn.outstanding
    BY <1>20, Types DEF SendNext, IInv
  <2> QED
    BY <1>20, <2>1, Types DEF SendNext, IInv, Places, Static
<1>21. ASSUME NEW p \in Packet, Write(p) PROVE Confirming'
  <2>1. \A x : Contains(packets, x) <=> x = Head(packets) \/ Contains(packets', x)
    BY <1>21, Types, TakenFrom DEF Write, NextPacket, IInv, Queues
  <2>2. \A x : Once(x, packets) => Once(x, packets')
      /\ (x = Head(packets) => ~Contains(packets', x))
    BY <1>21, Types, TakenFrom DEF Write, NextPacket, IInv, Queues
  <2>3. conn'.outstanding = conn.outstanding /\ unconfirmed' = unconfirmed
    BY <1>21, Types DEF Write, IInv
  <2>4. pc["host"] = "drain" /\ pc'["host"] = "drain"
    BY <1>21, Types DEF Write, IInv
  <2> QED
    BY <2>1, <2>2, <2>3, <2>4 DEF IInv
<1>22. CASE FreeConfiguration
  <2>1. /\ conn'.listed = conn.listed /\ conn'.cfgs = FALSE
        /\ conn'.subscribed = FALSE /\ conn'.modified = FALSE
        /\ conn'.outstanding = conn.outstanding
    BY <1>22, Types DEF FreeConfiguration, IInv
  <2> QED
    BY <1>22, <2>1, Types DEF FreeConfiguration, IInv, Places, Static
<1>23. CASE FailProcedures
  BY <1>23, Types DEF FailProcedures, IInv
<1>24. CASE Delete
  <2>1. conn'.outstanding = FALSE
    BY <1>24 DEF Delete, NoConn
  <2>2. unconfirmed = 0 /\ packets = <<>>
    BY <1>24, Types DEF Delete, IInv, Places, Links, Leaving, Taken, Order
  <2>3. ~Contains(packets, "confirm")
    BY <2>2, Empty
  <2> QED
    BY <1>24, <2>1, <2>2, <2>3, Types DEF Delete, IInv
<1>25. CASE Timeout
  BY <1>25, Types DEF Timeout, IInv
<1>26. CASE Restart
  BY <1>26, Empty DEF Restart, Idle, NoConn
<1>27. CASE EndRefused
  BY <1>27, Types DEF EndRefused, IInv
<1> QED
  BY <1>1, <1>2, <1>3, <1>4, <1>5, <1>6, <1>7, <1>8, <1>9, <1>10, <1>11, <1>12,
     <1>13, <1>14, <1>15, <1>16, <1>17, <1>18, <1>19, <1>20, <1>21, <1>22, <1>23,
     <1>24, <1>25, <1>26, <1>27
     DEF Next, Main, Controller, PutEvent, Host, HostIndicates, HostReceives, HostEnds,
         Process

\* A change that is owed is on its way.
LEMMA ChangesStep == IInv /\ Next => Changes'
<1> SUFFICES ASSUME IInv, Next PROVE Changes'
  OBVIOUS
<1> USE DEF Changes, ChangeOnItsWay, Scheduled, Awaited, Ended, Step, HostStep, Values,
            Putters, peerVars, connVars, evqVars
<1>1. ASSUME NEW t \in Putters, PutCheck(t) PROVE Changes'
  BY <1>1, Types DEF PutCheck, IInv, Flags, Flagged, Put
<1>2. ASSUME NEW t \in Putters, PutSet(t) PROVE Changes'
  BY <1>2, Types DEF PutSet, IInv
<1>3. ASSUME NEW t \in Putters, PutSend(t) PROVE Changes'
  <2>0. Put(t) \in Events /\ Put("main") = "notify"
    BY DEF Put, Events, Static
  <2>1. \A x : Contains(evq', x) <=> Contains(evq, x) \/ x = Put(t)
    BY <1>3, <2>0, Types, Appended DEF PutSend, IInv, Queues, Events, Static
  <2> QED
    BY <1>3, <2>0, <2>1, Types DEF PutSend, IInv, Put, Links
<1>4. CASE Change
  <2>1. /\ conn'.listed = conn.listed /\ conn'.cfgs = conn.cfgs
        /\ conn'.subscribed = conn.subscribed /\ conn'.modified = conn.listed
        /\ conn'.outstanding = conn.outstanding
    BY <1>4, Types DEF Change, IInv
  <2> QED
    <3>1. ~conn.listed => ~due /\ ~conn.subscribed /\ ~conn.modified
      BY Types DEF IInv, Places, Links
    <3>2. /\ pc'["host"] = pc["host"] /\ (conn.listed => pc'["main"] = "check")
          /\ due' = (due \/ conn.subscribed)
      BY <1>4, Types DEF Change, IInv
    <3>3. UNCHANGED <<proc, ending, refused, link>>
      BY <1>4 DEF Change
    <3> QED
      BY <2>1, <3>1, <3>2, <3>3, Types DEF IInv
<1>5. CASE ChangeUnconfigured
  BY <1>5, Types DEF ChangeUnconfigured, IInv
<1>6. CASE Connect
  <2>1. \A x : Contains(evq', x) <=> Contains(evq, x) \/ x = "connect"
    BY <1>6, Types, Appended DEF Connect, IInv, Queues, Events, Static
  <2> QED
    BY <1>6, <2>1, Types DEF Connect, IInv, Put, Links
<1>7. ASSUME NEW p \in Packet, Receive(p) PROVE Changes'
  BY <1>7, Types DEF Receive, IInv
<1>8. CASE Disconnect
  <2>1. \A x : Contains(evq', x) <=> Contains(evq, x) \/ x = "disconnect"
    BY <1>8, Types, Appended DEF Disconnect, IInv, Queues, Events, Static
  <2> QED
    BY <1>8, <2>1, Types DEF Disconnect, IInv, Put, Links
<1>9. CASE Take
  <2>1. \A x : Contains(evq, x) <=> x = Head(evq) \/ Contains(evq', x)
    BY <1>9, Types, TakenFrom DEF Take, IInv, Queues
  <2> QED
    BY <1>9, <2>1, Types DEF Take, IInv
<1>10. CASE Clear
  BY <1>10, Types DEF Clear, IInv, Handler, Places, Events, Static
<1>11. CASE Accept
  <2>1. /\ conn'.listed = TRUE /\ conn'.cfgs = TRUE
        /\ conn'.subscribed = FALSE /\ conn'.modified = FALSE
        /\ conn'.outstanding = FALSE
    BY <1>11, Types DEF Accept, IInv, NoConn, NewConn
  <2> QED
    BY <1>11, <2>1, Types DEF Accept, IInv, Places, Static, Links, Arriving, Leaving, Taken
<1>12. CASE Schedule
  <2>1. /\ conn'.listed = conn.listed /\ conn'.cfgs = conn.cfgs
        /\ conn'.subscribed = conn.subscribed
        /\ conn'.modified = (conn.modified /\ ~(conn.subscribed /\ ~conn.outstanding))
        /\ conn'.outstanding = conn.outstanding
    BY <1>12, Types DEF Schedule, IInv
  <2> QED
    BY <1>12, <2>1, Types DEF Schedule, IInv, Places, Static
<1>13. CASE NotTransmitted
  BY <1>13, Types DEF NotTransmitted, IInv, Return, Places
<1>14. CASE Transmit
  BY <1>14, Types DEF Transmit, IInv, Confirming
<1>15. CASE Record
  <2>1. /\ conn'.listed = conn.listed /\ conn'.cfgs = conn.cfgs
        /\ conn'.subscribed = conn.subscribed /\ conn'.modified = conn.modified
        /\ conn'.outstanding = TRUE
    BY <1>15, Types DEF Record, IInv
  <2> QED
    BY <1>15, <2>1, Types DEF Record, IInv, Places, Static, Return
<1>16. CASE Drained
  BY <1>16, Types DEF Drained, IInv
<1>17. CASE Discard
  BY <1>17, Types DEF Discard, IInv
<1>18. CASE Confirm
  BY <1>18, Types DEF Confirm, IInv
<1>19. CASE Acknowledge
  <2>1. /\ conn'.listed = conn.listed /\ conn'.cfgs = conn.cfgs
        /\ conn'.subscribed = conn.subscribed /\ conn'.modified = conn.modified
        /\ conn'.outstanding = FALSE
    BY <1>19, Types DEF Acknowledge, IInv
  <2> QED
    BY <1>19, <2>1, Types DEF Acknowledge, IInv, Places, Static
<1>20. CASE SendNext
  <2>1. /\ conn'.listed = conn.listed /\ conn'.cfgs = conn.cfgs
        /\ conn'.subscribed = conn.subscribed /\ conn'.modified = FALSE
        /\ conn'.outstanding = conn.outstanding
    BY <1>20, Types DEF SendNext, IInv
  <2> QED
    BY <1>20, <2>1, Types DEF SendNext, IInv, Places, Static
<1>21. ASSUME NEW p \in Packet, Write(p) PROVE Changes'
  <2>1. /\ conn'.listed = conn.listed /\ conn'.cfgs = conn.cfgs
        /\ conn'.subscribed = (p = "subscribe") /\ conn'.modified = FALSE
        /\ conn'.outstanding = conn.outstanding
    BY <1>21, Types DEF Write, IInv
  <2> QED
    BY <1>21, <2>1, Types DEF Write, IInv, Places, Static
<1>22. CASE FreeConfiguration
  <2>1. /\ conn'.listed = conn.listed /\ conn'.cfgs = FALSE
        /\ conn'.subscribed = FALSE /\ conn'.modified = FALSE
        /\ conn'.outstanding = conn.outstanding
    BY <1>22, Types DEF FreeConfiguration, IInv
  <2> QED
    BY <1>22, <2>1, Types DEF FreeConfiguration, IInv, Places, Static
<1>23. CASE FailProcedures
  BY <1>23, Types DEF FailProcedures, IInv, Places, Links, Leaving, Taken
<1>24. CASE Delete
  <2>1. /\ conn'.listed = FALSE /\ conn'.cfgs = FALSE
        /\ conn'.subscribed = FALSE /\ conn'.modified = FALSE
        /\ conn'.outstanding = FALSE
    BY <1>24, Types DEF Delete, IInv, NoConn, NewConn
  <2> QED
    BY <1>24, <2>1, Types DEF Delete, IInv, Places, Static, Links, Arriving, Leaving, Taken
<1>25. CASE Timeout
  BY <1>25, Types DEF Timeout, IInv
<1>26. CASE Restart
  BY <1>26 DEF Restart, Idle, NoConn
<1>27. CASE EndRefused
  BY <1>27, Types DEF EndRefused, IInv
<1> QED
  BY <1>1, <1>2, <1>3, <1>4, <1>5, <1>6, <1>7, <1>8, <1>9, <1>10, <1>11, <1>12,
     <1>13, <1>14, <1>15, <1>16, <1>17, <1>18, <1>19, <1>20, <1>21, <1>22, <1>23,
     <1>24, <1>25, <1>26, <1>27
     DEF Next, Main, Controller, PutEvent, Host, HostIndicates, HostReceives, HostEnds,
         Process

(* ----------------------------- Invariance ------------------------------- *)

LEMMA InitInvariant == Init => IInv
<1> SUFFICES ASSUME Init PROVE IInv
  OBVIOUS
<1>1. evq = <<>> /\ packets = <<>>
  BY DEF Init
<1>2. /\ Queues
      /\ \A x : ~Contains(evq, x) /\ ~Contains(packets, x) /\ Once(x, evq) /\ Once(x, packets)
      /\ \A a, b : Before(a, b, evq)
  BY <1>1, Empty, PacketCount DEF Queues, OncePerEvent
<1>3. TypeOK
  BY <1>2, Types DEF Init, Values, Idle, NoConn, Static, Events, HostPlaces, Putters
<1>4. Places /\ Flags
  BY <1>2 DEF Init, Places, Flags, Flagged, Idle, Putters
<1>5. Links /\ Order
  BY <1>1, <1>2 DEF Init, Links, Order, Arriving, Leaving, Taken, Idle, NoConn, Putters
<1>6. Confirming /\ Changes
  BY <1>2 DEF Init, Confirming, Changes, OneOutstanding, ChangeOnItsWay, Idle, NoConn, Putters
<1> QED
  BY <1>3, <1>4, <1>5, <1>6 DEF IInv

LEMMA StutterInvariant == IInv /\ UNCHANGED vars => IInv'
<1> SUFFICES ASSUME IInv, UNCHANGED vars PROVE IInv'
  OBVIOUS
<1> USE DEF vars, peerVars, connVars, evqVars
<1>1. TypeOK'
  BY DEF IInv, TypeOK, OncePerEvent
<1>2. Places' /\ Flags'
  BY DEF IInv, Places, Flags, Flagged
<1>3. Links' /\ Order'
  BY DEF IInv, Links, Order, Arriving, Leaving, Taken
<1>4. Confirming' /\ Changes'
  BY DEF IInv, Confirming, Changes, OneOutstanding, ChangeOnItsWay, Scheduled, Awaited, Ended
<1> QED
  BY <1>1, <1>2, <1>3, <1>4 DEF IInv

LEMMA NextInvariant == IInv /\ [Next]_vars => IInv'
<1>1. IInv /\ Next => TypeOK'
  BY QueuesStep, ValuesStep DEF TypeOK, Queues, Values
<1> QED
  BY <1>1, StutterInvariant, PlacesStep, FlagsStep, LinksStep, OrderStep, ConfirmingStep,
     ChangesStep DEF IInv

\* The inductive invariant, for any number of packets waiting.
THEOREM Invariance == Spec => []IInv
<1>1. Init => IInv
  BY InitInvariant
<1>2. IInv /\ [Next]_vars => IInv'
  BY NextInvariant
<1> QED
  BY <1>1, <1>2, PTL DEF Spec

\* Every variable keeps its type, and the host's queue (npl_freertos_eventq_put)
\* never holds an event twice: a put never waits for a place.
THEOREM TypeCorrect == Spec => []TypeOK
<1>1. IInv => TypeOK
  BY DEF IInv
<1> QED
  BY <1>1, Invariance, PTL

\* A central is never sent an indication before it has confirmed the one before
\* (ble_gatts_schedule_update, ble_gatts_send_next_indicate).
THEOREM OneOutstandingOnly == Spec => []OneOutstanding
<1>1. IInv => OneOutstanding
  BY DEF IInv, Confirming
<1> QED
  BY <1>1, Invariance, PTL

\* ble_hs_process_rx_data_queue has no packet of a connection that the host does
\* not know yet, or not any more: the two queues keep their order.
THEOREM NothingDiscarded == Spec => []NoneDiscarded
<1>1. IInv => NoneDiscarded
  BY DEF IInv, NoneDiscarded, Places, Order, Taken
<1> QED
  BY <1>1, Invariance, PTL

\* A change that a subscribed central has not been told of waits for an event
\* that will come or for a confirmation that is awaited: no wakeup is lost.
THEOREM ChangeScheduled == Spec => []ChangeOnItsWay
<1>1. IInv => ChangeOnItsWay
  BY DEF IInv, Changes
<1> QED
  BY <1>1, Invariance, PTL
==============================================================================
