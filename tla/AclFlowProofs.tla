--------------------------- MODULE AclFlowProofs ----------------------------
(***************************************************************************)
(* For any number of connections, buffers and fragments, refusals and      *)
(* resets included: no queue waits while the controller has room and       *)
(* nobody is about to wake it, and a packet half sent is the next one its  *)
(* connection sends.  For one connection at a time, and until a            *)
(* disconnection is refused: the controller is never sent more than it has *)
(* buffers for, and none is counted that it does not have.                 *)
(***************************************************************************)
EXTENDS AclFlow, FiniteSetTheorems, TLAPS

(* ------------------------------- Queues -------------------------------- *)

LEMMA AppendWhole ==
    ASSUME NEW q \in Seq(Packet), q # <<>>, OnlyHeadBegun(q),
           NEW p \in Packet, ~p.begun
    PROVE  /\ Append(q, p) \in Seq(Packet)
           /\ Append(q, p) # <<>>
           /\ Head(Append(q, p)) = Head(q)
           /\ OnlyHeadBegun(Append(q, p))
  BY DEF OnlyHeadBegun

LEMMA TailWhole ==
    ASSUME NEW q \in Seq(Packet), q # <<>>, OnlyHeadBegun(q)
    PROVE  /\ Tail(q) \in Seq(Packet)
           /\ OnlyHeadBegun(Tail(q))
           /\ Tail(q) # <<>> => ~Head(Tail(q)).begun
<1>1. Tail(q) \in Seq(Packet)
  OBVIOUS
<1>2. \A i \in DOMAIN Tail(q) : i + 1 \in DOMAIN q /\ i + 1 # 1 /\ Tail(q)[i] = q[i + 1]
  OBVIOUS
<1>3. \A i \in DOMAIN Tail(q) : ~Tail(q)[i].begun
  BY <1>2 DEF OnlyHeadBegun
<1>4. Tail(q) # <<>> => Head(Tail(q)) = Tail(q)[1] /\ 1 \in DOMAIN Tail(q)
  BY <1>1
<1> QED
  BY <1>1, <1>3, <1>4 DEF OnlyHeadBegun

LEMMA PutBack ==
    ASSUME NEW q \in Seq(Packet), q # <<>>, OnlyHeadBegun(q), NEW p \in Packet
    PROVE  /\ <<p>> \o Tail(q) \in Seq(Packet)
           /\ <<p>> \o Tail(q) # <<>>
           /\ Head(<<p>> \o Tail(q)) = p
           /\ OnlyHeadBegun(<<p>> \o Tail(q))
<1>1. Tail(q) \in Seq(Packet)
  OBVIOUS
<1>2. \A i \in DOMAIN Tail(q) : ~Tail(q)[i].begun
  <2>1. \A i \in DOMAIN Tail(q) : i + 1 \in DOMAIN q /\ i + 1 # 1 /\ Tail(q)[i] = q[i + 1]
    OBVIOUS
  <2> QED
    BY <2>1 DEF OnlyHeadBegun
<1> DEFINE r == <<p>> \o Tail(q)
<1>3. r \in Seq(Packet) /\ r # <<>> /\ Head(r) = p
  BY <1>1
<1>4. \A i \in DOMAIN r : i # 1 => i - 1 \in DOMAIN Tail(q) /\ r[i] = Tail(q)[i - 1]
  BY <1>1
<1>5. OnlyHeadBegun(r)
  BY <1>2, <1>4 DEF OnlyHeadBegun
<1> QED
  BY <1>3, <1>5

LEMMA OnePacket ==
    ASSUME NEW p \in Packet
    PROVE  /\ <<p>> \in Seq(Packet)
           /\ <<p>> # <<>>
           /\ Head(<<p>>) = p
           /\ OnlyHeadBegun(<<p>>)
  BY DEF OnlyHeadBegun

LEMMA NoPacket == <<>> \in Seq(Packet) /\ OnlyHeadBegun(<<>>)
  BY DEF OnlyHeadBegun

(* ------------------------------- Events -------------------------------- *)

LEMMA EventFields ==
    ASSUME NEW e \in Event
    PROVE  /\ e.kind = "completed" => e.pkts \in [Conns -> Nat]
           /\ e.kind = "disconn" => e.conn \in Conns /\ e.ok \in BOOLEAN
           /\ e.kind = "connect" => e.conn \in Conns
  BY DEF Event

LEMMA HandleTypes ==
    ASSUME TypeOK, NEW kind, Handle(kind)
    PROVE  Head(evts) \in Event /\ evts' \in Seq(Event)
  BY DEF TypeOK, Handle

LEMMA PostTypes ==
    ASSUME TypeOK, NEW e \in Event
    PROVE  Append(evts, e) \in Seq(Event)
  BY DEF TypeOK

LEMMA SchedResetTypes == TypeOK /\ SchedReset => evts' \in Seq(Event)
<1>1. [kind |-> "reset"] \in Event
  BY DEF Event
<1> QED
  BY <1>1, PostTypes DEF SchedReset, TypeOK

(* ---------------------------- Transmission ----------------------------- *)

LEMMA TransmitTypes ==
    ASSUME TypeOK, NEW c \in Conns, NEW n \in Nat, n <= avail, Transmit(c, n)
    PROVE  /\ avail' \in Nat
           /\ outstanding' \in [Conns -> Nat]
           /\ ctl' \in [Conns -> Nat]
  BY DEF TypeOK, Transmit

\* Whatever becomes of a packet, as much of it is sent as there is room for.
LEMMA TxSends ==
    ASSUME TypeOK, NEW c \in Conns, NEW n \in Nat \ {0},
           TxAll(c, n) \/ TxSome(c, n) \/ TxFails(c, n)
    PROVE  \E k \in Nat : k <= avail /\ Transmit(c, k)
<1>1. CASE TxAll(c, n)
  BY <1>1 DEF TxAll
<1>2. CASE TxSome(c, n)
  BY <1>2 DEF TxSome, TypeOK
<1>3. CASE TxFails(c, n)
  <2>1. PICK k \in 0..(n - 1) : k < avail /\ Transmit(c, k)
    BY <1>3 DEF TxFails
  <2>2. k \in Nat /\ k <= avail
    BY <2>1 DEF TypeOK
  <2> QED
    BY <2>1, <2>2
<1> QED
  BY <1>1, <1>2, <1>3

LEMMA TxTypes ==
    ASSUME TypeOK, NEW c \in Conns, NEW n \in Nat \ {0},
           TxAll(c, n) \/ TxSome(c, n) \/ TxFails(c, n)
    PROVE  /\ avail' \in Nat
           /\ outstanding' \in [Conns -> Nat]
           /\ ctl' \in [Conns -> Nat]
           /\ frag' \in [Conns -> BOOLEAN]
<1>1. PICK k \in Nat : k <= avail /\ Transmit(c, k)
  BY TxSends
<1>2. frag' \in [Conns -> BOOLEAN]
  BY Zenon DEF TypeOK, TxAll, TxSome, TxFails, Flag
<1> QED
  BY <1>1, <1>2, TransmitTypes

\* What is sent does not make room.
LEMMA FullOrRoom ==
    ASSUME TypeOK, NEW c \in Conns, NEW n \in Nat \ {0}, TxAll(c, n) \/ TxFails(c, n)
    PROVE  avail' = 0 \/ avail # 0
<1>1. avail \in Nat
  BY DEF TypeOK
<1>2. CASE TxAll(c, n)
  BY <1>1, <1>2 DEF TxAll
<1>3. CASE TxFails(c, n)
  <2>1. PICK k \in 0..(n - 1) : k < avail
    BY <1>3 DEF TxFails
  <2> QED
    BY <1>1, <2>1
<1> QED
  BY <1>2, <1>3

(* ----------------------- The inductive invariant ----------------------- *)

\* Only connections of the list have a queue; a connection being broken is a
\* handle.
Unlisted == \A c \in Conns : c \notin conns => txq[c] = <<>>
BrokenKnown == hostAt = "broken" => cur \in Conns

\* The state a queue and its flag are in.
QueueOK(q, f) ==
    /\ q \in Seq(Packet)
    /\ OnlyHeadBegun(q)
    /\ f <=> q # <<>> /\ Head(q).begun

IInv == TypeOK /\ HalfSentIsNext /\ NoLostWakeup /\ Unlisted /\ BrokenKnown

LEMMA QueuesOK ==
    ASSUME TypeOK, HalfSentIsNext, NEW c \in Conns
    PROVE  QueueOK(txq[c], frag[c])
  BY DEF TypeOK, HalfSentIsNext, QueueOK

\* One queue changes, to one that is in order.
LEMMA OneQueue ==
    ASSUME TypeOK, HalfSentIsNext, NEW c \in Conns, NEW q, NEW f \in BOOLEAN,
           QueueOK(q, f),
           txq' = [txq EXCEPT ![c] = q], frag' = [frag EXCEPT ![c] = f]
    PROVE  /\ txq' \in [Conns -> Seq(Packet)]
           /\ frag' \in [Conns -> BOOLEAN]
           /\ HalfSentIsNext'
<1>1. txq' \in [Conns -> Seq(Packet)] /\ frag' \in [Conns -> BOOLEAN]
  BY DEF TypeOK, QueueOK
<1>2. ASSUME NEW d \in Conns
      PROVE  OnlyHeadBegun(txq'[d]) /\ (frag'[d] <=> txq'[d] # <<>> /\ Head(txq'[d]).begun)
  <2>1. CASE d = c
    <3>1. txq'[d] = q /\ frag'[d] = f
      BY <2>1 DEF TypeOK
    <3> QED
      BY <3>1 DEF QueueOK
  <2>2. CASE d # c
    <3>1. txq'[d] = txq[d] /\ frag'[d] = frag[d]
      BY <2>2 DEF TypeOK
    <3> QED
      BY <3>1 DEF HalfSentIsNext
  <2> QED
    BY <2>1, <2>2
<1>3. HalfSentIsNext'
  BY <1>2 DEF HalfSentIsNext
<1> QED
  BY <1>1, <1>3

LEMMA Initially == Init => IInv
<1> SUFFICES ASSUME Init PROVE IInv
  OBVIOUS
<1> USE DEF Init, None
<1>1. <<>> \in Seq(Event) /\ <<>> \in Seq(Packet)
  OBVIOUS
<1>2. TypeOK
  BY <1>1, BufferCount DEF TypeOK, Places
<1>3. HalfSentIsNext
  BY NoPacket DEF HalfSentIsNext
<1>4. NoLostWakeup /\ Unlisted /\ BrokenKnown
  BY DEF NoLostWakeup, Unlisted, BrokenKnown
<1> QED
  BY <1>2, <1>3, <1>4 DEF IInv

(* ------------------------------- Sending ------------------------------- *)

LEMMA SendKeeps ==
    ASSUME IInv, NEW c \in Conns, NEW n \in 1..MaxFrags, Send(c, n)
    PROVE  IInv'
<1> USE DEF IInv
<1>1. n \in Nat \ {0}
  BY FragmentCount
<1>2. QueueOK(txq[c], frag[c])
  BY QueuesOK
<1>3. CASE SendBackedUp(c, n)
  <2> DEFINE p == [left |-> n, begun |-> FALSE]
  <2>1. p \in Packet
    BY <1>1 DEF Packet
  <2>2. QueueOK(Append(txq[c], p), frag[c])
    BY <1>2, <1>3, <2>1, AppendWhole DEF SendBackedUp, QueueOK
  <2>3. txq' = [txq EXCEPT ![c] = Append(txq[c], p)] /\ frag' = [frag EXCEPT ![c] = frag[c]]
    BY <1>3 DEF SendBackedUp, TypeOK
  <2>4. frag[c] \in BOOLEAN
    BY DEF TypeOK
  <2>5. HalfSentIsNext' /\ txq' \in [Conns -> Seq(Packet)]
    BY <2>2, <2>3, <2>4, OneQueue
  <2>6. TypeOK'
    BY <1>3, <2>5 DEF Send, SendBackedUp, TypeOK, loopVars
  <2>7. (NoLostWakeup /\ Unlisted /\ BrokenKnown)'
    BY <1>3 DEF Send, SendBackedUp, TypeOK, loopVars, NoLostWakeup, Unlisted, BrokenKnown
  <2> QED
    BY <2>5, <2>6, <2>7
<1>4. CASE SendNow(c, n)
  <2>1. avail' \in Nat /\ outstanding' \in [Conns -> Nat] /\ ctl' \in [Conns -> Nat]
        /\ frag' \in [Conns -> BOOLEAN]
    BY <1>1, <1>4, TxTypes DEF SendNow
  <2>2. txq[c] = <<>> /\ txq' = [txq EXCEPT ![c] = <<>>] /\ frag' = [frag EXCEPT ![c] = FALSE]
    BY <1>4 DEF SendNow, TxAll, TxFails, Flag, TypeOK
  <2>3. QueueOK(<<>>, FALSE)
    BY NoPacket DEF QueueOK
  <2>4. HalfSentIsNext'
    BY <2>2, <2>3, OneQueue
  <2>5. TypeOK'
    BY <1>4, <2>1 DEF Send, SendNow, TypeOK, loopVars
  <2>6. avail' = 0 \/ avail # 0
    BY <1>1, <1>4, FullOrRoom DEF SendNow
  <2>7. NoLostWakeup'
    BY <1>4, <2>6 DEF Send, SendNow, loopVars, NoLostWakeup
  <2>8. (Unlisted /\ BrokenKnown)'
    BY <1>4 DEF Send, SendNow, loopVars, Unlisted, BrokenKnown
  <2> QED
    BY <2>4, <2>5, <2>7, <2>8
<1>5. CASE SendRemainder(c, n)
  <2> DEFINE p == [left |-> n - avail, begun |-> avail > 0]
  <2>1. p \in Packet
    BY <1>1, <1>5 DEF Packet, SendRemainder, TxSome, TypeOK
  <2>2. ~frag[c]
    BY <1>2, <1>5 DEF SendRemainder, QueueOK
  <2> DEFINE f == frag[c] \/ avail > 0
  <2>3. txq' = [txq EXCEPT ![c] = <<p>>] /\ frag' = [frag EXCEPT ![c] = f]
    BY <1>5 DEF SendRemainder, TxSome, Flag
  <2>10. f <=> p.begun
    BY <2>2
  <2>4. QueueOK(<<p>>, f)
    BY <2>1, <2>10, OnePacket DEF QueueOK
  <2>5. HalfSentIsNext' /\ txq' \in [Conns -> Seq(Packet)]
    BY <2>3, <2>4, OneQueue
  <2>6. avail' \in Nat /\ outstanding' \in [Conns -> Nat] /\ ctl' \in [Conns -> Nat]
        /\ frag' \in [Conns -> BOOLEAN]
    BY <1>1, <1>5, TxTypes DEF SendRemainder
  <2>7. TypeOK'
    BY <1>5, <2>5, <2>6 DEF Send, SendRemainder, TypeOK, loopVars
  <2>8. avail' = 0
    BY <1>5 DEF SendRemainder, TxSome, Transmit, TypeOK
  <2>9. (NoLostWakeup /\ Unlisted /\ BrokenKnown)'
    BY <1>5, <2>8 DEF Send, SendRemainder, TypeOK, loopVars, NoLostWakeup, Unlisted, BrokenKnown
  <2> QED
    BY <2>5, <2>7, <2>9
<1> QED
  BY <1>3, <1>4, <1>5 DEF Send

(* -------------------------- Waking the queues -------------------------- *)

LEMMA WakeSentKeeps ==
    ASSUME IInv, NEW c \in Conns, WakeSent(c)
    PROVE  IInv'
<1> USE DEF IInv
<1> DEFINE n == Head(txq[c]).left
<1>1. QueueOK(txq[c], frag[c]) /\ txq[c] # <<>> /\ hostAt = "waking" /\ c = cur
  BY QueuesOK DEF WakeSent, WakeConn
<1>2. Head(txq[c]) \in Packet
  BY <1>1 DEF QueueOK
<1>3. n \in Nat \ {0}
  BY <1>2 DEF Packet
<1>4. avail' \in Nat /\ outstanding' \in [Conns -> Nat] /\ ctl' \in [Conns -> Nat]
  BY <1>3, TxTypes DEF WakeSent
<1>5. txq' = [txq EXCEPT ![c] = Tail(txq[c])] /\ frag' = [frag EXCEPT ![c] = FALSE]
  BY DEF WakeSent, TxAll, TxFails, Flag
<1>6. QueueOK(Tail(txq[c]), FALSE)
  BY <1>1, TailWhole DEF QueueOK
<1>7. HalfSentIsNext' /\ txq' \in [Conns -> Seq(Packet)] /\ frag' \in [Conns -> BOOLEAN]
  BY <1>5, <1>6, OneQueue
<1>8. TypeOK'
  BY <1>4, <1>7 DEF WakeSent, TypeOK, loopVars
<1>9. \A d \in Conns : d # c => txq'[d] = txq[d]
  BY <1>5 DEF TypeOK
<1>10. avail' = 0 \/ avail # 0
  BY <1>3, FullOrRoom DEF WakeSent
<1>11. NoLostWakeup'
  BY <1>1, <1>9, <1>10 DEF WakeSent, loopVars, NoLostWakeup
<1>12. Unlisted'
  BY <1>1, <1>9 DEF WakeSent, Unlisted
<1>13. BrokenKnown'
  BY DEF WakeSent, loopVars, BrokenKnown
<1> QED
  BY <1>7, <1>8, <1>11, <1>12, <1>13

LEMMA WakeFullKeeps ==
    ASSUME IInv, NEW c \in Conns, WakeFull(c)
    PROVE  IInv'
<1> USE DEF IInv
<1> DEFINE h == Head(txq[c])
           p == Remainder(h)
<1>1. QueueOK(txq[c], frag[c]) /\ txq[c] # <<>> /\ hostAt = "waking" /\ c = cur
  BY QueuesOK DEF WakeFull, WakeConn
<1>2. h \in Packet
  BY <1>1 DEF QueueOK
<1>3. h.left \in Nat \ {0} /\ h.begun \in BOOLEAN
  BY <1>2 DEF Packet
<1>4. TxSome(c, h.left)
  BY DEF WakeFull
<1>5. p \in Packet
  BY <1>3, <1>4 DEF Packet, Remainder, TxSome, TypeOK
<1>6. p.begun <=> h.begun \/ avail > 0
  BY DEF Remainder
<1>7. frag[c] \/ avail > 0 <=> p.begun
  BY <1>1, <1>6 DEF QueueOK
<1>8. QueueOK(<<p>> \o Tail(txq[c]), frag[c] \/ avail > 0)
  BY <1>1, <1>5, <1>7, PutBack DEF QueueOK
<1>9. /\ txq' = [txq EXCEPT ![c] = <<p>> \o Tail(txq[c])]
      /\ frag' = [frag EXCEPT ![c] = frag[c] \/ avail > 0]
  BY <1>4 DEF WakeFull, TxSome, Flag
<1>10. HalfSentIsNext' /\ txq' \in [Conns -> Seq(Packet)] /\ frag' \in [Conns -> BOOLEAN]
  BY <1>8, <1>9, OneQueue
<1>11. avail' \in Nat /\ outstanding' \in [Conns -> Nat] /\ ctl' \in [Conns -> Nat]
  BY <1>3, <1>4, TxTypes
<1>12. TypeOK'
  BY <1>10, <1>11 DEF WakeFull, TypeOK, Places
<1>13. avail' = 0
  BY <1>4 DEF TxSome, Transmit, TypeOK
<1>14. NoLostWakeup' /\ BrokenKnown'
  BY <1>13 DEF WakeFull, NoLostWakeup, BrokenKnown
<1>15. Unlisted'
  <2>1. c \in conns
    BY <1>1 DEF Unlisted
  <2>2. \A d \in Conns : d # c => txq'[d] = txq[d]
    BY <1>9 DEF TypeOK
  <2> QED
    BY <2>1, <2>2 DEF WakeFull, Unlisted
<1> QED
  BY <1>10, <1>12, <1>14, <1>15

LEMMA WakeupKeeps ==
    ASSUME IInv, WakeupTx \/ WakePick \/ WakeNext \/ WakeDone
    PROVE  IInv'
<1> USE DEF IInv
<1>1. UNCHANGED <<conns, avail, outstanding, txq, frag, adv, entries, evts, link, ctl, refusals>>
  BY DEF WakeupTx, WakePick, WakeNext, WakeDone, connVars, loopVars, radio
<1>2. hostAt' \in Places /\ cur' \in Conns \cup {NULL} /\ todo' \in SUBSET Conns
  BY DEF WakeupTx, WakePick, WakeNext, WakeDone, loopVars, Goto, Places, TypeOK
<1>3. TypeOK'
  BY <1>1, <1>2 DEF TypeOK
<1>4. HalfSentIsNext' /\ Unlisted'
  BY <1>1 DEF HalfSentIsNext, Unlisted
<1>5. BrokenKnown'
  BY DEF WakeupTx, WakePick, WakeNext, WakeDone, Goto, BrokenKnown
<1>6. NoLostWakeup'
  <2>1. CASE WakeupTx
    BY <1>1, <2>1 DEF WakeupTx, Goto, NoLostWakeup, Unlisted
  <2>2. CASE WakePick
    <3>1. PICK c \in todo : cur' = c /\ todo' = todo \ {c}
      BY <2>2 DEF WakePick
    <3>2. hostAt = "waking" /\ hostAt' = "waking" /\ cur = NULL
      BY <2>2 DEF WakePick
    <3>3. todo \cup {cur} \subseteq {NULL} \cup todo' \cup {cur'}
      BY <3>1, <3>2
    <3> QED
      BY <1>1, <3>2, <3>3, NullIsNoConn DEF NoLostWakeup
  <2>3. CASE WakeNext
    BY <1>1, <2>3 DEF WakeNext, NoLostWakeup
  <2>4. CASE WakeDone
    BY <1>1, <2>4, NullIsNoConn DEF WakeDone, Goto, NoLostWakeup
  <2> QED
    BY <2>1, <2>2, <2>3, <2>4
<1> QED
  BY <1>3, <1>4, <1>5, <1>6

(* ------------------------ The other host actions ------------------------ *)

LEMMA CompletedKeeps == IInv /\ Completed => IInv'
<1> SUFFICES ASSUME IInv, Completed PROVE IInv'
  OBVIOUS
<1> USE DEF IInv
<1>1. Head(evts) \in Event /\ evts' \in Seq(Event) /\ Head(evts).kind = "completed"
  BY HandleTypes DEF Completed, Handle
<1>2. entries' \in [Conns -> Nat]
  BY <1>1, EventFields DEF Completed
<1>3. UNCHANGED <<conns, avail, outstanding, txq, frag, adv, cur, todo, link, ctl, refusals>>
  BY DEF Completed, connVars, radio
<1>4. TypeOK'
  BY <1>1, <1>2, <1>3 DEF Completed, TypeOK, Places
<1>5. (HalfSentIsNext /\ Unlisted /\ NoLostWakeup /\ BrokenKnown)'
  BY <1>3 DEF Completed, HalfSentIsNext, Unlisted, NoLostWakeup, BrokenKnown
<1> QED
  BY <1>4, <1>5

LEMMA CountEntryKeeps ==
    ASSUME IInv, NEW c \in Conns, CountEntry(c)
    PROVE  IInv'
<1> USE DEF IInv
<1>1. UNCHANGED <<conns, txq, frag, adv, hostAt, cur, todo, link, ctl, refusals>>
  BY DEF CountEntry, radio
<1>2. entries[c] \in Nat /\ outstanding[c] \in Nat
  BY DEF TypeOK
<1>3. entries' \in [Conns -> Nat] /\ avail' \in Nat /\ outstanding' \in [Conns -> Nat]
  <2>1. CASE c \in conns
    <3> DEFINE m == IF outstanding[c] < entries[c] THEN outstanding[c] ELSE outstanding[c] - entries[c]
    <3>1. m \in Nat /\ avail + entries[c] \in Nat
      BY <1>2 DEF TypeOK
    <3>2. outstanding' = [outstanding EXCEPT ![c] = m] /\ avail' = avail + entries[c]
          /\ entries' = [entries EXCEPT ![c] = 0]
      BY <2>1 DEF CountEntry
    <3> HIDE DEF m
    <3> QED
      BY <3>1, <3>2 DEF TypeOK
  <2>2. CASE c \notin conns
    BY <1>2, <2>2 DEF CountEntry, TypeOK
  <2> QED
    BY <2>1, <2>2
<1>4. evts' \in Seq(Event)
  <2>1. SchedReset \/ UNCHANGED evts
    BY DEF CountEntry
  <2> QED
    BY <2>1, SchedResetTypes DEF TypeOK
<1>5. TypeOK'
  BY <1>1, <1>3, <1>4 DEF TypeOK
<1>6. hostAt = "entries"
  BY DEF CountEntry
<1>7. (HalfSentIsNext /\ Unlisted /\ NoLostWakeup /\ BrokenKnown)'
  BY <1>1, <1>6 DEF HalfSentIsNext, Unlisted, NoLostWakeup, BrokenKnown
<1> QED
  BY <1>5, <1>7

LEMMA DisconnKeeps == IInv /\ DisconnComplete => IInv'
<1> SUFFICES ASSUME IInv, DisconnComplete PROVE IInv'
  OBVIOUS
<1> USE DEF IInv
<1> DEFINE e == Head(evts)
<1>1. e \in Event /\ evts' \in Seq(Event) /\ e.kind = "disconn"
  BY HandleTypes DEF DisconnComplete, Handle
<1>2. e.conn \in Conns /\ e.ok \in BOOLEAN
  BY <1>1, EventFields
<1>3. avail' \in Nat
  BY <1>2 DEF DisconnComplete, TypeOK
<1>4. /\ cur' \in Conns \cup {NULL}
      /\ hostAt' \in {"broken", "wakeup"}
      /\ hostAt' = "broken" => cur' \in Conns
  BY <1>2 DEF DisconnComplete
<1>5. UNCHANGED <<conns, outstanding, txq, frag, adv, entries, todo, link, ctl, refusals>>
  BY DEF DisconnComplete, connVars, radio
<1>6. TypeOK'
  BY <1>1, <1>3, <1>4, <1>5 DEF TypeOK, Places
<1>7. (HalfSentIsNext /\ Unlisted /\ NoLostWakeup /\ BrokenKnown)'
  BY <1>4, <1>5 DEF HalfSentIsNext, Unlisted, NoLostWakeup, BrokenKnown
<1> QED
  BY <1>6, <1>7

\* A connection that leaves the list takes its queue with it.
LEMMA UnlistKeeps ==
    ASSUME TypeOK, HalfSentIsNext, Unlisted, NEW c \in Conns, Unlist(c)
    PROVE  /\ conns' \in SUBSET Conns
           /\ outstanding' \in [Conns -> Nat]
           /\ txq' \in [Conns -> Seq(Packet)]
           /\ frag' \in [Conns -> BOOLEAN]
           /\ HalfSentIsNext'
           /\ Unlisted'
           /\ \A d \in Conns : txq'[d] # <<>> => txq[d] # <<>>
<1>1. QueueOK(<<>>, FALSE)
  BY NoPacket DEF QueueOK
<1>2. txq' = [txq EXCEPT ![c] = <<>>] /\ frag' = [frag EXCEPT ![c] = FALSE]
  BY DEF Unlist, Flag
<1>3. txq' \in [Conns -> Seq(Packet)] /\ frag' \in [Conns -> BOOLEAN] /\ HalfSentIsNext'
  BY <1>1, <1>2, OneQueue
<1>4. conns' \in SUBSET Conns /\ outstanding' \in [Conns -> Nat]
  BY DEF Unlist, TypeOK
<1>5. \A d \in Conns : txq'[d] = IF d = c THEN <<>> ELSE txq[d]
  BY <1>2 DEF TypeOK
<1>6. Unlisted'
  BY <1>5 DEF Unlist, Unlisted
<1> QED
  BY <1>3, <1>4, <1>5, <1>6

LEMMA ConnBrokenKeeps == IInv /\ ConnBroken => IInv'
<1> SUFFICES ASSUME IInv, ConnBroken PROVE IInv'
  OBVIOUS
<1> USE DEF IInv
<1>1. cur \in Conns
  BY DEF ConnBroken, Goto, BrokenKnown
<1>2. UNCHANGED <<avail, adv, entries, todo, evts, link, ctl, refusals>>
      /\ hostAt' = "wakeup" /\ cur' = NULL
  BY DEF ConnBroken, Goto, radio
<1>3. Unlist(cur)
  BY DEF ConnBroken
<1>4. TypeOK' /\ HalfSentIsNext' /\ Unlisted'
  BY <1>1, <1>2, <1>3, UnlistKeeps DEF TypeOK, Places
<1>5. NoLostWakeup' /\ BrokenKnown'
  BY <1>2 DEF NoLostWakeup, BrokenKnown
<1> QED
  BY <1>4, <1>5

LEMMA ResetKeeps ==
    ASSUME IInv, Reset \/ ResetConn \/ Sync
    PROVE  IInv'
<1> USE DEF IInv
<1>1. CASE Reset
  <2>1. UNCHANGED <<conns, avail, outstanding, txq, frag, adv, entries, cur, todo, link, ctl,
                    refusals>>
        /\ hostAt = "idle" /\ hostAt' = "reset"
    BY <1>1 DEF Reset, Handle, connVars, loopVars, radio
  <2>2. evts' \in Seq(Event)
    BY <1>1, HandleTypes DEF Reset
  <2>3. TypeOK'
    BY <2>1, <2>2 DEF TypeOK, Places
  <2>4. (HalfSentIsNext /\ Unlisted /\ NoLostWakeup /\ BrokenKnown)'
    BY <2>1 DEF HalfSentIsNext, Unlisted, NoLostWakeup, BrokenKnown
  <2> QED
    BY <2>3, <2>4
<1>2. CASE ResetConn
  <2>1. PICK c \in conns : Unlist(c)
    BY <1>2 DEF ResetConn
  <2>2. c \in Conns
    BY DEF TypeOK
  <2>3. UNCHANGED <<avail, adv, hostAt, entries, cur, todo, evts, link, ctl, refusals>>
        /\ hostAt = "reset"
    BY <1>2 DEF ResetConn, loopVars, radio
  <2>4. TypeOK' /\ HalfSentIsNext' /\ Unlisted'
    BY <2>1, <2>2, <2>3, UnlistKeeps DEF TypeOK
  <2>5. NoLostWakeup' /\ BrokenKnown'
    BY <2>1, <2>2, <2>3, UnlistKeeps DEF NoLostWakeup, BrokenKnown
  <2> QED
    BY <2>4, <2>5
<1>3. CASE Sync
  <2>1. UNCHANGED <<conns, outstanding, txq, frag, entries, cur, todo, evts, refusals>>
        /\ hostAt' = "idle" /\ conns = {}
    BY <1>3 DEF Sync, Goto, connVars, loopVars
  <2>2. TypeOK'
    BY <1>3, <2>1, BufferCount DEF Sync, TypeOK, Places, None
  <2>3. (HalfSentIsNext /\ Unlisted /\ NoLostWakeup /\ BrokenKnown)'
    BY <2>1 DEF HalfSentIsNext, Unlisted, NoLostWakeup, BrokenKnown
  <2> QED
    BY <2>2, <2>3
<1> QED
  BY <1>1, <1>2, <1>3

\* Nothing the queues depend on changes, except that a connection is new.
LEMMA QuietKeeps ==
    ASSUME IInv,
           conns \subseteq conns', conns' \in SUBSET Conns,
           adv' \in BOOLEAN, evts' \in Seq(Event), link' \in [Conns -> BOOLEAN],
           ctl' \in [Conns -> Nat], refusals' \in Nat,
           UNCHANGED <<avail, outstanding, txq, frag, hostAt, entries, cur, todo>>
    PROVE  IInv'
<1>1. TypeOK'
  BY DEF IInv, TypeOK
<1>2. (HalfSentIsNext /\ Unlisted /\ NoLostWakeup /\ BrokenKnown)'
  BY DEF IInv, HalfSentIsNext, Unlisted, NoLostWakeup, BrokenKnown
<1> QED
  BY <1>1, <1>2 DEF IInv

LEMMA ConnCompleteKeeps == IInv /\ ConnComplete => IInv'
<1> SUFFICES ASSUME IInv, ConnComplete PROVE IInv'
  OBVIOUS
<1>1. TypeOK
  BY DEF IInv
<1>2. Head(evts) \in Event /\ evts' \in Seq(Event) /\ Head(evts).kind = "connect"
  BY <1>1, HandleTypes DEF ConnComplete, Handle
<1>3. Head(evts).conn \in Conns
  BY <1>2, EventFields
<1>4. conns \subseteq conns' /\ conns' \in SUBSET Conns /\ adv' \in BOOLEAN
  BY <1>1, <1>3 DEF ConnComplete, TypeOK
<1> QED
  BY <1>1, <1>2, <1>4, QuietKeeps DEF ConnComplete, connVars, loopVars, radio, TypeOK

LEMMA OthersKeep ==
    ASSUME IInv, Advertise \/ Fault \/ Controller
    PROVE  IInv'
<1>1. TypeOK
  BY DEF IInv
<1> USE DEF connVars, loopVars, radio
<1>2. CASE Advertise
  BY <1>1, <1>2, QuietKeeps DEF Advertise, TypeOK
<1>3. CASE Fault
  BY <1>1, <1>3, QuietKeeps, SchedResetTypes DEF Fault, TypeOK
<1>4. CASE Complete
  <2>1. PICK done \in [Conns -> 0..MaxPkts] :
            /\ \A c \in Conns : done[c] <= ctl[c]
            /\ ctl' = [c \in Conns |-> ctl[c] - done[c]]
            /\ Post([kind |-> "completed", pkts |-> done])
            /\ UNCHANGED <<conns, avail, connVars, adv, hostAt, loopVars, link, refusals>>
    BY <1>4 DEF Complete
  <2>2. [kind |-> "completed", pkts |-> done] \in Event
    <3>1. done \in [Conns -> Nat]
      BY BufferCount
    <3> QED
      BY <3>1 DEF Event
  <2>3. evts' \in Seq(Event)
    BY <1>1, <2>1, <2>2, PostTypes DEF Post
  <2>4. ctl' \in [Conns -> Nat]
    <3>1. \A c \in Conns : ctl[c] - done[c] \in Nat
      BY <1>1, <2>1, BufferCount DEF TypeOK
    <3> QED
      BY <2>1, <3>1
  <2> QED
    BY <1>1, <2>1, <2>3, <2>4, QuietKeeps DEF TypeOK
<1>5. ASSUME NEW c \in Conns, Disconnect(c) \/ RefuseDisconnect(c) \/ Connect(c)
      PROVE  IInv'
  <2>1. /\ [kind |-> "disconn", conn |-> c, ok |-> TRUE] \in Event
        /\ [kind |-> "disconn", conn |-> c, ok |-> FALSE] \in Event
        /\ [kind |-> "connect", conn |-> c] \in Event
    BY DEF Event
  <2>2. evts' \in Seq(Event)
    BY <1>1, <1>5, <2>1, PostTypes DEF Disconnect, RefuseDisconnect, Connect, Post
  <2>3. /\ link' \in [Conns -> BOOLEAN]
        /\ ctl' \in [Conns -> Nat]
        /\ refusals' \in Nat
    <3>1. CASE Disconnect(c)
      BY <1>1, <3>1 DEF Disconnect, TypeOK
    <3>2. CASE RefuseDisconnect(c)
      BY <1>1, <3>2 DEF RefuseDisconnect, TypeOK
    <3>3. CASE Connect(c)
      BY <1>1, <3>3 DEF Connect, TypeOK
    <3> QED
      BY <1>5, <3>1, <3>2, <3>3
  <2>4. UNCHANGED <<conns, avail, connVars, adv, hostAt, loopVars>>
    BY <1>5 DEF Disconnect, RefuseDisconnect, Connect
  <2> QED
    BY <1>1, <2>2, <2>3, <2>4, QuietKeeps DEF TypeOK
<1> QED
  BY <1>2, <1>3, <1>4, <1>5 DEF Controller

(* ------------------------------ Theorems -------------------------------- *)

LEMMA EntriesDoneKeeps == IInv /\ EntriesDone => IInv'
<1> SUFFICES ASSUME IInv, EntriesDone PROVE IInv'
  OBVIOUS
<1>1. UNCHANGED <<conns, avail, outstanding, txq, frag, adv, entries, cur, todo, evts, link, ctl,
                  refusals>>
      /\ hostAt' = "wakeup"
  BY DEF EntriesDone, Goto, connVars, loopVars, radio
<1>2. TypeOK'
  BY <1>1 DEF IInv, TypeOK, Places
<1>3. (HalfSentIsNext /\ Unlisted /\ NoLostWakeup /\ BrokenKnown)'
  BY <1>1 DEF IInv, HalfSentIsNext, Unlisted, NoLostWakeup, BrokenKnown
<1> QED
  BY <1>2, <1>3 DEF IInv

LEMMA EveryStep == IInv /\ [Next]_vars => IInv'
<1> SUFFICES ASSUME IInv, [Next]_vars PROVE IInv'
  OBVIOUS
<1>1. CASE \E c \in Conns, n \in 1..MaxFrags : Send(c, n)
  BY <1>1, SendKeeps
<1>2. CASE HostStep
  BY <1>2, CompletedKeeps, EntriesDoneKeeps, DisconnKeeps, ConnBrokenKeeps, ConnCompleteKeeps,
     CountEntryKeeps, WakeSentKeeps, WakeFullKeeps, WakeupKeeps, ResetKeeps DEF HostStep
<1>3. CASE Advertise \/ Fault \/ Controller
  BY <1>3, OthersKeep
<1>4. CASE UNCHANGED vars
  <2>1. UNCHANGED <<conns, avail, outstanding, txq, frag, adv, hostAt, entries, cur, todo, evts,
                    link, ctl, refusals>>
    BY <1>4 DEF vars, connVars, loopVars, radio
  <2> QED
    BY <2>1, QuietKeeps DEF IInv, TypeOK
<1> QED
  BY <1>1, <1>2, <1>3, <1>4 DEF Next

LEMMA Inductive == Spec => []IInv
  BY Initially, EveryStep, PTL DEF Spec

\* Every variable keeps its type: the count of free buffers and those of a
\* connection are never negative (they are uint16_t).
THEOREM TypeCorrect == Spec => []TypeOK
<1>1. IInv => TypeOK
  BY DEF IInv
<1> QED
  BY <1>1, Inductive, PTL

\* A queue waits only while the controller is full or a wake-up is under way.
THEOREM WakeupNotLost == Spec => []NoLostWakeup
<1>1. IInv => NoLostWakeup
  BY DEF IInv
<1> QED
  BY <1>1, Inductive, PTL

\* A packet half sent is the next its connection sends, and the flag says so.
THEOREM PacketsInOrder == Spec => []HalfSentIsNext
<1>1. IInv => HalfSentIsNext
  BY DEF IInv
<1> QED
  BY <1>1, Inductive, PTL


(* ------------------------- The buffers, in sum -------------------------- *)

\* The fold that sums f is a recursive function, and there is one.
IsSumOver(iter, f) ==
    iter = [s \in SUBSET DOMAIN f |->
               IF s = {} THEN 0
               ELSE LET x == CHOOSE x \in s : TRUE IN f[x] + iter[s \ {x}]]

LEMMA SumUnfold ==
    ASSUME NEW S, NEW f \in [S -> Nat]
    PROVE  SumFunction(f) = (CHOOSE iter : IsSumOver(iter, f))[S]
  BY DEF SumFunction, SumFunctionOnSet, FoldFunctionOnSet, MapThenFoldSet, IsSumOver

\* A function that is zero but for one argument sums to what it is there. The
\* fold is well defined since a function is known that has its recursion; the
\* two agree on every subset, or they would differ on a smaller one.
LEMMA SumOfOne ==
    ASSUME NEW S, IsFiniteSet(S), NEW f \in [S -> Nat], NEW c,
           \A d \in S \ {c} : f[d] = 0
    PROVE  SumFunction(f) = IF c \in S THEN f[c] ELSE 0
<1> DEFINE g == [s \in SUBSET S |-> IF c \in s THEN f[c] ELSE 0]
           h == CHOOSE iter : IsSumOver(iter, f)
<1>1. IsSumOver(g, f)
  <2> SUFFICES ASSUME NEW s \in SUBSET S, s # {}
               PROVE  g[s] = f[CHOOSE x \in s : TRUE] + g[s \ {CHOOSE x \in s : TRUE}]
    BY DEF IsSumOver
  <2>1. PICK x \in s : x = CHOOSE y \in s : TRUE
    OBVIOUS
  <2>2. g[s] = f[x] + g[s \ {x}]
    OBVIOUS
  <2> QED
    BY <2>1, <2>2
<1>2. IsSumOver(h, f)
  BY <1>1
<1> HIDE DEF h
<1>3. h[S] = g[S]
  <2> DEFINE Bad == {s \in SUBSET S : h[s] # g[s]}
  <2> SUFFICES ASSUME Bad # {} PROVE FALSE
    OBVIOUS
  <2>1. PICK s \in Bad : \A t \in Bad : <<t, s>> \notin StrictSubsetOrdering(S)
    <3>1. IsWellFoundedOn(StrictSubsetOrdering(S), SUBSET S)
      BY FS_StrictSubsetOrderingWellFounded, FS_FiniteSubsetsOfFinite
    <3> HIDE DEF Bad
    <3>2. Bad \subseteq SUBSET S
      BY DEF Bad
    <3> QED
      BY <3>1, <3>2, WFMin, Zenon
  <2>2. s # {}
    BY <1>1, <1>2 DEF IsSumOver
  <2> DEFINE x == CHOOSE x \in s : TRUE
  <2>3. x \in s
    BY <2>2
  <2>4. h[s] = f[x] + h[s \ {x}] /\ g[s] = f[x] + g[s \ {x}]
    BY <1>1, <1>2, <2>2 DEF IsSumOver
  <2> HIDE DEF x, g
  <2>5. s \ {x} \in Bad
    BY <2>4
  <2> QED
    BY <2>1, <2>3, <2>5 DEF StrictSubsetOrdering
<1> QED
  BY <1>3, SumUnfold DEF h
(* --------------------------- What is accounted -------------------------- *)

Carried(e, c) == IF e.kind = "completed" THEN e.pkts[c] ELSE 0

\* total covers what the controller holds of c and what the events of q say
\* it has sent: owed[i] is what is left from the event i on.
Owes(q, c, held, total) ==
    \E owed \in [1 .. Len(q) + 1 -> Nat] :
        /\ owed[1] <= total
        /\ owed[Len(q) + 1] = held
        /\ \A i \in 1 .. Len(q), j \in 1 .. Len(q) + 1 :
               i < j => owed[j] + Carried(q[i], c) <= owed[i]

Covered(c) ==
    /\ avail + outstanding[c] <= MaxPkts
    /\ Owes(evts, c, ctl[c], outstanding[c] - entries[c])

\* One connection at most, and none while the host advertises.
OneListed == /\ adv => conns = {}
             /\ \A c, d \in conns : c = d

\* A connection that is announced has not yet been sent anything: it is the
\* only one announced, no completed packets of it follow, and where its end
\* does the controller does not have the link any more.
AnnouncedAt(i) ==
    LET c == evts[i].conn IN
    /\ ctl[c] = 0
    /\ \A j \in DOMAIN evts : j > i =>
           /\ evts[j].kind # "connect"
           /\ Carried(evts[j], c) = 0
           /\ evts[j].kind = "disconn" /\ evts[j].conn = c => ~link[c]

Announced ==
    /\ Connecting => conns = {}
    /\ \A i \in DOMAIN evts : evts[i].kind = "connect" => AnnouncedAt(i)

\* A connection whose end is announced or being handled has no link.
Leaving ==
    /\ \A i \in DOMAIN evts : evts[i].kind = "disconn" =>
           evts[i].ok /\ (evts[i].conn \in conns => ~link[evts[i].conn])
    /\ hostAt = "broken" /\ cur \in conns => ~link[cur]

\* The controller holds packets of one link, the one that is listed but
\* during a reset.
Held ==
    /\ \A c \in Conns : ctl[c] > 0 => link[c] /\ ctl[c] <= MaxPkts
    /\ \A c \in Conns \ conns : ctl[c] > 0 => hostAt = "reset" /\ conns = {}
    /\ \A c, d \in Conns : ctl[c] > 0 /\ ctl[d] > 0 => c = d

\* The host counts no buffer as free that the controller uses; but for the
\* connection that is being broken, whose buffers it has taken back.
Balanced ==
    /\ avail <= MaxPkts
    /\ \A c \in conns : Covered(c) \/ (hostAt = "broken" /\ cur = c)

Accounts == OneListed /\ Announced /\ Leaving /\ Held /\ Balanced

\* What is not listed owes nothing; what is counted has been.
Rest == /\ \A c \in Conns \ conns : outstanding[c] = 0
        /\ hostAt # "entries" => entries = None

Credit == IInv /\ Rest /\ (refusals = 0 => Accounts)

(* --------------------------------- Debts -------------------------------- *)

LEMMA CarriedTypes ==
    ASSUME NEW e \in Event, NEW c \in Conns
    PROVE  Carried(e, c) \in Nat
  BY EventFields DEF Carried

\* What is sent is owed.
LEMMA OwesMore ==
    ASSUME NEW q \in Seq(Event), NEW c \in Conns, NEW held \in Nat, NEW total \in Int,
           NEW k \in Nat, Owes(q, c, held, total)
    PROVE  Owes(q, c, held + k, total + k)
<1>1. PICK owed \in [1 .. Len(q) + 1 -> Nat] :
          /\ owed[1] <= total
          /\ owed[Len(q) + 1] = held
          /\ \A i \in 1 .. Len(q), j \in 1 .. Len(q) + 1 :
                 i < j => owed[j] + Carried(q[i], c) <= owed[i]
  BY DEF Owes
<1> DEFINE more == [i \in 1 .. Len(q) + 1 |-> owed[i] + k]
<1>2. more \in [1 .. Len(q) + 1 -> Nat]
  OBVIOUS
<1>3. \A i \in 1 .. Len(q) + 1 : more[i] = owed[i] + k
  OBVIOUS
<1>4. more[1] <= total + k /\ more[Len(q) + 1] = held + k
  BY <1>1, <1>3
<1>5. ASSUME NEW i \in 1 .. Len(q), NEW j \in 1 .. Len(q) + 1, i < j
      PROVE  more[j] + Carried(q[i], c) <= more[i]
  <2>1. owed[j] + Carried(q[i], c) <= owed[i]
    BY <1>1, <1>5
  <2>2. Carried(q[i], c) \in Nat /\ owed[i] \in Nat /\ owed[j] \in Nat
    BY CarriedTypes
  <2>3. more[i] = owed[i] + k /\ more[j] = owed[j] + k
    OBVIOUS
  <2> HIDE DEF more
  <2> QED
    BY <2>1, <2>2, <2>3
<1> HIDE DEF more
<1> QED
  BY <1>2, <1>4, <1>5 DEF Owes

\* More may be allowed than is needed.
LEMMA OwesSlack ==
    ASSUME NEW q \in Seq(Event), NEW c \in Conns, NEW held \in Nat, NEW total \in Int,
           NEW k \in Nat, Owes(q, c, held, total)
    PROVE  Owes(q, c, held, total + k)
  BY DEF Owes

\* What an event carries is covered, and so is the rest.
LEMMA OwesTail ==
    ASSUME NEW q \in Seq(Event), q # <<>>, NEW c \in Conns, NEW held \in Nat, NEW total \in Int,
           Owes(q, c, held, total)
    PROVE  Owes(Tail(q), c, held, total - Carried(Head(q), c))
<1>1. PICK owed \in [1 .. Len(q) + 1 -> Nat] :
          /\ owed[1] <= total
          /\ owed[Len(q) + 1] = held
          /\ \A i \in 1 .. Len(q), j \in 1 .. Len(q) + 1 :
                 i < j => owed[j] + Carried(q[i], c) <= owed[i]
  BY DEF Owes
<1> DEFINE r == Tail(q)
           left == [i \in 1 .. Len(r) + 1 |-> owed[i + 1]]
<1>2. r \in Seq(Event) /\ Len(r) + 1 = Len(q) /\ \A i \in 1 .. Len(r) : r[i] = q[i + 1]
  OBVIOUS
<1>3. left \in [1 .. Len(r) + 1 -> Nat]
  BY <1>2
<1>4. \A i \in 1 .. Len(r) + 1 : left[i] = owed[i + 1] /\ i + 1 \in 1 .. Len(q) + 1
  BY <1>2
<1>5. Head(q) = q[1] /\ Head(q) \in Event /\ 1 \in 1 .. Len(q) /\ 2 \in 1 .. Len(q) + 1
  OBVIOUS
<1>6. owed[2] + Carried(Head(q), c) <= owed[1]
  BY <1>1, <1>5
<1>7. owed[1] \in Nat /\ owed[2] \in Nat /\ Carried(Head(q), c) \in Nat
  BY <1>5, CarriedTypes
<1>8. left[1] = owed[2] /\ left[Len(r) + 1] = held
  BY <1>1, <1>2, <1>4
<1>9. left[1] <= total - Carried(Head(q), c)
  BY <1>1, <1>6, <1>7, <1>8
<1>10. ASSUME NEW i \in 1 .. Len(r), NEW j \in 1 .. Len(r) + 1, i < j
       PROVE  left[j] + Carried(r[i], c) <= left[i]
  <2>1. i + 1 \in 1 .. Len(q) /\ j + 1 \in 1 .. Len(q) + 1 /\ i + 1 < j + 1
    BY <1>2, <1>10
  <2> QED
    BY <1>1, <1>2, <1>4, <2>1
<1> HIDE DEF left
<1> QED
  BY <1>2, <1>3, <1>8, <1>9, <1>10 DEF Owes

\* What the controller sends or drops it does not hold any more.
LEMMA OwesAppend ==
    ASSUME NEW q \in Seq(Event), NEW e \in Event, NEW c \in Conns, NEW held \in Nat,
           NEW kept \in Nat, NEW total \in Int,
           kept + Carried(e, c) <= held, Owes(q, c, held, total)
    PROVE  Owes(Append(q, e), c, kept, total)
<1>1. PICK owed \in [1 .. Len(q) + 1 -> Nat] :
          /\ owed[1] <= total
          /\ owed[Len(q) + 1] = held
          /\ \A i \in 1 .. Len(q), j \in 1 .. Len(q) + 1 :
                 i < j => owed[j] + Carried(q[i], c) <= owed[i]
  BY DEF Owes
<1> DEFINE r == Append(q, e)
           longer == [i \in 1 .. Len(r) + 1 |-> IF i = Len(r) + 1 THEN kept ELSE owed[i]]
<1>2. r \in Seq(Event) /\ Len(r) = Len(q) + 1 /\ r[Len(r)] = e
      /\ \A i \in 1 .. Len(q) : r[i] = q[i]
  OBVIOUS
<1>3. longer \in [1 .. Len(r) + 1 -> Nat]
  BY <1>2
<1>4. longer[Len(r) + 1] = kept /\ \A i \in 1 .. Len(r) : longer[i] = owed[i]
  BY <1>2
<1>5. longer[1] <= total
  BY <1>1, <1>2, <1>4
<1>6. Carried(e, c) \in Nat
  BY CarriedTypes
<1>7. ASSUME NEW i \in 1 .. Len(r), NEW j \in 1 .. Len(r) + 1, i < j
      PROVE  longer[j] + Carried(r[i], c) <= longer[i]
  <2>1. CASE j \in 1 .. Len(r)
    <3>1. i \in 1 .. Len(q) /\ j \in 1 .. Len(q) + 1
      BY <1>2, <1>7, <2>1
    <3> QED
      BY <1>1, <1>2, <1>4, <1>7, <3>1, <2>1
  <2>2. CASE j = Len(r) + 1 /\ i = Len(r)
    <3>1. longer[j] = kept /\ longer[i] = held /\ r[i] = e
      BY <1>1, <1>2, <1>4, <2>2
    <3> QED
      BY <3>1
  <2>3. CASE j = Len(r) + 1 /\ i # Len(r)
    <3>1. i \in 1 .. Len(q) /\ Len(q) + 1 \in 1 .. Len(q) + 1 /\ i < Len(q) + 1
      BY <1>2, <1>7, <2>3
    <3>2. held + Carried(q[i], c) <= owed[i]
      BY <1>1, <3>1
    <3>3. longer[j] = kept /\ longer[i] = owed[i] /\ r[i] = q[i]
      BY <1>2, <1>4, <2>3, <3>1
    <3>4. q[i] \in Event /\ owed[i] \in Nat
      BY <3>1
    <3>5. kept <= held /\ Carried(q[i], c) \in Nat
      BY <1>6, <3>4, CarriedTypes
    <3> HIDE DEF longer, r
    <3> QED
      BY <3>2, <3>3, <3>4, <3>5
  <2> QED
    BY <1>2, <2>1, <2>2, <2>3
<1> HIDE DEF longer
<1> QED
  BY <1>2, <1>3, <1>4, <1>5, <1>7 DEF Owes

\* What is held is covered.
LEMMA OwesHeld ==
    ASSUME NEW q \in Seq(Event), NEW c \in Conns, NEW held, NEW total \in Int,
           Owes(q, c, held, total)
    PROVE  held \in Nat /\ held <= total
<1>1. PICK owed \in [1 .. Len(q) + 1 -> Nat] :
          /\ owed[1] <= total
          /\ owed[Len(q) + 1] = held
          /\ \A i \in 1 .. Len(q), j \in 1 .. Len(q) + 1 :
                 i < j => owed[j] + Carried(q[i], c) <= owed[i]
  BY DEF Owes
<1>2. CASE Len(q) = 0
  BY <1>1, <1>2
<1>3. CASE Len(q) # 0
  <2>1. 1 \in 1 .. Len(q) /\ Len(q) + 1 \in 1 .. Len(q) + 1 /\ 1 < Len(q) + 1
    BY <1>3
  <2>2. owed[Len(q) + 1] + Carried(q[1], c) <= owed[1]
    BY <1>1, <2>1
  <2>3. Carried(q[1], c) \in Nat /\ owed[1] \in Nat /\ owed[Len(q) + 1] \in Nat
    BY <2>1, CarriedTypes
  <2> QED
    BY <1>1, <2>2, <2>3
<1> QED
  BY <1>2, <1>3

\* A connection nothing was sent on owes nothing.
LEMMA OwesNone ==
    ASSUME NEW q \in Seq(Event), NEW c \in Conns, \A i \in DOMAIN q : Carried(q[i], c) = 0
    PROVE  Owes(q, c, 0, 0)
<1> DEFINE zero == [i \in 1 .. Len(q) + 1 |-> 0]
<1>1. zero \in [1 .. Len(q) + 1 -> Nat] /\ \A i \in 1 .. Len(q) + 1 : zero[i] = 0
  OBVIOUS
<1> HIDE DEF zero
<1> QED
  BY <1>1 DEF Owes

(* ------------------------- Every step accounts -------------------------- *)

\* A task or the host sends on a connection that is listed.
LEMMA Sends ==
    ASSUME IInv, NEW c \in Conns,
           (\E n \in 1..MaxFrags : Send(c, n)) \/ WakeSent(c) \/ WakeFull(c)
    PROVE  /\ \E k \in Nat : k <= avail /\ Transmit(c, k)
           /\ c \in conns
           /\ UNCHANGED <<conns, adv, entries, evts, link, refusals>>
           /\ \/ hostAt' = hostAt /\ cur' = cur
              \/ hostAt = "waking" /\ hostAt' = "idle"
<1> USE DEF IInv
<1>1. ASSUME NEW n \in 1..MaxFrags, Send(c, n)
      PROVE  \E k \in Nat : k <= avail /\ Transmit(c, k)
  <2>1. n \in Nat \ {0}
    BY FragmentCount
  <2>2. CASE SendBackedUp(c, n)
    <3>1. 0 \in Nat /\ 0 <= avail
      BY DEF TypeOK
    <3>2. Transmit(c, 0)
      BY <2>2 DEF SendBackedUp, Transmit, TypeOK
    <3> QED
      BY <3>1, <3>2
  <2> QED
    BY <1>1, <2>1, <2>2, TxSends DEF Send, SendNow, SendRemainder
<1>2. CASE \E n \in 1..MaxFrags : Send(c, n)
  BY <1>1, <1>2 DEF Send, loopVars
<1>3. CASE WakeSent(c) \/ WakeFull(c)
  <2>1. txq[c] # <<>> /\ hostAt = "waking" /\ QueueOK(txq[c], frag[c])
    BY <1>3, QueuesOK DEF WakeSent, WakeFull, WakeConn
  <2>5. Head(txq[c]) \in Packet
    BY <2>1 DEF QueueOK
  <2>2. Head(txq[c]).left \in Nat \ {0}
    BY <2>5 DEF Packet
  <2>3. \E k \in Nat : k <= avail /\ Transmit(c, k)
    BY <1>3, <2>2, TxSends DEF WakeSent, WakeFull
  <2>4. c \in conns
    BY <2>1 DEF Unlisted
  <2> QED
    BY <1>3, <2>1, <2>3, <2>4 DEF WakeSent, WakeFull, loopVars
<1> QED
  BY <1>2, <1>3

LEMMA SendsAccount ==
    ASSUME IInv, Accounts, NEW c \in conns, NEW k \in Nat, k <= avail, Transmit(c, k),
           UNCHANGED <<conns, adv, entries, evts, link, refusals>>,
           \/ hostAt' = hostAt /\ cur' = cur
           \/ hostAt = "waking" /\ hostAt' = "idle"
    PROVE  Accounts'
<1>1. TypeOK /\ c \in Conns
  BY DEF IInv, TypeOK
<1>2. conns = {c} /\ ~Connecting /\ ~adv
  BY DEF Accounts, OneListed, Announced
<1>3. /\ avail' = avail - k
      /\ outstanding' \in [Conns -> Nat] /\ outstanding'[c] = outstanding[c] + k
      /\ ctl' \in [Conns -> Nat] /\ ctl'[c] = IF link[c] THEN ctl[c] + k ELSE ctl[c]
      /\ \A d \in Conns \ {c} : ctl'[d] = ctl[d]
  BY <1>1 DEF Transmit, TypeOK
<1>4. OneListed'
  BY <1>2 DEF OneListed
<1>5. Announced'
  BY <1>2 DEF Announced, Connecting
<1>6. Leaving'
  BY DEF Accounts, Leaving
<1>7. Covered(c)' \/ (hostAt = "broken" /\ cur = c)
  <2> SUFFICES ASSUME Covered(c) PROVE Covered(c)'
    BY DEF Accounts, Balanced
  <2>1. avail' + outstanding'[c] <= MaxPkts
    BY <1>1, <1>3 DEF Covered, TypeOK
  <2> DEFINE total == outstanding[c] - entries[c]
  <2>2. total \in Int /\ evts \in Seq(Event) /\ ctl[c] \in Nat /\ 0 \in Nat
        /\ outstanding'[c] - entries'[c] = total + k
    BY <1>1, <1>3 DEF TypeOK
  <2>3. Owes(evts, c, ctl[c], total)
    BY DEF Covered
  <2> HIDE DEF total
  <2>4. Owes(evts, c, ctl'[c], total + k)
    <3>1. CASE link[c]
      BY <1>1, <1>3, <2>2, <2>3, <3>1, OwesMore
    <3>2. CASE ~link[c]
      BY <1>1, <1>3, <2>2, <2>3, <3>2, OwesSlack
    <3> QED
      BY <3>1, <3>2
  <2> QED
    BY <2>1, <2>2, <2>4 DEF Covered
<1>8. Balanced'
  <2>1. avail' <= MaxPkts
    BY <1>1, <1>3, BufferCount DEF Accounts, Balanced, TypeOK
  <2>2. hostAt = "broken" /\ cur = c => hostAt' = "broken" /\ cur' = c
    OBVIOUS
  <2> QED
    BY <1>2, <1>7, <2>1, <2>2 DEF Balanced
<1>9. Held'
  <2>1. ctl'[c] > 0 => link[c] /\ ctl'[c] <= MaxPkts
    <3>1. CASE hostAt = "broken" /\ cur = c
      <4>1. ~link[c]
        BY <3>1 DEF Accounts, Leaving
      <4> QED
        BY <1>1, <1>3, <4>1 DEF Accounts, Held, TypeOK
    <3>2. CASE Covered(c)'
      <4>1. outstanding'[c] - entries'[c] \in Int /\ evts' \in Seq(Event) /\ avail' \in Nat
            /\ entries'[c] \in Nat
        BY <1>1, <1>3, BufferCount DEF TypeOK
      <4>2. ctl'[c] <= outstanding'[c] - entries'[c]
        BY <1>1, <3>2, <4>1, OwesHeld DEF Covered
      <4>3. link[c] \/ ctl'[c] = ctl[c]
        BY <1>3
      <4>4. ctl'[c] <= MaxPkts
        BY <1>1, <1>3, <3>2, <4>1, <4>2, BufferCount DEF Covered, TypeOK
      <4> QED
        BY <1>1, <4>3, <4>4 DEF Accounts, Held
    <3> QED
      BY <1>7, <3>1, <3>2
  <2>2. \A d \in Conns \ {c} : ctl'[d] = 0
    BY <1>1, <1>2, <1>3 DEF Accounts, Held, TypeOK
  <2> QED
    BY <1>1, <1>2, <2>1, <2>2 DEF Held
<1> QED
  BY <1>4, <1>5, <1>6, <1>8, <1>9 DEF Accounts

LEMMA QuietAccounts ==
    ASSUME Accounts,
           UNCHANGED <<conns, avail, outstanding, adv, entries, evts, link, ctl>>,
           \/ hostAt' = hostAt /\ cur' = cur
           \/ hostAt \notin {"broken", "reset"} /\ hostAt' # "broken"
    PROVE  Accounts'
<1>1. OneListed' /\ Announced' /\ Leaving' /\ Held'
  BY DEF Accounts, OneListed, Announced, AnnouncedAt, Connecting, Leaving, Held
<1>2. \A c : Covered(c) => Covered(c)'
  BY DEF Covered
<1>3. Balanced'
  BY <1>2 DEF Accounts, Balanced
<1> QED
  BY <1>1, <1>3 DEF Accounts

\* The event at the head of the queue is taken.
LEMMA TailAt ==
    ASSUME TypeOK, evts # <<>>, evts' = Tail(evts)
    PROVE  /\ 1 \in DOMAIN evts /\ Head(evts) = evts[1]
           /\ \A i \in DOMAIN evts' :
                  i \in Nat /\ i + 1 \in DOMAIN evts /\ i + 1 > 1 /\ evts'[i] = evts[i + 1]
  BY DEF TypeOK

LEMMA TakenAccounts ==
    ASSUME TypeOK, Announced, evts # <<>>, evts' = Tail(evts), UNCHANGED <<link, ctl>>
    PROVE  /\ \A i \in DOMAIN evts' : evts'[i].kind = "connect" => AnnouncedAt(i)'
           /\ Connecting' => Connecting
<1>1. \A i \in DOMAIN evts' :
          i \in Nat /\ i + 1 \in DOMAIN evts /\ i + 1 > 1 /\ evts'[i] = evts[i + 1]
  BY TailAt
<1>2. ASSUME NEW i \in DOMAIN evts', evts'[i].kind = "connect"
      PROVE  AnnouncedAt(i)'
  <2>1. AnnouncedAt(i + 1)
    BY <1>1, <1>2 DEF Announced
  <2>2. \A j \in DOMAIN evts' : j > i => j + 1 > i + 1
    BY <1>1
  <2> QED
    BY <1>1, <2>1, <2>2 DEF AnnouncedAt
<1>3. Connecting' => Connecting
  BY <1>1 DEF Connecting
<1> QED
  BY <1>2, <1>3

\* Completed packets of what is taken are counted next; other events have none.
LEMMA TakenCovered ==
    ASSUME TypeOK, evts # <<>>, evts' = Tail(evts), NEW c \in Conns,
           UNCHANGED <<avail, outstanding, ctl>>,
           entries'[c] \in Nat, entries'[c] <= entries[c] + Carried(Head(evts), c), Covered(c)
    PROVE  Covered(c)'
<1> DEFINE total == outstanding[c] - entries[c]
           carried == Carried(Head(evts), c)
<1>1. evts \in Seq(Event) /\ ctl[c] \in Nat /\ total \in Int /\ Head(evts) \in Event
      /\ outstanding[c] \in Nat /\ entries[c] \in Nat
  BY DEF TypeOK
<1>2. carried \in Nat
  BY <1>1, CarriedTypes
<1>3. Owes(evts', c, ctl[c], total - carried)
  BY <1>1, OwesTail DEF Covered
<1>4. evts' \in Seq(Event)
  BY <1>1
<1>5. PICK out \in Nat, old \in Nat, new \in Nat, more \in Nat :
          /\ out = outstanding[c] /\ old = entries[c] /\ new = entries'[c]
          /\ more = carried
          /\ new <= old + more
  BY <1>1, <1>2
<1> HIDE DEF total, carried
<1>6. new <= old + more
  BY <1>5
<1> DEFINE k == old + more - new
           rest == (out - old) - more
<1>7. k \in Nat /\ rest \in Int /\ rest + k = out - new
  BY <1>6
<1>8. Owes(evts', c, ctl[c], rest)
  BY <1>3, <1>5 DEF total
<1> HIDE DEF k, rest
<1>9. Owes(evts', c, ctl[c], rest + k)
  BY <1>1, <1>4, <1>7, <1>8, OwesSlack
<1> QED
  BY <1>5, <1>7, <1>9 DEF Covered

LEMMA TakeAccounts ==
    ASSUME IInv, Rest, Accounts, Completed \/ Reset
    PROVE  Accounts'
<1>1. TypeOK /\ Announced
  BY DEF IInv, Accounts
<1>2. /\ evts # <<>> /\ evts' = Tail(evts)
      /\ UNCHANGED <<conns, avail, outstanding, adv, cur, link, ctl>>
      /\ hostAt = "idle" /\ hostAt' # "broken"
  BY DEF Completed, Reset, Handle, connVars, loopVars, radio
<1>3. OneListed' /\ Held'
  BY <1>2 DEF Accounts, OneListed, Held
<1>4. Announced'
  BY <1>1, <1>2, TakenAccounts DEF Announced
<1>5. Leaving'
  BY <1>1, <1>2, TailAt DEF Accounts, Leaving
<1>6. ASSUME NEW c \in conns
      PROVE  Covered(c)'
  <2>1. c \in Conns /\ Covered(c)
    BY <1>1, <1>2 DEF TypeOK, Accounts, Balanced
  <2>2. Head(evts) \in Event
    BY <1>1, <1>2 DEF TypeOK
  <2>3. Carried(Head(evts), c) \in Nat /\ entries[c] \in Nat
    BY <1>1, <2>1, <2>2, CarriedTypes DEF TypeOK
  <2>4. entries'[c] \in Nat /\ entries'[c] <= entries[c] + Carried(Head(evts), c)
    <3>1. CASE Completed
      <4>1. entries' = Head(evts).pkts /\ Head(evts).kind = "completed"
        BY <3>1 DEF Completed, Handle
      <4>2. entries'[c] = Carried(Head(evts), c)
        BY <4>1 DEF Carried
      <4> QED
        BY <2>3, <4>2
    <3>2. CASE Reset
      <4>1. entries' = entries
        BY <3>2 DEF Reset, loopVars
      <4> QED
        BY <2>3, <4>1
    <3> QED
      BY <3>1, <3>2
  <2> QED
    BY <1>1, <1>2, <2>1, <2>4, TakenCovered
<1>7. Balanced'
  BY <1>2, <1>6 DEF Accounts, Balanced
<1> QED
  BY <1>3, <1>4, <1>5, <1>7 DEF Accounts

LEMMA CountEntryAccounts ==
    ASSUME IInv, Accounts, NEW c \in Conns, CountEntry(c)
    PROVE  Accounts'
<1>1. TypeOK
  BY DEF IInv
<1> DEFINE n == entries[c]
<1>2. /\ hostAt = "entries" /\ n \in Nat /\ n > 0
      /\ UNCHANGED <<conns, adv, hostAt, cur, link, ctl>>
      /\ entries' = [entries EXCEPT ![c] = 0]
  BY <1>1 DEF CountEntry, TypeOK, radio
<1>3. CASE c \in conns
  <2>1. Covered(c) /\ conns = {c}
    BY <1>2, <1>3 DEF Accounts, Balanced, OneListed
  <2> DEFINE total == outstanding[c] - n
  <2>2. evts \in Seq(Event) /\ ctl[c] \in Nat /\ outstanding[c] \in Nat /\ total \in Int
        /\ avail \in Nat
    BY <1>1, <1>2 DEF TypeOK
  <2>3. Owes(evts, c, ctl[c], total)
    BY <2>1 DEF Covered
  <2>4. total >= 0
    <3>1. ctl[c] <= total
      BY <2>2, <2>3, OwesHeld
    <3> QED
      BY <2>2, <3>1
  <2>5. /\ avail' = avail + n /\ outstanding'[c] = outstanding[c] - n /\ entries'[c] = 0
        /\ evts' = evts
    BY <1>1, <1>2, <1>3, <2>2, <2>4 DEF CountEntry, TypeOK
  <2>6. outstanding'[c] - entries'[c] = total /\ avail' + outstanding'[c] = avail + outstanding[c]
        /\ avail' <= avail + outstanding[c]
    BY <1>2, <2>2, <2>4, <2>5
  <2>7. Covered(c)'
    BY <1>2, <2>1, <2>3, <2>5, <2>6 DEF Covered
  <2>10. avail' <= MaxPkts
    <3>1. avail + outstanding[c] <= MaxPkts /\ avail' \in Nat
      BY <1>2, <2>1, <2>2, <2>5 DEF Covered
    <3> QED
      BY <2>2, <2>6, <3>1, BufferCount
  <2>8. Balanced'
    BY <1>2, <2>1, <2>7, <2>10 DEF Balanced
  <2>9. (OneListed /\ Announced /\ Leaving /\ Held)'
    BY <1>2, <2>5 DEF Accounts, OneListed, Announced, AnnouncedAt, Connecting, Leaving, Held
  <2> QED
    BY <2>8, <2>9 DEF Accounts
<1>4. CASE c \notin conns
  <2>1. UNCHANGED <<avail, outstanding, evts>> /\ \A d \in conns : entries'[d] = entries[d]
    BY <1>1, <1>2, <1>4 DEF CountEntry, TypeOK
  <2>2. \A d \in conns : Covered(d) => Covered(d)'
    BY <1>2, <2>1 DEF Covered
  <2>3. Balanced'
    BY <1>2, <2>1, <2>2 DEF Accounts, Balanced
  <2>4. (OneListed /\ Announced /\ Leaving /\ Held)'
    BY <1>2, <2>1 DEF Accounts, OneListed, Announced, AnnouncedAt, Connecting, Leaving, Held
  <2> QED
    BY <2>3, <2>4 DEF Accounts
<1> QED
  BY <1>3, <1>4

LEMMA DisconnAccounts ==
    ASSUME IInv, Accounts, DisconnComplete
    PROVE  Accounts'
<1> DEFINE e == Head(evts)
           d == e.conn
<1>1. TypeOK /\ Announced
  BY DEF IInv, Accounts
<1>2. /\ evts # <<>> /\ evts' = Tail(evts) /\ e.kind = "disconn"
      /\ UNCHANGED <<conns, outstanding, adv, entries, link, ctl>>
      /\ hostAt = "idle"
  BY DEF DisconnComplete, Handle, connVars, radio
<1>3. e = evts[1] /\ 1 \in DOMAIN evts /\ e \in Event
  BY <1>1, <1>2, TailAt DEF TypeOK
<1>4. e.ok /\ d \in Conns /\ (d \in conns => ~link[d])
  BY <1>2, <1>3, EventFields DEF Accounts, Leaving
<1>5. hostAt' = "broken" /\ cur' = d
      /\ avail' = IF d \in conns THEN avail + outstanding[d] ELSE avail
  BY <1>4 DEF DisconnComplete
<1>6. OneListed' /\ Held'
  BY <1>2 DEF Accounts, OneListed, Held
<1>7. Announced'
  BY <1>1, <1>2, TakenAccounts DEF Announced
<1>8. Leaving'
  BY <1>1, <1>2, <1>4, <1>5, TailAt DEF Accounts, Leaving
<1>9. Balanced'
  <2>1. CASE d \in conns
    <3>1. Covered(d) /\ conns = {d}
      BY <1>2, <2>1 DEF Accounts, Balanced, OneListed
    <3>2. avail' <= MaxPkts
      BY <1>5, <2>1, <3>1 DEF Covered
    <3> QED
      BY <1>2, <1>5, <3>1, <3>2 DEF Balanced
  <2>2. CASE d \notin conns
    <3>1. ASSUME NEW c \in conns
          PROVE  Covered(c)'
      <4>1. c \in Conns /\ Covered(c)
        BY <1>1, <1>2 DEF TypeOK, Accounts, Balanced
      <4>2. Carried(e, c) = 0 /\ entries[c] \in Nat
        BY <1>1, <1>2, <4>1 DEF Carried, TypeOK
      <4> QED
        BY <1>1, <1>2, <1>5, <2>2, <4>1, <4>2, TakenCovered
    <3> QED
      BY <1>2, <1>5, <2>2, <3>1 DEF Accounts, Balanced
  <2> QED
    BY <2>1, <2>2
<1> QED
  BY <1>6, <1>7, <1>8, <1>9 DEF Accounts

\* A connection is forgotten when its buffers have been taken back, or when
\* the controller is about to be reset.
LEMMA UnlistAccounts ==
    ASSUME TypeOK, Accounts, NEW c \in Conns, Unlist(c),
           UNCHANGED <<avail, adv, entries, evts, link, ctl>>,
           \/ hostAt = "broken" /\ cur = c /\ hostAt' = "wakeup"
           \/ hostAt = "reset" /\ c \in conns /\ hostAt' = "reset"
    PROVE  Accounts'
<1>1. conns' = conns \ {c} /\ \A d \in conns' : outstanding'[d] = outstanding[d]
  BY DEF Unlist, TypeOK
<1>2. OneListed' /\ Announced' /\ Leaving'
  BY <1>1 DEF Accounts, OneListed, Announced, AnnouncedAt, Connecting, Leaving
<1>3. c \in conns => conns' = {}
  BY <1>1 DEF Accounts, OneListed
<1>4. Held'
  <2>1. CASE hostAt = "broken" /\ cur = c
    <3>1. ~(ctl[c] > 0)
      BY <2>1 DEF Accounts, Leaving, Held
    <3> QED
      BY <1>1, <2>1, <3>1 DEF Accounts, Held
  <2>2. CASE hostAt = "reset" /\ c \in conns /\ hostAt' = "reset"
    BY <1>3, <2>2 DEF Accounts, Held
  <2> QED
    BY <2>1, <2>2
<1>5. Balanced'
  <2>1. \A d \in conns' : Covered(d) => Covered(d)'
    BY <1>1 DEF Covered
  <2> QED
    BY <1>1, <1>3, <2>1 DEF Accounts, Balanced
<1> QED
  BY <1>2, <1>4, <1>5 DEF Accounts

LEMMA ConnCompleteAccounts ==
    ASSUME IInv, Rest, Accounts, ConnComplete
    PROVE  Accounts'
<1>1. TypeOK /\ Announced
  BY DEF IInv, Accounts
<1>2. /\ evts # <<>> /\ evts' = Tail(evts) /\ Head(evts).kind = "connect"
      /\ UNCHANGED <<avail, outstanding, hostAt, entries, cur, link, ctl>>
      /\ hostAt = "idle"
  BY DEF ConnComplete, Handle, connVars, loopVars, radio
<1>3. /\ 1 \in DOMAIN evts /\ Head(evts) = evts[1]
      /\ \A i \in DOMAIN evts' :
             i \in Nat /\ i + 1 \in DOMAIN evts /\ i + 1 > 1 /\ evts'[i] = evts[i + 1]
  BY <1>1, <1>2, TailAt
<1>14. PICK c \in Conns : c = Head(evts).conn
  <2>1. Head(evts) \in Event
    BY <1>1, <1>2 DEF TypeOK
  <2> QED
    BY <1>2, <2>1, EventFields
<1>4. AnnouncedAt(1) /\ conns = {}
  BY <1>1, <1>2, <1>3 DEF Announced, Connecting
<1>5. conns' \in {{}, {c}} /\ (conns' = {c} => ~adv') /\ (conns' = {} => adv' = adv)
  BY <1>14, <1>4 DEF ConnComplete
<1>6. /\ ctl[c] = 0
      /\ \A i \in DOMAIN evts' : /\ evts'[i].kind # "connect"
                                 /\ Carried(evts'[i], c) = 0
                                 /\ evts'[i].kind = "disconn" /\ evts'[i].conn = c => ~link[c]
  BY <1>14, <1>3, <1>4 DEF AnnouncedAt
<1>7. OneListed'
  BY <1>5 DEF OneListed
<1>8. Announced'
  BY <1>6 DEF Announced, Connecting
<1>9. Leaving'
  BY <1>2, <1>3, <1>5, <1>6 DEF Accounts, Leaving
<1>10. \A d \in Conns : ~(ctl[d] > 0)
  BY <1>2, <1>4 DEF Accounts, Held
<1>11. Held'
  BY <1>2, <1>10 DEF Held
<1>12. Covered(c)'
  <2>1. outstanding[c] = 0 /\ entries[c] = 0
    BY <1>2, <1>4 DEF Rest, None
  <2>2. evts' \in Seq(Event)
    BY <1>1, <1>2 DEF TypeOK
  <2>3. Owes(evts', c, 0, 0)
    BY <1>4, <1>6, <2>2, OwesNone
  <2>4. avail \in Nat /\ avail <= MaxPkts
    BY <1>1 DEF TypeOK, Accounts, Balanced
  <2> QED
    BY <1>2, <1>6, <2>1, <2>3, <2>4 DEF Covered
<1>13. Balanced'
  BY <1>2, <1>5, <1>12 DEF Accounts, Balanced
<1> QED
  BY <1>7, <1>8, <1>9, <1>11, <1>13 DEF Accounts

LEMMA SyncAccounts ==
    ASSUME TypeOK, Accounts, Sync
    PROVE  Accounts'
<1>1. /\ conns = {} /\ conns' = {} /\ evts' = evts /\ avail' = MaxPkts /\ hostAt' = "idle"
      /\ \A c \in Conns : ctl'[c] = 0
      /\ \A c \in Conns : ~link'[c]
  BY DEF Sync, Goto, None
<1>2. OneListed' /\ Leaving' /\ Held'
  BY <1>1 DEF Accounts, OneListed, Leaving, Held
<1>3. Balanced'
  BY <1>1, BufferCount DEF Balanced
<1>4. Announced'
  <2> SUFFICES ASSUME NEW i \in DOMAIN evts, evts[i].kind = "connect"
               PROVE  AnnouncedAt(i)'
    BY <1>1 DEF Announced
  <2>1. AnnouncedAt(i) /\ evts[i].conn \in Conns
    <3>1. evts[i] \in Event
      BY DEF TypeOK
    <3> QED
      BY <3>1, EventFields DEF Accounts, Announced
  <2> QED
    BY <1>1, <2>1 DEF AnnouncedAt
<1> QED
  BY <1>2, <1>3, <1>4 DEF Accounts

\* A task takes the host to advertise: there is no connection then.
LEMMA AdvertiseAccounts ==
    ASSUME MaxConns = 1, TypeOK, Accounts, Advertise
    PROVE  Accounts'
<1>1. UNCHANGED <<conns, avail, outstanding, hostAt, entries, cur, evts, link, ctl>>
      /\ Cardinality(conns) < 1
  BY DEF Advertise, connVars, loopVars, radio
<1>2. conns = {}
  <2>1. IsFiniteSet(conns)
    BY HandlesFinite, FS_Subset DEF TypeOK
  <2>2. Cardinality(conns) \in Nat /\ (Cardinality(conns) = 0 <=> conns = {})
    BY <2>1, FS_CardinalityType, FS_EmptySet
  <2> QED
    BY <1>1, <2>2
<1>3. (OneListed /\ Announced /\ Leaving /\ Held /\ Balanced)'
  BY <1>1, <1>2 DEF Accounts, OneListed, Announced, AnnouncedAt, Connecting, Leaving, Held, Balanced
<1> QED
  BY <1>3 DEF Accounts

\* An event is put at the end of the queue.
LEMMA AppendAt ==
    ASSUME TypeOK, NEW e \in Event, evts' = Append(evts, e)
    PROVE  /\ evts' \in Seq(Event)
           /\ \A i \in DOMAIN evts : i \in DOMAIN evts' /\ evts'[i] = evts[i] /\ i < Len(evts) + 1
           /\ \A i \in DOMAIN evts' : \/ i \in DOMAIN evts
                                      \/ i = Len(evts) + 1 /\ evts'[i] = e
  BY DEF TypeOK

\* What the controller says, it has done: it does not hold the packets it
\* tells of, nor the link it tells the end of.
LEMMA PostAccounts ==
    ASSUME TypeOK, Accounts, NEW e \in Event, evts' = Append(evts, e),
           UNCHANGED <<conns, avail, outstanding, adv, hostAt, entries, cur>>,
           e.kind # "connect",
           e.kind = "disconn" => e.ok /\ ~link'[e.conn],
           ctl' \in [Conns -> Nat],
           \A c \in Conns : ctl'[c] + Carried(e, c) <= ctl[c],
           \A c \in Conns : ctl'[c] > 0 => link'[c],
           \A c \in Conns : link'[c] => link[c]
    PROVE  Accounts'
<1>1. \A c \in Conns : ctl[c] \in Nat /\ ctl'[c] \in Nat /\ Carried(e, c) \in Nat
  BY CarriedTypes DEF TypeOK
<1>2. \A c \in Conns : ctl'[c] <= ctl[c] /\ (ctl[c] = 0 => ctl'[c] = 0 /\ Carried(e, c) = 0)
  BY <1>1
<1>3. \A i \in DOMAIN evts' : \/ i \in DOMAIN evts /\ evts'[i] = evts[i]
                              \/ i = Len(evts) + 1 /\ evts'[i] = e
  BY AppendAt
<1>4. \A i \in DOMAIN evts : evts[i] \in Event
  BY DEF TypeOK
<1>5. OneListed'
  BY DEF Accounts, OneListed
<1>6. Announced'
  <2>1. Connecting' => conns' = {}
    BY <1>3 DEF Accounts, Announced, Connecting
  <2>2. ASSUME NEW i \in DOMAIN evts', evts'[i].kind = "connect"
        PROVE  AnnouncedAt(i)'
    <3>1. i \in DOMAIN evts /\ evts'[i] = evts[i]
      BY <1>3, <2>2
    <3>2. PICK c \in Conns : c = evts[i].conn
      BY <1>4, <2>2, <3>1, EventFields
    <3>3. /\ ctl[c] = 0
          /\ \A j \in DOMAIN evts : j > i =>
                 /\ evts[j].kind # "connect"
                 /\ Carried(evts[j], c) = 0
                 /\ evts[j].kind = "disconn" /\ evts[j].conn = c => ~link[c]
      BY <2>2, <3>1, <3>2 DEF Accounts, Announced, AnnouncedAt
    <3>4. ctl'[c] = 0 /\ Carried(e, c) = 0 /\ (~link[c] => ~link'[c])
      BY <1>2, <3>3
    <3>5. ASSUME NEW j \in DOMAIN evts', j > i
          PROVE  /\ evts'[j].kind # "connect"
                 /\ Carried(evts'[j], c) = 0
                 /\ evts'[j].kind = "disconn" /\ evts'[j].conn = c => ~link'[c]
      <4>1. CASE j \in DOMAIN evts /\ evts'[j] = evts[j]
        BY <3>3, <3>4, <3>5, <4>1
      <4>2. CASE evts'[j] = e
        BY <3>4, <4>2
      <4> QED
        BY <1>3, <4>1, <4>2
    <3> QED
      BY <3>1, <3>2, <3>4, <3>5 DEF AnnouncedAt
  <2> QED
    BY <2>1, <2>2 DEF Announced
<1>7. Leaving'
  <2>1. \A i \in DOMAIN evts : evts[i].kind = "disconn" => evts[i].conn \in Conns
    BY <1>4, EventFields
  <2>2. conns \subseteq Conns
    BY DEF TypeOK
  <2> QED
    BY <1>3, <2>1, <2>2 DEF Accounts, Leaving
<1>8. Held'
  <2>1. ASSUME NEW c \in Conns, ctl'[c] > 0
        PROVE  ctl[c] > 0 /\ ctl'[c] <= ctl[c]
    BY <1>1, <1>2, <2>1
  <2>2. MaxPkts \in Nat
    BY BufferCount
  <2>3. \A c \in Conns : ctl'[c] > 0 => link'[c] /\ ctl'[c] <= MaxPkts
    BY <1>1, <2>1, <2>2 DEF Accounts, Held
  <2> QED
    BY <2>1, <2>3 DEF Accounts, Held
<1>9. ASSUME NEW c \in conns, Covered(c)
      PROVE  Covered(c)'
  <2>1. c \in Conns /\ evts \in Seq(Event) /\ outstanding[c] - entries[c] \in Int
    BY DEF TypeOK
  <2>2. Owes(evts', c, ctl'[c], outstanding[c] - entries[c])
    BY <1>1, <1>9, <2>1, OwesAppend DEF Covered
  <2> QED
    BY <1>9, <2>2 DEF Covered
<1>10. Balanced'
  BY <1>9 DEF Accounts, Balanced
<1> QED
  BY <1>5, <1>6, <1>7, <1>8, <1>10 DEF Accounts

LEMMA ControllerAccounts ==
    ASSUME IInv, Accounts, Fault \/ Complete \/ (\E c \in Conns : Disconnect(c))
    PROVE  Accounts'
<1>1. TypeOK
  BY DEF IInv
<1>2. \A c \in Conns : ctl[c] \in Nat /\ (ctl[c] > 0 => link[c])
  BY <1>1 DEF TypeOK, Accounts, Held
<1>3. CASE Fault
  <2> DEFINE e == [kind |-> "reset"]
  <2>1. e \in Event /\ \A c \in Conns : Carried(e, c) = 0
    BY DEF Event, Carried
  <2>2. evts' = Append(evts, e)
        /\ UNCHANGED <<conns, avail, outstanding, adv, hostAt, entries, cur, link, ctl>>
    BY <1>3 DEF Fault, SchedReset, connVars, loopVars, radio
  <2>3. e.kind = "reset"
    OBVIOUS
  <2> HIDE DEF e
  <2>4. ctl' \in [Conns -> Nat] /\ \A c \in Conns : ctl'[c] + Carried(e, c) <= ctl[c]
    BY <1>1, <1>2, <2>1, <2>2 DEF TypeOK
  <2> QED
    BY <1>1, <1>2, <2>1, <2>2, <2>3, <2>4, PostAccounts
<1>4. CASE Complete
  <2>1. PICK done \in [Conns -> 0..MaxPkts] :
            /\ \A c \in Conns : done[c] <= ctl[c]
            /\ ctl' = [c \in Conns |-> ctl[c] - done[c]]
            /\ Post([kind |-> "completed", pkts |-> done])
            /\ UNCHANGED <<conns, avail, connVars, adv, hostAt, loopVars, link, refusals>>
    BY <1>4 DEF Complete
  <2> DEFINE e == [kind |-> "completed", pkts |-> done]
  <2>2. done \in [Conns -> Nat]
    BY BufferCount
  <2>3. e \in Event /\ e.kind = "completed" /\ \A c \in Conns : Carried(e, c) = done[c]
    BY <2>2 DEF Event, Carried
  <2>4. evts' = Append(evts, e)
        /\ UNCHANGED <<conns, avail, outstanding, adv, hostAt, entries, cur, link>>
    BY <2>1 DEF Post, connVars, loopVars
  <2> HIDE DEF e
  <2>5. ASSUME NEW c \in Conns
        PROVE  /\ ctl'[c] \in Nat
               /\ ctl'[c] + Carried(e, c) <= ctl[c]
               /\ ctl'[c] > 0 => ctl[c] > 0
    <3>1. ctl'[c] = ctl[c] - done[c] /\ done[c] \in Nat /\ ctl[c] \in Nat /\ done[c] <= ctl[c]
      BY <1>2, <2>1, <2>2
    <3>2. Carried(e, c) = done[c]
      BY <2>3
    <3> QED
      BY <3>1, <3>2
  <2>6. ctl' \in [Conns -> Nat]
    BY <2>1, <2>5
  <2> QED
    BY <1>1, <1>2, <2>3, <2>4, <2>5, <2>6, PostAccounts
<1>5. ASSUME NEW d \in Conns, Disconnect(d)
      PROVE  Accounts'
  <2> DEFINE e == [kind |-> "disconn", conn |-> d, ok |-> TRUE]
  <2>1. e \in Event /\ e.kind = "disconn" /\ e.conn = d /\ e.ok
        /\ \A c \in Conns : Carried(e, c) = 0
    BY DEF Event, Carried
  <2>2. evts' = Append(evts, e)
        /\ UNCHANGED <<conns, avail, outstanding, adv, hostAt, entries, cur>>
        /\ link' = [link EXCEPT ![d] = FALSE] /\ ctl' = [ctl EXCEPT ![d] = 0]
    BY <1>5 DEF Disconnect, Post, connVars, loopVars
  <2> HIDE DEF e
  <2>3. ~link'[d] /\ (\A c \in Conns : link'[c] => link[c])
        /\ \A c \in Conns : ctl'[c] > 0 => c # d /\ ctl[c] > 0
    BY <1>1, <2>2 DEF TypeOK
  <2>4. \A c \in Conns : c # d => link'[c] = link[c]
    BY <1>1, <2>2 DEF TypeOK
  <2>5. ctl' \in [Conns -> Nat] /\ \A c \in Conns : ctl'[c] + Carried(e, c) <= ctl[c]
    BY <1>1, <2>1, <2>2 DEF TypeOK
  <2> QED
    BY <1>1, <1>2, <2>1, <2>2, <2>3, <2>4, <2>5, PostAccounts
<1> QED
  BY <1>3, <1>4, <1>5

LEMMA ConnectAccounts ==
    ASSUME IInv, Accounts, NEW d \in Conns, Connect(d)
    PROVE  Accounts'
<1> DEFINE e == [kind |-> "connect", conn |-> d]
<1>1. TypeOK
  BY DEF IInv
<1>2. e \in Event /\ e.kind = "connect" /\ e.conn = d
  BY DEF Event
<1>3. /\ evts' = Append(evts, e) /\ link' = [link EXCEPT ![d] = TRUE] /\ ~link[d]
      /\ UNCHANGED <<conns, avail, outstanding, adv, hostAt, entries, cur, ctl>>
      /\ conns = {} /\ ~Connecting
  BY DEF Connect, Post, connVars, loopVars, Accounts, OneListed
<1> HIDE DEF e
<1>4. \A i \in DOMAIN evts' : \/ i \in DOMAIN evts /\ evts'[i] = evts[i] /\ i < Len(evts) + 1
                              \/ i = Len(evts) + 1 /\ evts'[i] = e
  BY <1>1, <1>2, <1>3, AppendAt
<1>5. ctl[d] = 0 /\ \A c \in Conns : link[c] => link'[c]
  BY <1>1, <1>3 DEF Accounts, Held, TypeOK
<1>6. OneListed' /\ Held' /\ Balanced'
  BY <1>3, <1>5 DEF Accounts, OneListed, Held, Balanced
<1>7. Leaving'
  BY <1>2, <1>3, <1>4 DEF Accounts, Leaving
<1>8. Announced'
  <2>1. ASSUME NEW i \in DOMAIN evts', evts'[i].kind = "connect"
        PROVE  AnnouncedAt(i)'
    <3>1. i = Len(evts) + 1 /\ evts'[i] = e
      BY <1>3, <1>4, <2>1 DEF Connecting
    <3>2. \A j \in DOMAIN evts' : ~(j > i)
      <4>1. \A j \in DOMAIN evts' : j \in Nat
        BY <1>1, <1>2, <1>3, AppendAt
      <4> QED
        BY <1>4, <3>1, <4>1
    <3> QED
      BY <1>2, <1>3, <1>5, <3>1, <3>2 DEF AnnouncedAt
  <2> QED
    BY <1>3, <2>1 DEF Announced
<1> QED
  BY <1>6, <1>7, <1>8 DEF Accounts

\* Only a listed connection is sent anything, and counting is over before the
\* host task goes on.
LEMMA RestStep ==
    ASSUME IInv, Rest, [Next]_vars
    PROVE  Rest'
<1>1. TypeOK
  BY DEF IInv
<1>2. ASSUME NEW c \in Conns,
             (\E n \in 1..MaxFrags : Send(c, n)) \/ WakeSent(c) \/ WakeFull(c)
      PROVE  Rest'
  <2>1. PICK k \in Nat : k <= avail /\ Transmit(c, k)
    BY <1>2, Sends
  <2>2. c \in conns /\ UNCHANGED <<conns, entries>> /\ (hostAt' = hostAt \/ hostAt = "waking")
    BY <1>2, Sends
  <2>3. \A d \in Conns \ {c} : outstanding'[d] = outstanding[d]
    BY <1>1, <2>1 DEF Transmit, TypeOK
  <2> QED
    BY <2>2, <2>3 DEF Rest, None
<1>3. ASSUME NEW c \in Conns, CountEntry(c)
      PROVE  Rest'
  <2>1. hostAt' = "entries" /\ conns' = conns
    BY <1>3 DEF CountEntry
  <2>2. \A d \in Conns \ conns : outstanding'[d] = outstanding[d]
    BY <1>1, <1>3 DEF CountEntry, TypeOK
  <2> QED
    BY <2>1, <2>2 DEF Rest
<1>4. ASSUME NEW c \in Conns, Unlist(c), UNCHANGED entries, hostAt # "entries"
      PROVE  Rest'
  <2>1. conns' = conns \ {c}
        /\ \A d \in Conns : outstanding'[d] = IF d = c THEN 0 ELSE outstanding[d]
    BY <1>1, <1>4 DEF Unlist, TypeOK
  <2> QED
    BY <1>4, <2>1 DEF Rest, None
<1>5. CASE ConnBroken
  <2>1. cur \in Conns
    BY <1>5 DEF IInv, ConnBroken, Goto, BrokenKnown
  <2> QED
    BY <1>4, <1>5, <2>1 DEF ConnBroken, Goto
<1>6. CASE ResetConn
  <2>1. PICK c \in conns : Unlist(c)
    BY <1>6 DEF ResetConn
  <2>2. c \in Conns
    BY <1>1 DEF TypeOK
  <2> QED
    BY <1>4, <1>6, <2>1, <2>2 DEF ResetConn, loopVars
<1>7. CASE UNCHANGED outstanding /\ conns \subseteq conns'
           /\ (hostAt' = "entries" \/ (entries' = entries /\ hostAt # "entries"))
  BY <1>7 DEF Rest, None
<1>8. CASE UNCHANGED <<outstanding, entries>> /\ conns \subseteq conns'
           /\ (hostAt' = hostAt \/ entries = None)
  BY <1>8 DEF Rest, None
<1>9. CASE HostStep
  <2> USE DEF connVars, loopVars, radio, Goto, Handle
  <2>1. CASE Completed
    BY <1>7, <2>1 DEF Completed
  <2>2. CASE DisconnComplete \/ Reset
    BY <1>7, <2>2 DEF DisconnComplete, Reset
  <2>3. CASE ConnComplete
    BY <1>8, <2>3 DEF ConnComplete
  <2>4. CASE WakeupTx \/ WakePick \/ WakeNext \/ WakeDone
    BY <1>7, <2>4 DEF WakeupTx, WakePick, WakeNext, WakeDone
  <2>5. CASE EntriesDone
    BY <1>8, <2>5 DEF EntriesDone
  <2>6. CASE Sync
    BY <1>7, <2>6 DEF Sync
  <2> QED
    BY <1>2, <1>3, <1>5, <1>6, <1>9, <2>1, <2>2, <2>3, <2>4, <2>5, <2>6 DEF HostStep
<1>10. CASE Advertise \/ Fault \/ Controller
  <2>1. UNCHANGED <<outstanding, entries, conns, hostAt>>
    BY <1>10 DEF Advertise, Fault, Controller, Complete, Disconnect, RefuseDisconnect, Connect,
                 connVars, loopVars
  <2> QED
    BY <1>8, <2>1
<1>11. CASE UNCHANGED vars
  BY <1>8, <1>11 DEF vars, connVars, loopVars
<1> QED
  BY <1>2, <1>9, <1>10, <1>11 DEF Next

LEMMA AccountsStep ==
    ASSUME MaxConns = 1, IInv, Rest, Accounts, [Next]_vars, refusals' = 0
    PROVE  Accounts'
<1>1. TypeOK
  BY DEF IInv
<1>2. ASSUME NEW c \in Conns,
             (\E n \in 1..MaxFrags : Send(c, n)) \/ WakeSent(c) \/ WakeFull(c)
      PROVE  Accounts'
  <2>1. PICK k \in Nat : k <= avail /\ Transmit(c, k)
    BY <1>2, Sends
  <2> QED
    BY <1>2, <2>1, Sends, SendsAccount
<1>3. CASE HostStep
  <2>1. CASE EntriesDone \/ WakeupTx \/ WakePick \/ WakeNext \/ WakeDone
    BY <2>1, QuietAccounts DEF EntriesDone, WakeupTx, WakePick, WakeNext, WakeDone, Goto,
                               connVars, loopVars, radio
  <2>2. CASE ConnBroken
    <3>1. cur \in Conns
      BY <2>2 DEF IInv, ConnBroken, Goto, BrokenKnown
    <3> QED
      BY <1>1, <2>2, <3>1, UnlistAccounts DEF ConnBroken, Goto, radio
  <2>3. CASE ResetConn
    <3>1. PICK c \in conns : Unlist(c)
      BY <2>3 DEF ResetConn
    <3>2. c \in Conns
      BY <1>1 DEF TypeOK
    <3> QED
      BY <1>1, <2>3, <3>1, <3>2, UnlistAccounts DEF ResetConn, loopVars, radio
  <2> QED
    BY <1>1, <1>2, <1>3, <2>1, <2>2, <2>3, TakeAccounts, CountEntryAccounts, DisconnAccounts,
       ConnCompleteAccounts, SyncAccounts DEF HostStep
<1>4. CASE Advertise \/ Fault \/ Controller
  <2>1. ASSUME NEW c \in Conns, RefuseDisconnect(c)
        PROVE  FALSE
    <3>1. refusals \in Nat /\ refusals' = refusals + 1
      BY <1>1, <2>1 DEF RefuseDisconnect, TypeOK
    <3> QED
      BY <3>1
  <2> QED
    BY <1>1, <1>4, <2>1, AdvertiseAccounts, ControllerAccounts, ConnectAccounts DEF Controller
<1>5. CASE UNCHANGED vars
  BY <1>5, QuietAccounts DEF vars, connVars, loopVars, radio
<1> QED
  BY <1>2, <1>3, <1>4, <1>5 DEF Next

LEMMA NoRefusalBefore ==
    ASSUME TypeOK, [Next]_vars, refusals' = 0
    PROVE  refusals = 0
<1>1. CASE \E c \in Conns : RefuseDisconnect(c)
  BY <1>1 DEF RefuseDisconnect, TypeOK
<1>2. CASE UNCHANGED refusals
  BY <1>2
<1> QED
  BY <1>1, <1>2 DEF Next, Send, HostStep, Completed, EntriesDone, DisconnComplete, ConnBroken,
     ConnComplete, CountEntry, WakeSent, WakeFull, WakeupTx, WakePick, WakeNext, WakeDone, Reset,
     ResetConn, Sync, Advertise, Fault, Controller, Complete, Disconnect, Connect, vars, radio

LEMMA CreditInvariant ==
    ASSUME MaxConns = 1
    PROVE  Spec => []Credit
<1>1. Init => Credit
  <2> SUFFICES ASSUME Init PROVE Credit
    OBVIOUS
  <2>1. IInv
    BY Initially
  <2>2. Rest
    BY DEF Init, Rest, None
  <2>3. Accounts
    BY BufferCount DEF Init, None, Accounts, OneListed, Announced, Connecting, Leaving, Held,
                       Balanced
  <2> QED
    BY <2>1, <2>2, <2>3 DEF Credit
<1>2. Credit /\ [Next]_vars => Credit'
  BY EveryStep, RestStep, AccountsStep, NoRefusalBefore DEF Credit, IInv
<1> QED
  BY <1>1, <1>2, PTL DEF Spec

\* At most one link has packets at the controller, so that their sum is known.
LEMMA HeldSum ==
    ASSUME TypeOK, Held
    PROVE  \/ SumFunction(ctl) = 0
           \/ \E c \in Conns : ctl[c] > 0 /\ SumFunction(ctl) = ctl[c]
<1>1. ctl \in [Conns -> Nat] /\ IsFiniteSet(Conns)
  BY HandlesFinite DEF TypeOK
<1>2. CASE \E c \in Conns : ctl[c] > 0
  <2>1. PICK c \in Conns : ctl[c] > 0
    BY <1>2
  <2>2. \A d \in Conns \ {c} : ctl[d] = 0
    BY <1>1, <2>1 DEF Held
  <2> QED
    BY <1>1, <2>1, <2>2, SumOfOne
<1>3. CASE ~(\E c \in Conns : ctl[c] > 0)
  <2>1. NULL \notin Conns /\ \A d \in Conns \ {NULL} : ctl[d] = 0
    BY <1>1, <1>3, NullIsNoConn
  <2> QED
    BY <1>1, <2>1, SumOfOne
<1> QED
  BY <1>2, <1>3

\* With one connection at a time, as the firmware is configured
\* (nimconfig.h:16), the controller is never sent more than it has buffers
\* for: however packets, completions, connections and resets interleave, until
\* the controller refuses a disconnection.
THEOREM BuffersSuffice ==
    ASSUME MaxConns = 1
    PROVE  Spec => []WithinBuffers
<1>1. Credit => WithinBuffers
  <2> SUFFICES ASSUME Credit, refusals = 0 PROVE SumFunction(ctl) <= MaxPkts
    BY DEF WithinBuffers
  <2>1. TypeOK /\ Held
    BY DEF Credit, IInv, Accounts
  <2>2. \A c \in Conns : ctl[c] > 0 => ctl[c] <= MaxPkts
    BY <2>1 DEF Held
  <2>3. MaxPkts \in Nat
    BY BufferCount
  <2> QED
    BY <2>1, <2>2, <2>3, HeldSum
<1> QED
  BY <1>1, CreditInvariant, PTL

\* The refused disconnection is the only way to a count of free buffers that
\* exceeds what the controller has: until there is one, the count is right or
\* too low whenever every event is handled.
THEOREM NoneInventedUntilRefused ==
    ASSUME MaxConns = 1
    PROVE  Spec => [](refusals = 0 => NoBufferInvented)
<1>1. Credit => (refusals = 0 => NoBufferInvented)
  <2> SUFFICES ASSUME Credit, refusals = 0, Settled
               PROVE  avail + SumFunction(ctl) <= MaxPkts
    BY DEF NoBufferInvented
  <2>1. TypeOK /\ Held /\ Balanced /\ hostAt = "idle"
    BY DEF Credit, IInv, Accounts, Settled
  <2>2. avail \in Nat /\ avail <= MaxPkts
    BY <2>1 DEF Balanced, TypeOK
  <2>3. ASSUME NEW c \in Conns, ctl[c] > 0
        PROVE  avail + ctl[c] <= MaxPkts
    <3>1. Covered(c)
      BY <2>1, <2>3 DEF Held, Balanced
    <3>2. evts \in Seq(Event) /\ outstanding[c] \in Nat /\ entries[c] \in Nat /\ ctl[c] \in Nat
          /\ outstanding[c] - entries[c] \in Int
      BY <2>1 DEF TypeOK
    <3>3. ctl[c] <= outstanding[c] - entries[c]
      BY <3>1, <3>2, OwesHeld DEF Covered
    <3> QED
      BY <2>2, <3>1, <3>2, <3>3, BufferCount DEF Covered
  <2> QED
    BY <2>1, <2>2, <2>3, HeldSum, BufferCount
<1> QED
  BY <1>1, CreditInvariant, PTL

=============================================================================
