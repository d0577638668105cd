-------------------------- MODULE DutyCycleProofs ---------------------------
(***************************************************************************)
(* For all numbers of characteristics and every range of the connection    *)
(* count: the state of the duty cycle is well typed, the stack is taken    *)
(* down only after the host task has returned, the connection flags follow *)
(* the server's peers, removals hit services that exist, and the window    *)
(* stays on the air.  The invariants that prove them are IInv, and with    *)
(* four parts more Air; the parts are in DutyCycle, and are preserved one  *)
(* by one, each lemma assuming all.                                        *)
(***************************************************************************)
EXTENDS DutyCycle, TLAPS

USE DEF Tasks, Services, Go, Call, MainStep, HostStep, hostVars, serverVars, appVars, Stopped

-----------------------------------------------------------------------------
\* Data: the list of removals, and the records of a server and of the stop
\* procedure.

\* The head and the tail of a list that is not empty.
LEMMA HeadTail ==
    ASSUME NEW S, NEW s \in Seq(S), s # <<>>
    PROVE  Head(s) \in S /\ Tail(s) \in Seq(S)
  BY SMT

\* A server that is not there is well typed.
LEMMA NoServerType ==
    NoServer \in [exists : BOOLEAN, peers : BOOLEAN, started : BOOLEAN, changed : BOOLEAN]
  BY Zenon DEF NoServer

\* The uint8_t count stays in its range when it is counted up or down.
LEMMA CountInRange ==
    ASSUME NEW n \in 0 .. CountRange - 1
    PROVE  /\ (n + 1) % CountRange \in 0 .. CountRange - 1
           /\ (n + CountRange - 1) % CountRange \in 0 .. CountRange - 1
  BY CountRangeType, SMT

\* ble_hs_stop_done signals once, and only when somebody waits.
LEMMA DoneFacts ==
    ASSUME NEW s \in StopType
    PROVE  /\ ~Done(s).waiting /\ ~Done(s).timer /\ ~Done(s).listener
           /\ Done(s).event = s.event /\ Done(s).count = s.count
           /\ Done(s).sem = IF s.waiting THEN s.sem + 1 ELSE s.sem
  BY Zenon DEF Done, StopType

\* A semaphore that is free while somebody waits counts one signal at most.
LEMMA DoneType ==
    ASSUME NEW s \in StopType, s.waiting => s.sem = 0
    PROVE  Done(s) \in StopType
<1>1. s.sem \in {0, 1} /\ s.waiting \in BOOLEAN
  BY DEF StopType
<1>2. (IF s.waiting THEN s.sem + 1 ELSE s.sem) \in {0, 1}
  BY <1>1
<1> QED
  BY <1>2, Zenon DEF Done, StopType

\* Counting a connection keeps the record's type.
LEMMA CountType ==
    ASSUME NEW s \in StopType, NEW n \in 0 .. CountRange - 1
    PROVE  [s EXCEPT !.count = n] \in StopType
  BY Zenon DEF StopType

\* A connection is counted down, whatever the count becomes: the record stays
\* well typed, and the semaphore is signalled only when somebody waits.
LEMMA CountDownFacts ==
    ASSUME stop \in StopType, stop.waiting => stop.sem = 0,
           NEW n \in 0 .. CountRange - 1, CountDown(n)
    PROVE  /\ stop' \in StopType
           /\ stop'.event = stop.event
           /\ stop'.listener => stop.listener
           /\ stop'.timer => stop.timer
           /\ stop'.waiting => stop.waiting
           /\ stop'.sem = stop.sem \/ (stop.waiting /\ ~stop'.waiting)
           /\ enabled' = enabled \/ (enabled' = "off" /\ stop.listener)
<1> DEFINE told == [stop EXCEPT !.count = n]
<1>1. told \in StopType
  BY CountType
<1>2. /\ told.waiting = stop.waiting /\ told.sem = stop.sem /\ told.event = stop.event
      /\ told.listener = stop.listener /\ told.timer = stop.timer
  BY Zenon DEF StopType
<1>3. Done(told) \in StopType
  BY <1>1, <1>2, DoneType
<1>4. /\ ~Done(told).waiting /\ ~Done(told).timer /\ ~Done(told).listener
      /\ Done(told).event = told.event
      /\ Done(told).sem = told.sem \/ told.waiting
  BY <1>1, DoneFacts
<1>5. \/ UNCHANGED <<stop, enabled>>
      \/ stop.listener /\ stop' = told /\ enabled' = enabled
      \/ stop.listener /\ stop' = Done(told) /\ enabled' = "off"
  BY Zenon DEF CountDown
<1> HIDE DEF told
<1>6. CASE UNCHANGED <<stop, enabled>>
  BY <1>6
<1>7. CASE stop.listener /\ stop' = told /\ enabled' = enabled
  BY <1>1, <1>2, <1>7
<1>8. CASE stop.listener /\ stop' = Done(told) /\ enabled' = "off"
  BY <1>2, <1>3, <1>4, <1>8, Zenon
<1> QED
  BY <1>5, <1>6, <1>7, <1>8

\* What the count can be when it is counted down.
LEMMA LessInRange ==
    ASSUME stop \in StopType
    PROVE  /\ Less(stop.count) \in 0 .. CountRange - 1
           /\ Less(Less(stop.count)) \in 0 .. CountRange - 1
           /\ stop.count \in 0 .. CountRange - 1
<1>1. stop.count \in 0 .. CountRange - 1
  BY DEF StopType
<1>2. Less(stop.count) \in 0 .. CountRange - 1
  BY <1>1, CountInRange DEF Less
<1> QED
  BY <1>1, <1>2, CountInRange DEF Less

\* A disconnection, and a refusal of one, count down.
LEMMA CountsDown ==
    ASSUME stop \in StopType, Listen \/ TerminateFailed
    PROVE  \E n \in 0 .. CountRange - 1 : CountDown(n)
  BY LessInRange, Zenon DEF Listen, TerminateFailed

\* The stop procedure's record stays well typed.
LEMMA StopTypeStep == IInv /\ Next => (stop \in StopType)'
<1> SUFFICES ASSUME IInv, Next PROVE (stop \in StopType)'
  OBVIOUS
<1> USE DEF IInv, TypeOK
<1>1. CASE Enable \/ RemoveServices \/ ServeConnection \/ Accept \/ HostReset \/ SyncFails \/ LinkLost
  BY <1>1, Zenon DEF Enable, RemoveServices, ServeConnection, Accept, HostReset, SyncFails, LinkLost,
     InitStack, AwaitSync, CreateServer, WindowOver, RemoveNext, ServiceChanged, Removed,
     EndAdvertising, Insert, Connect, OnConnectStop, FlagConnected
<1>2. CASE StopStack
  <2>1. CASE StopBegin \/ StopPreempt \/ StopRegister \/ StopTerminate \/ StopArm
    BY <2>1, Zenon DEF StopBegin, StopPreempt, StopRegister, StopTerminate, StopArm, StopType
  <2>2. CASE StopCount
    <3>1. stop.count \in 0 .. CountRange - 1
      BY DEF StopType
    <3> QED
      BY <2>2, <3>1, CountInRange, CountType DEF StopCount
  <2>3. CASE StopCheck
    BY <2>3, DoneType DEF StopCheck, Handshake
  <2>4. CASE StopPost \/ StopServed
    <3>1. stop.sem - 1 \in {0, 1}
      BY <2>4 DEF StopPost, StopServed, StopType
    <3> QED
      BY <2>4, <3>1, Zenon DEF StopPost, StopServed, StopType
  <2> QED
    BY <1>2, <2>1, <2>2, <2>3, <2>4 DEF StopStack
<1>3. CASE DeleteStack
  BY <1>3, Zenon DEF DeleteStack, Deinit, DeleteServer, DeleteAdvertising, SleepOver, StopType, NoStop
<1>4. CASE ServeDisconnection
  <2>1. CASE Listen
    BY <2>1, CountsDown, CountDownFacts DEF Handshake
  <2>2. CASE Broken \/ Disconnect \/ DisconnectReset \/ OnDisconnect \/ AdvertiseAgain
    BY <2>2, Zenon DEF Broken, Disconnect, DisconnectReset, OnDisconnect, AdvertiseAgain
  <2> QED
    BY <1>4, <2>1, <2>2 DEF ServeDisconnection
<1>5. CASE ServeHost
  <2>1. CASE ResetAdvertising \/ Sync \/ Leave
    BY <2>1, Zenon DEF ResetAdvertising, Sync, Leave
  <2>2. CASE ServeStop
    <3>1. stop.sem + 1 \in {0, 1}
      BY <2>2 DEF ServeStop, Handshake
    <3> QED
      BY <2>2, <3>1, Zenon DEF ServeStop, StopType
  <2> QED
    BY <1>5, <2>1, <2>2 DEF ServeHost
<1>6. CASE StopTimeout
  BY <1>6, DoneType DEF StopTimeout, Handshake
<1>7. CASE Restart
  <2>1. NoStop \in StopType
    BY CountRangeType DEF StopType, NoStop
  <2> QED
    BY <1>7, <2>1 DEF Restart
<1>8. ASSUME NEW t \in Tasks, Shared(t) PROVE (stop \in StopType)'
  BY <1>8 DEF Shared
<1>9. CASE TerminateFailed
  BY <1>9, CountsDown, CountDownFacts DEF Handshake
<1> QED
  BY <1>1, <1>2, <1>3, <1>4, <1>5, <1>6, <1>7, <1>8, <1>9 DEF Next, Main, Host, HostWork
-----------------------------------------------------------------------------
\* The host's state stays well typed.
LEMMA HostTypeStep == IInv /\ Next => HostType'
<1> SUFFICES ASSUME IInv, Next PROVE HostType'
  OBVIOUS
<1> USE DEF IInv, TypeOK, HostType
<1>1. CASE Enable
  BY <1>1, Zenon DEF Enable, InitStack, AwaitSync, CreateServer, WindowOver
<1>2. CASE RemoveServices
  BY <1>2, Zenon DEF RemoveServices, RemoveNext, ServiceChanged, Removed, Fail
<1>3. CASE StopStack
  BY <1>3, Zenon DEF StopStack, StopBegin, StopPreempt, StopRegister, StopTerminate, StopCount,
     StopCheck, StopArm, StopPost, StopServed
<1>4. CASE DeleteStack
  BY <1>4, Zenon DEF DeleteStack, Deinit, DeleteServer, DeleteAdvertising, SleepOver
<1>5. CASE ServeConnection
  BY <1>5, Zenon DEF ServeConnection, EndAdvertising, Insert, Connect, OnConnectStop, FlagConnected, AdvStop
<1>6. CASE ServeDisconnection
  BY <1>6, Zenon DEF ServeDisconnection, Broken, Listen, CountDown, Disconnect, DisconnectReset,
     OnDisconnect, AdvertiseAgain
<1>7. CASE ServeHost
  BY <1>7, Zenon DEF ServeHost, ResetAdvertising, Sync, ServeStop, Leave
<1>8. CASE Accept \/ TerminateFailed \/ HostReset \/ SyncFails \/ StopTimeout \/ LinkLost \/ Restart
  BY <1>8, Zenon DEF Accept, TerminateFailed, CountDown, HostReset, SyncFails, StopTimeout, LinkLost, Restart, Boot
<1>9. ASSUME NEW t \in Tasks, Shared(t) PROVE HostType'
  <2>1. CASE Reset(t)
    BY <1>9, <2>1, Zenon DEF Shared, Reset, ResetCheck, ResetStopAdv, ResetSvcInit,
       ResetRebuild, ResetDone, Fail, AdvStop
  <2>2. CASE Advertise(t)
    BY <1>9, <2>2, Zenon DEF Shared, Advertise, AdvertiseCheck, StartGatts, StartList,
       AdvertiseActive, AdvertiseOn, Fail
  <2> QED
    BY <1>9, <2>1, <2>2 DEF Shared
<1> QED
  BY <1>1, <1>2, <1>3, <1>4, <1>5, <1>6, <1>7, <1>8, <1>9 DEF Next, Main, Host, HostWork

-----------------------------------------------------------------------------
\* Both tasks stay at one of their steps: a procedure returns to a caller.
LEMMA ControlTypeStep == IInv /\ Next => ControlType'
<1> SUFFICES ASSUME IInv, Next PROVE ControlType'
  OBVIOUS
<1> USE DEF IInv, TypeOK, ControlType, Returns,
           Procedures, Teardown, MainLabels, HostLabels
<1>1. CASE Enable
  BY <1>1 DEF Enable, InitStack, AwaitSync, CreateServer, WindowOver
<1>2. CASE RemoveServices
  BY <1>2 DEF RemoveServices, RemoveNext, ServiceChanged, Removed, Fail
<1>3. CASE StopStack
  BY <1>3 DEF StopStack, StopBegin, StopPreempt, StopRegister, StopTerminate, StopCount,
     StopCheck, StopArm, StopPost, StopServed
<1>4. CASE DeleteStack
  BY <1>4 DEF DeleteStack, Deinit, DeleteServer, DeleteAdvertising, SleepOver
<1>5. CASE ServeConnection
  BY <1>5 DEF ServeConnection, EndAdvertising, Insert, Connect, OnConnectStop, FlagConnected
<1>6. CASE ServeDisconnection
  BY <1>6 DEF ServeDisconnection, Broken, Listen, CountDown, Disconnect, DisconnectReset,
     OnDisconnect, AdvertiseAgain
<1>7. CASE ServeHost
  BY <1>7 DEF ServeHost, ResetAdvertising, Sync, ServeStop, Leave
<1>8. CASE Accept \/ TerminateFailed \/ HostReset \/ SyncFails \/ StopTimeout \/ LinkLost \/ Restart
  BY <1>8 DEF Accept, TerminateFailed, CountDown, HostReset, SyncFails, StopTimeout, LinkLost, Restart, Boot
<1>9. ASSUME NEW t \in Tasks, Shared(t) PROVE ControlType'
  <2>1. CASE Reset(t)
    BY <1>9, <2>1 DEF Shared, Reset, ResetCheck, ResetStopAdv, ResetSvcInit,
       ResetRebuild, ResetDone, Fail
  <2>2. CASE Advertise(t)
    BY <1>9, <2>2 DEF Shared, Advertise, AdvertiseCheck, StartGatts, StartList,
       AdvertiseActive, AdvertiseOn, Fail
  <2> QED
    BY <1>9, <2>1, <2>2 DEF Shared
<1> QED
  BY <1>1, <1>2, <1>3, <1>4, <1>5, <1>6, <1>7, <1>8, <1>9 DEF Next, Main, Host, HostWork

-----------------------------------------------------------------------------
\* A procedure is called with one of its return points.
LEMMA ReturnsStep == IInv /\ Next => Returns'
<1> SUFFICES ASSUME IInv, Next PROVE Returns'
  OBVIOUS
<1> USE DEF IInv, TypeOK, ControlType, Returns, Procedures
<1>1. CASE Enable
  BY <1>1 DEF Enable, InitStack, AwaitSync, CreateServer, WindowOver
<1>2. CASE RemoveServices
  BY <1>2 DEF RemoveServices, RemoveNext, ServiceChanged, Removed, Fail
<1>3. CASE StopStack
  BY <1>3 DEF StopStack, StopBegin, StopPreempt, StopRegister, StopTerminate, StopCount,
     StopCheck, StopArm, StopPost, StopServed
<1>4. CASE DeleteStack
  BY <1>4 DEF DeleteStack, Deinit, DeleteServer, DeleteAdvertising, SleepOver
<1>5. CASE ServeConnection
  BY <1>5 DEF ServeConnection, EndAdvertising, Insert, Connect, OnConnectStop, FlagConnected
<1>6. CASE ServeDisconnection
  BY <1>6 DEF ServeDisconnection, Broken, Listen, CountDown, Disconnect, DisconnectReset,
     OnDisconnect, AdvertiseAgain
<1>7. CASE ServeHost
  BY <1>7 DEF ServeHost, ResetAdvertising, Sync, ServeStop, Leave
<1>8. CASE Accept \/ TerminateFailed \/ HostReset \/ SyncFails \/ StopTimeout \/ LinkLost \/ Restart
  BY <1>8 DEF Accept, TerminateFailed, CountDown, HostReset, SyncFails, StopTimeout, LinkLost, Restart, Boot
<1>9. ASSUME NEW t \in Tasks, Shared(t) PROVE Returns'
  <2>1. CASE Reset(t)
    BY <1>9, <2>1 DEF Shared, Reset, ResetCheck, ResetStopAdv, ResetSvcInit,
       ResetRebuild, ResetDone, Fail
  <2>2. CASE Advertise(t)
    BY <1>9, <2>2 DEF Shared, Advertise, AdvertiseCheck, StartGatts, StartList,
       AdvertiseActive, AdvertiseOn, Fail
  <2> QED
    BY <1>9, <2>1, <2>2 DEF Shared
<1> QED
  BY <1>1, <1>2, <1>3, <1>4, <1>5, <1>6, <1>7, <1>8, <1>9 DEF Next, Main, Host, HostWork

-----------------------------------------------------------------------------
\* A removal is taken off the list only when it is done.
LEMMA PendingStep == IInv /\ Next => Pending'
<1> SUFFICES ASSUME IInv, Next PROVE Pending'
  OBVIOUS
<1> USE DEF IInv, TypeOK, ControlType, Returns, Pending, Procedures
<1>1. CASE Enable
  BY <1>1 DEF Enable, InitStack, AwaitSync, CreateServer, WindowOver
<1>2. CASE RemoveServices
  BY <1>2 DEF RemoveServices, RemoveNext, ServiceChanged, Removed, Fail
<1>3. CASE StopStack
  BY <1>3 DEF StopStack, StopBegin, StopPreempt, StopRegister, StopTerminate, StopCount,
     StopCheck, StopArm, StopPost, StopServed
<1>4. CASE DeleteStack
  BY <1>4 DEF DeleteStack, Deinit, DeleteServer, DeleteAdvertising, SleepOver
<1>5. CASE ServeConnection
  BY <1>5 DEF ServeConnection, EndAdvertising, Insert, Connect, OnConnectStop, FlagConnected
<1>6. CASE ServeDisconnection
  BY <1>6 DEF ServeDisconnection, Broken, Listen, CountDown, Disconnect, DisconnectReset,
     OnDisconnect, AdvertiseAgain
<1>7. CASE ServeHost
  BY <1>7 DEF ServeHost, ResetAdvertising, Sync, ServeStop, Leave
<1>8. CASE Accept \/ TerminateFailed \/ HostReset \/ SyncFails \/ StopTimeout \/ LinkLost \/ Restart
  BY <1>8 DEF Accept, TerminateFailed, CountDown, HostReset, SyncFails, StopTimeout, LinkLost, Restart, Boot
<1>9. ASSUME NEW t \in Tasks, Shared(t) PROVE Pending'
  <2>1. CASE Reset(t)
    BY <1>9, <2>1 DEF Shared, Reset, ResetCheck, ResetStopAdv, ResetSvcInit,
       ResetRebuild, ResetDone, Fail
  <2>2. CASE Advertise(t)
    BY <1>9, <2>2 DEF Shared, Advertise, AdvertiseCheck, StartGatts, StartList,
       AdvertiseActive, AdvertiseOn, Fail
  <2> QED
    BY <1>9, <2>1, <2>2 DEF Shared
<1> QED
  BY <1>1, <1>2, <1>3, <1>4, <1>5, <1>6, <1>7, <1>8, <1>9 DEF Next, Main, Host, HostWork

-----------------------------------------------------------------------------
\* The second wait of nimble_port_stop is satisfied by the host task's last
\* event, never by the completion of the stop procedure.
LEMMA HandshakeStep == IInv /\ Next => Handshake'
<1> SUFFICES ASSUME IInv, Next PROVE Handshake'
  OBVIOUS
<1> USE DEF IInv, TypeOK, ControlType, Returns, Handshake,
           Procedures, Teardown, StopPhase
<1>1. CASE Enable
  BY <1>1 DEF Enable, InitStack, AwaitSync, CreateServer, WindowOver
<1>2. CASE RemoveServices
  BY <1>2 DEF RemoveServices, RemoveNext, ServiceChanged, Removed, Fail
<1>3. CASE StopStack
  <2>1. CASE StopCheck
    BY <2>1, DoneFacts DEF StopCheck, StopType
  <2>2. CASE StopBegin \/ StopPreempt \/ StopRegister \/ StopTerminate \/ StopCount \/ StopArm
    BY <2>2 DEF StopBegin, StopPreempt, StopRegister, StopTerminate, StopCount, StopArm, StopType
  <2>3. CASE StopPost
    <3>1. stop.sem = 1
      BY <2>3 DEF StopPost, StopType
    <3>2. stop' = [stop EXCEPT !.sem = 0, !.event = TRUE]
      BY <2>3, <3>1, SMT DEF StopPost
    <3>3. stop'.sem = 0 /\ stop'.event /\ stop'.waiting = stop.waiting
      BY <3>2, Zenon DEF StopType
    <3> QED
      BY <2>3, <3>1, <3>3 DEF StopPost
  <2>4. CASE StopServed
    BY <2>4 DEF StopServed, StopType
  <2> QED
    BY <1>3, <2>1, <2>2, <2>3, <2>4 DEF StopStack
<1>4. CASE DeleteStack
  BY <1>4 DEF DeleteStack, Deinit, DeleteServer, DeleteAdvertising, SleepOver, NoStop, StopType
<1>5. CASE ServeConnection
  BY <1>5 DEF ServeConnection, EndAdvertising, Insert, Connect, OnConnectStop, FlagConnected
<1>6. CASE ServeDisconnection
  <2>1. CASE Listen
    <3>1. /\ stop'.event = stop.event /\ (stop'.waiting => stop.waiting)
          /\ stop'.sem = stop.sem \/ (stop.waiting /\ ~stop'.waiting)
      BY <2>1, CountsDown, CountDownFacts
    <3> QED
      BY <2>1, <3>1 DEF Listen
  <2>2. CASE Broken \/ Disconnect \/ DisconnectReset \/ OnDisconnect \/ AdvertiseAgain
    BY <2>2 DEF Broken, Disconnect, DisconnectReset, OnDisconnect, AdvertiseAgain
  <2> QED
    BY <1>6, <2>1, <2>2 DEF ServeDisconnection
<1>7. CASE ServeHost
  BY <1>7 DEF ServeHost, ResetAdvertising, Sync, ServeStop, Leave, StopType
<1>8. CASE Accept \/ TerminateFailed \/ HostReset \/ SyncFails \/ StopTimeout \/ LinkLost \/ Restart
  <2>1. CASE StopTimeout
    BY <2>1, DoneFacts DEF StopTimeout, StopType
  <2>2. CASE TerminateFailed
    <3>1. /\ stop'.event = stop.event /\ (stop'.waiting => stop.waiting)
          /\ stop'.sem = stop.sem \/ (stop.waiting /\ ~stop'.waiting)
      BY <2>2, CountsDown, CountDownFacts
    <3> QED
      BY <2>2, <3>1 DEF TerminateFailed
  <2>3. CASE Accept \/ HostReset \/ SyncFails \/ LinkLost \/ Restart
    BY <2>3 DEF Accept, HostReset, SyncFails, LinkLost, Restart, Boot, NoStop
  <2> QED
    BY <1>8, <2>1, <2>2, <2>3
<1>9. ASSUME NEW t \in Tasks, Shared(t) PROVE Handshake'
  <2>1. CASE Reset(t)
    BY <1>9, <2>1 DEF Shared, Reset, ResetCheck, ResetStopAdv, ResetSvcInit,
       ResetRebuild, ResetDone, Fail
  <2>2. CASE Advertise(t)
    BY <1>9, <2>2 DEF Shared, Advertise, AdvertiseCheck, StartGatts, StartList,
       AdvertiseActive, AdvertiseOn, Fail
  <2> QED
    BY <1>9, <2>1, <2>2 DEF Shared
<1> QED
  BY <1>1, <1>2, <1>3, <1>4, <1>5, <1>6, <1>7, <1>8, <1>9 DEF Next, Main, Host, HostWork

-----------------------------------------------------------------------------
\* Until the server is created nothing is advertised, connected or listed.
LEMMA DormantStep == IInv /\ Next => Dormant'
<1> SUFFICES ASSUME IInv, Next PROVE Dormant'
  OBVIOUS
<1> USE DEF IInv, TypeOK, HostType, ServerType, ControlType, Returns,
           Handshake, Dormant, Procedures, Teardown, StopPhase
<1>1. CASE Enable
  BY <1>1 DEF Enable, InitStack, AwaitSync, CreateServer, WindowOver, NoServer
<1>2. CASE RemoveServices
  BY <1>2 DEF RemoveServices, RemoveNext, ServiceChanged, Removed, Fail
<1>3. CASE StopStack
  BY <1>3 DEF StopStack, StopBegin, StopPreempt, StopRegister, StopTerminate, StopCount,
     StopCheck, StopArm, StopPost, StopServed
<1>4. CASE DeleteStack
  BY <1>4 DEF DeleteStack, Deinit, DeleteServer, DeleteAdvertising, SleepOver, NoServer
<1>5. CASE ServeConnection
  BY <1>5 DEF ServeConnection, EndAdvertising, Insert, Connect, OnConnectStop, FlagConnected, AdvStop
<1>6. CASE ServeDisconnection
  BY <1>6 DEF ServeDisconnection, Broken, Listen, CountDown, Disconnect, DisconnectReset,
     OnDisconnect, AdvertiseAgain
<1>7. CASE ServeHost
  BY <1>7 DEF ServeHost, ResetAdvertising, Sync, ServeStop, Leave
<1>8. CASE Accept \/ TerminateFailed \/ HostReset \/ SyncFails \/ StopTimeout \/ LinkLost \/ Restart
  BY <1>8 DEF Accept, TerminateFailed, CountDown, HostReset, SyncFails, StopTimeout, LinkLost, Restart, Boot, NoServer
<1>9. ASSUME NEW t \in Tasks, Shared(t) PROVE Dormant'
  <2>1. CASE Reset(t)
    BY <1>9, <2>1 DEF Shared, Reset, ResetCheck, ResetStopAdv, ResetSvcInit,
       ResetRebuild, ResetDone, Fail, AdvStop
  <2>2. CASE Advertise(t)
    BY <1>9, <2>2 DEF Shared, Advertise, AdvertiseCheck, StartGatts, StartList,
       AdvertiseActive, AdvertiseOn, Fail
  <2> QED
    BY <1>9, <2>1, <2>2 DEF Shared
<1> QED
  BY <1>1, <1>2, <1>3, <1>4, <1>5, <1>6, <1>7, <1>8, <1>9 DEF Next, Main, Host, HostWork

-----------------------------------------------------------------------------
\* The flag follows the handle, and lags behind it only inside a callback.
LEMMA FlagPhasesStep == IInv /\ Next => FlagPhases'
<1> SUFFICES ASSUME IInv, Next PROVE FlagPhases'
  OBVIOUS
<1> USE DEF IInv, TypeOK, HostType, ServerType, ControlType, AppType, Returns,
           Handshake, Dormant, FlagPhases, Connecting, Disconnecting,
           Procedures, Teardown, StopPhase
<1>1. CASE Enable
  BY <1>1 DEF Enable, InitStack, AwaitSync, CreateServer, WindowOver, NoServer
<1>2. CASE RemoveServices
  BY <1>2 DEF RemoveServices, RemoveNext, ServiceChanged, Removed, Fail
<1>3. CASE StopStack
  BY <1>3 DEF StopStack, StopBegin, StopPreempt, StopRegister, StopTerminate, StopCount,
     StopCheck, StopArm, StopPost, StopServed
<1>4. CASE DeleteStack
  BY <1>4 DEF DeleteStack, Deinit, DeleteServer, DeleteAdvertising, SleepOver, NoServer
<1>5. CASE ServeConnection
  BY <1>5 DEF ServeConnection, EndAdvertising, Insert, Connect, OnConnectStop, FlagConnected, AdvStop
<1>6. CASE ServeDisconnection
  BY <1>6 DEF ServeDisconnection, Broken, Listen, CountDown, Disconnect, DisconnectReset,
     OnDisconnect, AdvertiseAgain
<1>7. CASE ServeHost
  BY <1>7 DEF ServeHost, ResetAdvertising, Sync, ServeStop, Leave
<1>8. CASE Accept \/ TerminateFailed \/ HostReset \/ SyncFails \/ StopTimeout \/ LinkLost \/ Restart
  BY <1>8 DEF Accept, TerminateFailed, CountDown, HostReset, SyncFails, StopTimeout, LinkLost, Restart, Boot, NoServer
<1>9. ASSUME NEW t \in Tasks, Shared(t) PROVE FlagPhases'
  <2>1. CASE Reset(t)
    <3>1. CASE ResetCheck(t) \/ ResetStopAdv(t) \/ ResetSvcInit(t)
      BY <1>9, <3>1 DEF Shared, ResetCheck, ResetStopAdv, ResetSvcInit, Fail, AdvStop
    <3>2. CASE ResetRebuild(t)
      BY <1>9, <3>2 DEF Shared, ResetRebuild, Fail
    <3>3. CASE ResetDone(t)
      BY <1>9, <3>3 DEF Shared, ResetDone
    <3> QED
      BY <2>1, <3>1, <3>2, <3>3 DEF Reset
  <2>2. CASE Advertise(t)
    BY <1>9, <2>2 DEF Shared, Advertise, AdvertiseCheck, StartGatts, StartList,
       AdvertiseActive, AdvertiseOn, Fail
  <2> QED
    BY <1>9, <2>1, <2>2 DEF Shared
<1> QED
  BY <1>1, <1>2, <1>3, <1>4, <1>5, <1>6, <1>7, <1>8, <1>9 DEF Next, Main, Host, HostWork

-----------------------------------------------------------------------------
\* A service is queued twice at most: starting it counts no further.
LEMMA ServiceStartType ==
    ASSUME ServerType, NEW s \in Services
    PROVE  ServiceStart(s) \in 0 .. 2
  BY DEF ServerType, ServiceStart

\* The server, the advertiser and the services stay well typed.
LEMMA ServerTypeStep == IInv /\ Next => ServerType'
<1> SUFFICES ASSUME IInv, Next PROVE ServerType'
  OBVIOUS
<1> USE DEF IInv, TypeOK, ServerType, AppType
<1>1. CASE Enable
  <2>1. CASE InitStack \/ AwaitSync \/ WindowOver
    BY <2>1 DEF InitStack, AwaitSync, WindowOver
  <2>2. CASE CreateServer
    <3>1. server' \in [exists : BOOLEAN, peers : BOOLEAN, started : BOOLEAN, changed : BOOLEAN]
      BY <2>2, Zenon DEF CreateServer, NoServer
    <3>2. queued' \in [Services -> 0 .. 2]
      BY <2>2, ServiceStartType, Zenon DEF CreateServer
    <3> QED
      BY <2>2, <3>1, <3>2 DEF CreateServer
  <2> QED
    BY <1>1, <2>1, <2>2 DEF Enable
<1>2. CASE RemoveServices
  <2>1. CASE RemoveNext
    <3>1. Head(todo) \in [service : Services, whole : BOOLEAN]
      BY <2>1, HeadTail DEF RemoveNext
    <3>2. {s \in {Head(todo).service} : Head(todo).whole} \subseteq Services
      BY <3>1
    <3>3. marked' \subseteq Services
      BY <2>1, <3>2, Zenon DEF RemoveNext
    <3> QED
      BY <2>1, <3>3, Zenon DEF RemoveNext
  <2>2. CASE ServiceChanged \/ Removed
    BY <2>2, Zenon DEF ServiceChanged, Removed, Fail
  <2> QED
    BY <1>2, <2>1, <2>2 DEF RemoveServices
<1>3. CASE StopStack
  BY <1>3, SMT DEF StopStack, StopBegin, StopPreempt, StopRegister, StopTerminate, StopCount,
     StopCheck, StopArm, StopPost, StopServed
<1>4. CASE DeleteStack
  <2>1. CASE Deinit
    BY <2>1 DEF Deinit
  <2>2. CASE DeleteServer
    BY <2>2, NoServerType DEF DeleteServer
  <2>3. CASE DeleteAdvertising \/ SleepOver
    BY <2>3 DEF DeleteAdvertising, SleepOver
  <2> QED
    BY <1>4, <2>1, <2>2, <2>3 DEF DeleteStack
<1>5. CASE ServeConnection
  BY <1>5, Zenon DEF ServeConnection, EndAdvertising, Insert, Connect, OnConnectStop, FlagConnected
<1>6. CASE ServeDisconnection
  BY <1>6, Zenon DEF ServeDisconnection, Broken, Listen, CountDown, Disconnect, DisconnectReset,
     OnDisconnect, AdvertiseAgain
<1>7. CASE ServeHost
  BY <1>7, SMT DEF ServeHost, ResetAdvertising, Sync, ServeStop, Leave
<1>8. CASE Accept \/ TerminateFailed \/ HostReset \/ SyncFails \/ StopTimeout \/ LinkLost \/ Restart
  <2>1. CASE Accept \/ TerminateFailed \/ HostReset \/ SyncFails \/ StopTimeout \/ LinkLost
    BY <2>1 DEF Accept, TerminateFailed, CountDown, HostReset, SyncFails, StopTimeout, LinkLost
  <2>2. CASE Restart
    BY <2>2, NoServerType DEF Restart
  <2> QED
    BY <1>8, <2>1, <2>2
<1>9. ASSUME NEW t \in Tasks, Shared(t) PROVE ServerType'
  <2>1. CASE ResetRebuild(t)
    <3>1. CASE Fail("memory")
      BY <3>1, Zenon DEF Fail
    <3>2. CASE ~Fail("memory")
      <4>1. freed' \subseteq Services
        BY <2>1, <3>2, Zenon DEF ResetRebuild
      <4>2. queued' \in [Services -> 0 .. 2]
        BY <2>1, <3>2, ServiceStartType DEF ResetRebuild
      <4> QED
        BY <2>1, <3>2, <4>1, <4>2, Zenon DEF ResetRebuild
    <3> QED
      BY <3>1, <3>2
  <2>2. CASE ResetCheck(t) \/ ResetStopAdv(t) \/ ResetSvcInit(t) \/ ResetDone(t)
    BY <2>2, Zenon DEF ResetCheck, ResetStopAdv, ResetSvcInit, ResetDone, Fail
  <2>3. CASE StartGatts(t)
    <3>1. queued' \in [Services -> 0 .. 2]
      BY <2>3 DEF StartGatts, Fail
    <3> QED
      BY <2>3, <3>1, Zenon DEF StartGatts, Fail
  <2>4. CASE AdvertiseCheck(t) \/ StartList(t) \/ AdvertiseActive(t) \/ AdvertiseOn(t)
    BY <2>4, Zenon DEF AdvertiseCheck, StartList, AdvertiseActive, AdvertiseOn, Fail
  <2> QED
    BY <1>9, <2>1, <2>2, <2>3, <2>4 DEF Shared, Reset, Advertise
<1> QED
  BY <1>1, <1>2, <1>3, <1>4, <1>5, <1>6, <1>7, <1>8, <1>9 DEF Next, Main, Host, HostWork

-----------------------------------------------------------------------------
\* The removals that WindowOver lists are a sequence of removals.
LEMMA RemovalsType == Removals \in Seq([service : Services, whole : BOOLEAN])
<1>1. ASSUME NEW s \in Services
      PROVE  TearDown(s) \in Seq([service : Services, whole : BOOLEAN])
  <2>1. Characteristics[s] + 1 \in Nat
    BY CharacteristicsType
  <2>2. ASSUME NEW i \in 1 .. Characteristics[s] + 1
        PROVE  [service |-> s, whole |-> i > Characteristics[s]]
                   \in [service : Services, whole : BOOLEAN]
    <3>1. (i > Characteristics[s]) \in BOOLEAN
      BY CharacteristicsType
    <3> QED
      BY <3>1, Zenon
  <2>3. TearDown(s) \in [1 .. Characteristics[s] + 1 -> [service : Services, whole : BOOLEAN]]
    BY <2>2, Zenon DEF TearDown
  <2>4. ASSUME NEW S, NEW n \in Nat, NEW f \in [1 .. n -> S] PROVE f \in Seq(S)
    OBVIOUS
  <2> QED
    BY <2>1, <2>3, <2>4, Zenon
<1>2. ASSUME NEW S, NEW a \in Seq(S), NEW b \in Seq(S) PROVE a \o b \in Seq(S)
  OBVIOUS
<1> QED
  BY <1>1, <1>2 DEF Removals

\* The application's flags and removals stay well typed.
LEMMA AppTypeStep == IInv /\ Next => AppType'
<1> SUFFICES ASSUME IInv, Next PROVE AppType'
  OBVIOUS
<1> USE DEF IInv, TypeOK, AppType
<1>1. CASE Enable
  <2>1. CASE InitStack \/ AwaitSync \/ CreateServer
    BY <2>1, Zenon DEF InitStack, AwaitSync, CreateServer
  <2>2. CASE WindowOver
    BY <2>2, RemovalsType, Zenon DEF WindowOver
  <2> QED
    BY <1>1, <2>1, <2>2 DEF Enable
<1>2. CASE RemoveServices
  <2>1. CASE RemoveNext
    <3>1. Tail(todo) \in Seq([service : Services, whole : BOOLEAN])
      BY <2>1, HeadTail DEF RemoveNext
    <3> QED
      BY <2>1, <3>1, Zenon DEF RemoveNext
  <2>2. CASE ServiceChanged
    BY <2>2, Zenon DEF ServiceChanged
  <2>3. CASE Removed
    <3>1. Tail(todo) \in Seq([service : Services, whole : BOOLEAN])
      BY <2>3, HeadTail DEF Removed, Pending
    <3> QED
      BY <2>3, <3>1, Zenon DEF Removed, Fail
  <2> QED
    BY <1>2, <2>1, <2>2, <2>3 DEF RemoveServices
<1>3. CASE StopStack
  BY <1>3, Zenon DEF StopStack, StopBegin, StopPreempt, StopRegister, StopTerminate, StopCount,
     StopCheck, StopArm, StopPost, StopServed
<1>4. CASE DeleteStack
  BY <1>4, Zenon DEF DeleteStack, Deinit, DeleteServer, DeleteAdvertising, SleepOver
<1>5. CASE ServeConnection
  BY <1>5, Zenon DEF ServeConnection, EndAdvertising, Insert, Connect, OnConnectStop, FlagConnected
<1>6. CASE ServeDisconnection
  BY <1>6, Zenon DEF ServeDisconnection, Broken, Listen, CountDown, Disconnect, DisconnectReset,
     OnDisconnect, AdvertiseAgain
<1>7. CASE ServeHost
  BY <1>7, Zenon DEF ServeHost, ResetAdvertising, Sync, ServeStop, Leave
<1>8. CASE Accept \/ TerminateFailed \/ HostReset \/ SyncFails \/ StopTimeout \/ LinkLost \/ Restart
  <2>1. <<>> \in Seq([service : Services, whole : BOOLEAN])
    OBVIOUS
  <2> QED
    BY <1>8, <2>1, Zenon DEF Accept, TerminateFailed, CountDown, HostReset, SyncFails, StopTimeout, LinkLost, Restart
<1>9. ASSUME NEW t \in Tasks, Shared(t) PROVE AppType'
  BY <1>9, Zenon DEF Shared
<1> QED
  BY <1>1, <1>2, <1>3, <1>4, <1>5, <1>6, <1>7, <1>8, <1>9 DEF Next, Main, Host, HostWork

-----------------------------------------------------------------------------
\* The invariant holds at power-on.
LEMMA InitInvariant == Init => IInv
<1> SUFFICES ASSUME Init PROVE IInv
  OBVIOUS
<1> USE DEF Init, Boot
<1>1. HostType /\ ControlType
  BY DEF HostType, ControlType, MainLabels, HostLabels, Procedures, Teardown
<1>2. ServerType
  BY NoServerType DEF ServerType
<1>3. stop \in StopType
  BY CountRangeType DEF StopType, NoStop
<1>4. AppType
  <2>1. <<>> \in Seq([service : Services, whole : BOOLEAN])
    OBVIOUS
  <2> QED
    BY <2>1, Zenon DEF AppType
<1>5. Returns /\ Pending /\ Handshake /\ Dormant
  BY DEF Returns, Pending, Handshake, Dormant, Procedures, Teardown, StopPhase, NoStop, NoServer
<1>6. FlagPhases
  BY DEF FlagPhases, Connecting, Disconnecting, Procedures, NoServer
<1> QED
  BY <1>1, <1>2, <1>3, <1>4, <1>5, <1>6 DEF IInv, TypeOK

\* The invariant is a function of the variables.
LEMMA StutterInvariant == IInv /\ UNCHANGED vars => IInv'
  BY DEF vars, IInv, TypeOK, HostType, ServerType, ControlType, AppType, StopType,
     Returns, Pending, Handshake, Dormant, FlagPhases, Connecting, Disconnecting

\* Every reachable state satisfies the invariant.
THEOREM Invariance == Spec => []IInv
<1>1. IInv /\ [Next]_vars => IInv'
  <2>1. IInv /\ Next => IInv'
    BY HostTypeStep, ServerTypeStep, ControlTypeStep, StopTypeStep, AppTypeStep,
       ReturnsStep, PendingStep, HandshakeStep, DormantStep, FlagPhasesStep DEF IInv, TypeOK
  <2> QED
    BY <2>1, StutterInvariant
<1> QED
  BY InitInvariant, <1>1, PTL DEF Spec

\* The state of both tasks, the host and the objects is well typed; the stop
\* semaphore never counts more than one completion.
THEOREM TypeCorrect == Spec => []TypeOK
<1>1. IInv => TypeOK
  BY DEF IInv
<1> QED
  BY Invariance, <1>1, PTL

\* NimBLEDevice::deinit frees the stack only when nimble_port_run has
\* returned, however connections, timeouts and resets interleave with the
\* stop procedure.
THEOREM TeardownAfterHalt == Spec => []HaltedBeforeTeardown
<1>1. IInv => HaltedBeforeTeardown
  BY DEF IInv, Handshake, HaltedBeforeTeardown
<1> QED
  BY Invariance, <1>1, PTL

\* Bluetooth::connectionEvent agrees with m_connectedPeersVec whenever the
\* host task is at rest.
THEOREM FlagFollowsLink == Spec => []FlagTracksLink
<1>1. IInv => FlagTracksLink
  BY DEF IInv, FlagPhases, FlagTracksLink, Connecting, Disconnecting, Procedures
<1> QED
  BY Invariance, <1>1, PTL

-----------------------------------------------------------------------------
\* Removals.

Removal1 == [service : Services, whole : BOOLEAN]

LEMMA TailOrdered ==
    ASSUME NEW s \in Seq(Removal1), s # <<>>, WholeLast(s)
    PROVE  /\ Tail(s) \in Seq(Removal1) /\ WholeLast(Tail(s))
           /\ Head(s) = s[1] /\ 1 \in 1 .. Len(s)
           /\ \A i \in 1 .. Len(Tail(s)) : i + 1 \in 2 .. Len(s) /\ Tail(s)[i] = s[i + 1]
<1>1. \A i \in 1 .. Len(Tail(s)) : i + 1 \in 2 .. Len(s) /\ Tail(s)[i] = s[i + 1]
  OBVIOUS
<1>2. Len(Tail(s)) \in Nat /\ Len(s) \in Nat /\ Tail(s) \in Seq(Removal1)
  OBVIOUS
<1>3. WholeLast(Tail(s))
  BY <1>1, <1>2 DEF WholeLast
<1> QED
  BY <1>1, <1>2, <1>3

\* Two lists that are in order are so one after the other, when the first is
\* of one service and the second of another.
LEMMA JoinedOrdered ==
    ASSUME NEW a \in Seq(Removal1), NEW b \in Seq(Removal1), NEW x, NEW y, x # y,
           WholeLast(a), WholeLast(b),
           \A i \in 1 .. Len(a) : a[i].service = x,
           \A i \in 1 .. Len(b) : b[i].service = y
    PROVE  WholeLast(a \o b)
<1> DEFINE r == a \o b
<1>1. Len(a) \in Nat /\ Len(b) \in Nat /\ Len(r) = Len(a) + Len(b)
  OBVIOUS
<1>2. \A i \in 1 .. Len(a) : r[i] = a[i]
  OBVIOUS
<1>3. \A i \in 1 .. Len(r) : i > Len(a) => r[i] = b[i - Len(a)]
  OBVIOUS
<1> HIDE DEF r
<1>4. ASSUME NEW i \in 1 .. Len(r), NEW j \in 1 .. Len(r), i < j, r[i].whole
      PROVE  r[j].service # r[i].service
  <2>1. CASE j <= Len(a)
    BY <1>1, <1>2, <1>4, <2>1 DEF WholeLast
  <2>2. CASE i <= Len(a) /\ j > Len(a)
    <3>1. j - Len(a) \in 1 .. Len(b)
      BY <1>1, <2>2
    <3> QED
      BY <1>1, <1>2, <1>3, <2>2, <3>1
  <2>3. CASE i > Len(a)
    <3>1. /\ i - Len(a) \in 1 .. Len(b) /\ j - Len(a) \in 1 .. Len(b)
          /\ i - Len(a) < j - Len(a)
      BY <1>1, <1>4, <2>3
    <3>2. r[i] = b[i - Len(a)] /\ r[j] = b[j - Len(a)]
      BY <1>1, <1>3, <1>4, <2>3
    <3> QED
      BY <1>4, <3>1, <3>2 DEF WholeLast
  <2> QED
    BY <1>1, <1>4, <2>1, <2>2, <2>3
<1> QED
  BY <1>4 DEF WholeLast, r

\* The destructors remove a service after its characteristics.
LEMMA RemovalsOrdered == WholeLast(Removals)
<1>1. ASSUME NEW s \in Services
      PROVE  /\ TearDown(s) \in Seq(Removal1) /\ WholeLast(TearDown(s))
             /\ \A i \in 1 .. Len(TearDown(s)) : TearDown(s)[i].service = s
  <2>1. Characteristics[s] \in Nat
    BY CharacteristicsType
  <2>2. TearDown(s) \in [1 .. Characteristics[s] + 1 -> Removal1]
    BY <2>1 DEF TearDown, Removal1
  <2>3. ASSUME NEW k \in Nat, NEW f \in [1 .. k -> Removal1] PROVE f \in Seq(Removal1) /\ Len(f) = k
    OBVIOUS
  <2>4. Len(TearDown(s)) = Characteristics[s] + 1 /\ TearDown(s) \in Seq(Removal1)
    BY <2>1, <2>2, <2>3
  <2>5. \A i \in 1 .. Len(TearDown(s)) :
            TearDown(s)[i].service = s /\ (TearDown(s)[i].whole <=> i > Characteristics[s])
    BY <2>1, <2>4 DEF TearDown
  <2>6. WholeLast(TearDown(s))
    BY <2>1, <2>4, <2>5 DEF WholeLast
  <2> QED
    BY <2>4, <2>5, <2>6
<1> QED
  BY <1>1, JoinedOrdered DEF Removals

Air == IInv /\ Removal /\ InSync /\ Fresh /\ OnAir

\* What a removal touches is not marked before its turn, nor deleted.
LEMMA RemovalStep == Air /\ Next => Removal'
<1> SUFFICES ASSUME Air, Next PROVE Removal'
  OBVIOUS
<1> USE DEF Air, IInv, TypeOK, ServerType, ControlType, Returns, Pending,
           Removal, Opening, Removing, Unmarked, Procedures, Teardown, StopPhase
<1>1. CASE Enable
  <2>1. CASE InitStack \/ AwaitSync \/ CreateServer
    BY <2>1 DEF InitStack, AwaitSync, CreateServer
  <2>2. CASE WindowOver
    BY <2>2, RemovalsOrdered DEF WindowOver
  <2> QED
    BY <1>1, <2>1, <2>2 DEF Enable
<1>2. CASE RemoveServices
  <2> USE DEF AppType
  <2>1. todo # <<>> => /\ WholeLast(Tail(todo)) /\ Head(todo) = todo[1]
                       /\ \A k \in 1 .. Len(Tail(todo)) :
                              k + 1 \in 2 .. Len(todo) /\ Tail(todo)[k] = todo[k + 1]
    BY TailOrdered DEF Removal1
  <2>2. CASE RemoveNext
    <3>1. CASE pc'["main"] = "changed"
      <4>1. /\ todo # <<>> /\ pc["main"] = "remove" /\ pc'["main"] = "changed"
            /\ marked' = marked \cup {s \in {Head(todo).service} : Head(todo).whole}
            /\ freed' = freed
        BY <2>2, <3>1 DEF RemoveNext
      <4>0. todo' = todo
        BY <2>2, <3>1 DEF RemoveNext
      <4>2. 1 \in 1 .. Len(todo) /\ Head(todo) = todo[1] /\ Len(todo) \in Nat
        BY <2>1, <4>1, TailOrdered DEF Removal1
      <4>3. \A k \in 2 .. Len(todo) : k \in 1 .. Len(todo) /\ 1 < k
        BY <4>2
      <4>4. ASSUME NEW k \in 2 .. Len(todo) PROVE todo[k].service \notin marked'
        <5>1. todo[k].service \notin marked
          BY <4>1, <4>3
        <5>2. todo[1].whole => todo[k].service # todo[1].service
          BY <4>2, <4>3 DEF WholeLast
        <5> QED
          BY <4>1, <4>2, <5>1, <5>2
      <4>5. ~Head(todo).whole => todo[1].service \notin marked'
        BY <4>1, <4>2
      <4>6. freed' \subseteq marked'
        BY <4>1
      <4> QED
        BY <4>0, <4>1, <4>4, <4>5, <4>6
    <3>2. CASE todo' = Tail(todo) /\ pc' = pc
      BY <2>2, <2>1, <3>2 DEF RemoveNext
    <3> QED
      BY <2>2, <3>1, <3>2 DEF RemoveNext
  <2>3. CASE ServiceChanged
    BY <2>3 DEF ServiceChanged
  <2>4. CASE Removed
    <3>1. CASE pc'["main"] = "remove"
      <4>1. /\ todo' = Tail(todo) /\ marked' = marked /\ freed' = freed
            /\ pc["main"] = "removed" /\ todo # <<>>
        BY <2>4, <3>1 DEF Removed, Fail
      <4>2. \A k \in 1 .. Len(Tail(todo)) : Tail(todo)[k].service \notin marked
        BY <2>1, <4>1
      <4> QED
        BY <2>1, <3>1, <4>1, <4>2
    <3>2. CASE pc'["main"] = "dead"
      <4>1. todo' = todo
        BY <2>4, <3>2 DEF Removed, Fail
      <4> QED
        BY <3>2, <4>1
    <3> QED
      BY <2>4, <3>1, <3>2 DEF Removed, Fail
  <2> QED
    BY <1>2, <2>2, <2>3, <2>4 DEF RemoveServices
<1>3. CASE StopStack
  BY <1>3 DEF StopStack, StopBegin, StopPreempt, StopRegister, StopTerminate, StopCount,
     StopCheck, StopArm, StopPost, StopServed
<1>4. CASE DeleteStack
  BY <1>4 DEF DeleteStack, Deinit, DeleteServer, DeleteAdvertising, SleepOver
<1>5. CASE ServeConnection
  BY <1>5 DEF ServeConnection, EndAdvertising, Insert, Connect, OnConnectStop, FlagConnected
<1>6. CASE ServeDisconnection
  <2>1. UNCHANGED <<todo, marked, freed, pc["main"], ret["main"]>>
    BY <1>6 DEF ServeDisconnection, Broken, Listen, CountDown, Disconnect, DisconnectReset,
       OnDisconnect, AdvertiseAgain
  <2> QED
    BY <2>1
<1>7. CASE ServeHost
  BY <1>7 DEF ServeHost, ResetAdvertising, Sync, ServeStop, Leave
<1>8. CASE Accept \/ TerminateFailed \/ HostReset \/ SyncFails \/ StopTimeout \/ LinkLost \/ Restart
  <2>1. CASE Accept \/ TerminateFailed \/ HostReset \/ SyncFails \/ StopTimeout \/ LinkLost
    BY <2>1 DEF Accept, TerminateFailed, CountDown, HostReset, SyncFails, StopTimeout, LinkLost
  <2>2. CASE Restart
    <3>1. pc'["main"] = "init" /\ todo' = <<>>
      BY <2>2 DEF Restart, Boot
    <3>2. WholeLast(<<>>)
      BY DEF WholeLast
    <3> QED
      BY <3>1, <3>2
  <2> QED
    BY <1>8, <2>1, <2>2
<1>9. ASSUME NEW t \in Tasks, Shared(t) PROVE Removal'
  <2>1. CASE Reset(t)
    BY <1>9, <2>1 DEF Shared, Reset, ResetCheck, ResetStopAdv, ResetSvcInit,
       ResetRebuild, ResetDone, Fail
  <2>2. CASE Advertise(t)
    BY <1>9, <2>2 DEF Shared, Advertise, AdvertiseCheck, StartGatts, StartList,
       AdvertiseActive, AdvertiseOn, Fail
  <2> QED
    BY <1>9, <2>1, <2>2 DEF Shared
<1> QED
  BY <1>1, <1>2, <1>3, <1>4, <1>5, <1>6, <1>7, <1>8, <1>9 DEF Next, Main, Host, HostWork

\* What the host and NimBLEDevice know of the controller goes together.
LEMMA InSyncStep == Air /\ Next => InSync'
<1> SUFFICES ASSUME Air, Next PROVE InSync'
  OBVIOUS
<1> USE DEF Air, IInv, TypeOK, HostType, ServerType, ControlType, Returns,
           Handshake, Dormant, Procedures, Teardown, StopPhase, InSync
<1>1. CASE Enable
  BY <1>1 DEF Enable, InitStack, AwaitSync, CreateServer, WindowOver, NoServer
<1>2. CASE RemoveServices
  BY <1>2 DEF RemoveServices, RemoveNext, ServiceChanged, Removed, Fail
<1>3. CASE StopStack
  BY <1>3 DEF StopStack, StopBegin, StopPreempt, StopRegister, StopTerminate, StopCount,
     StopCheck, StopArm, StopPost, StopServed
<1>4. CASE DeleteStack
  BY <1>4 DEF DeleteStack, Deinit, DeleteServer, DeleteAdvertising, SleepOver, NoServer, NoStop
<1>5. CASE ServeConnection
  BY <1>5 DEF ServeConnection, EndAdvertising, Insert, Connect, OnConnectStop, FlagConnected, AdvStop
<1>6. CASE ServeDisconnection
  BY <1>6 DEF ServeDisconnection, Broken, Listen, CountDown, Disconnect, DisconnectReset,
     OnDisconnect, AdvertiseAgain
<1>7. CASE ServeHost
  BY <1>7 DEF ServeHost, ResetAdvertising, Sync, ServeStop, Leave
<1>8. CASE Accept \/ TerminateFailed \/ HostReset \/ SyncFails \/ StopTimeout \/ LinkLost \/ Restart
  BY <1>8 DEF Accept, TerminateFailed, CountDown, HostReset, SyncFails, StopTimeout, LinkLost, Restart, Boot, NoStop
<1>9. ASSUME NEW t \in Tasks, Shared(t) PROVE InSync'
  <2>1. CASE Reset(t)
    BY <1>9, <2>1 DEF Shared, Reset, ResetCheck, ResetStopAdv, ResetSvcInit,
       ResetRebuild, ResetDone, Fail, AdvStop
  <2>2. CASE Advertise(t)
    BY <1>9, <2>2 DEF Shared, Advertise, AdvertiseCheck, StartGatts, StartList,
       AdvertiseActive, AdvertiseOn, Fail
  <2> QED
    BY <1>9, <2>1, <2>2 DEF Shared
<1> QED
  BY <1>1, <1>2, <1>3, <1>4, <1>5, <1>6, <1>7, <1>8, <1>9 DEF Next, Main, Host, HostWork

\* A window opens with nothing left of the stop before it.
LEMMA FreshStep == Air /\ Next => Fresh'
<1> SUFFICES ASSUME Air, Next PROVE Fresh'
  OBVIOUS
<1> USE DEF Air, IInv, TypeOK, HostType, ServerType, ControlType, Returns,
           Handshake, Dormant, Procedures, Teardown, StopPhase, InSync, Fresh, Opening,
           ResetSteps
<1>1. CASE Enable
  BY <1>1 DEF Enable, InitStack, AwaitSync, CreateServer, WindowOver, NoServer
<1>2. CASE RemoveServices
  BY <1>2 DEF RemoveServices, RemoveNext, ServiceChanged, Removed, Fail
<1>3. CASE StopStack
  BY <1>3 DEF StopStack, StopBegin, StopPreempt, StopRegister, StopTerminate, StopCount,
     StopCheck, StopArm, StopPost, StopServed
<1>4. CASE DeleteStack
  BY <1>4 DEF DeleteStack, Deinit, DeleteServer, DeleteAdvertising, SleepOver, NoServer, NoStop
<1>5. CASE ServeConnection
  BY <1>5 DEF ServeConnection, EndAdvertising, Insert, Connect, OnConnectStop, FlagConnected, AdvStop
<1>6. CASE ServeDisconnection
  <2>1. CASE Listen
    <3>1. /\ stop'.listener => stop.listener
          /\ stop'.timer => stop.timer
          /\ enabled' = enabled \/ stop.listener
      BY <2>1, CountsDown, CountDownFacts
    <3>2. /\ pc["host"] = "broken" /\ pc' = [pc EXCEPT !["host"] = "disconnect"]
          /\ UNCHANGED <<server, ret>>
      BY <2>1 DEF Listen
    <3> QED
      BY <3>1, <3>2
  <2>2. CASE Broken \/ Disconnect \/ DisconnectReset \/ OnDisconnect \/ AdvertiseAgain
    BY <2>2 DEF Broken, Disconnect, DisconnectReset, OnDisconnect, AdvertiseAgain
  <2> QED
    BY <1>6, <2>1, <2>2 DEF ServeDisconnection
<1>7. CASE ServeHost
  BY <1>7 DEF ServeHost, ResetAdvertising, Sync, ServeStop, Leave
<1>8. CASE Accept \/ TerminateFailed \/ HostReset \/ SyncFails \/ StopTimeout \/ LinkLost \/ Restart
  <2>1. CASE TerminateFailed
    <3>1. /\ stop'.listener => stop.listener
          /\ stop'.timer => stop.timer
          /\ enabled' = enabled \/ stop.listener
      BY <2>1, CountsDown, CountDownFacts
    <3>2. pc["host"] = "idle" /\ pc' = [pc EXCEPT !["host"] = "idle"] /\ UNCHANGED <<server, ret>>
      BY <2>1 DEF TerminateFailed
    <3> QED
      BY <3>1, <3>2
  <2>2. CASE Accept \/ HostReset \/ SyncFails \/ StopTimeout \/ LinkLost \/ Restart
    BY <2>2 DEF Accept, HostReset, SyncFails, StopTimeout, LinkLost, Restart, Boot, NoStop
  <2> QED
    BY <1>8, <2>1, <2>2
<1>9. ASSUME NEW t \in Tasks, Shared(t) PROVE Fresh'
  <2>1. CASE Reset(t)
    BY <1>9, <2>1 DEF Shared, Reset, ResetCheck, ResetStopAdv, ResetSvcInit,
       ResetRebuild, ResetDone, Fail, AdvStop
  <2>2. CASE Advertise(t)
    BY <1>9, <2>2 DEF Shared, Advertise, AdvertiseCheck, StartGatts, StartList,
       AdvertiseActive, AdvertiseOn, Fail
  <2> QED
    BY <1>9, <2>1, <2>2 DEF Shared
<1> QED
  BY <1>1, <1>2, <1>3, <1>4, <1>5, <1>6, <1>7, <1>8, <1>9 DEF Next, Main, Host, HostWork

\* While the window is open somebody keeps the device on the air.
LEMMA OnAirStep == Air /\ Next => OnAir'
<1> SUFFICES ASSUME Air, Next PROVE OnAir'
  OBVIOUS
<1> USE DEF Air, IInv, TypeOK, HostType, ServerType, ControlType, Returns,
           Handshake, Dormant, Procedures, Teardown, StopPhase, InSync, Fresh, Opening,
           ResetSteps, AdvertiseSteps, OnAir
<1>1. CASE Enable
  BY <1>1 DEF Enable, InitStack, AwaitSync, CreateServer, WindowOver, NoServer
<1>2. CASE RemoveServices
  BY <1>2 DEF RemoveServices, RemoveNext, ServiceChanged, Removed, Fail
<1>3. CASE StopStack
  BY <1>3 DEF StopStack, StopBegin, StopPreempt, StopRegister, StopTerminate, StopCount,
     StopCheck, StopArm, StopPost, StopServed
<1>4. CASE DeleteStack
  BY <1>4 DEF DeleteStack, Deinit, DeleteServer, DeleteAdvertising, SleepOver, NoServer, NoStop
<1>5. CASE ServeConnection
  BY <1>5 DEF ServeConnection, EndAdvertising, Insert, Connect, OnConnectStop, FlagConnected, AdvStop
<1>6. CASE ServeDisconnection
  BY <1>6 DEF ServeDisconnection, Broken, Listen, CountDown, Disconnect, DisconnectReset,
     OnDisconnect, AdvertiseAgain
<1>7. CASE ServeHost
  BY <1>7 DEF ServeHost, ResetAdvertising, Sync, ServeStop, Leave
<1>8. CASE Accept \/ TerminateFailed \/ HostReset \/ SyncFails \/ StopTimeout \/ LinkLost \/ Restart
  BY <1>8 DEF Accept, TerminateFailed, CountDown, HostReset, SyncFails, StopTimeout, LinkLost, Restart, Boot, NoStop
<1>9. ASSUME NEW t \in Tasks, Shared(t) PROVE OnAir'
  <2>1. CASE Reset(t)
    BY <1>9, <2>1 DEF Shared, Reset, ResetCheck, ResetStopAdv, ResetSvcInit,
       ResetRebuild, ResetDone, Fail, AdvStop
  <2>2. CASE Advertise(t)
    BY <1>9, <2>2 DEF Shared, Advertise, AdvertiseCheck, StartGatts, StartList,
       AdvertiseActive, AdvertiseOn, Fail
  <2> QED
    BY <1>9, <2>1, <2>2 DEF Shared
<1> QED
  BY <1>1, <1>2, <1>3, <1>4, <1>5, <1>6, <1>7, <1>8, <1>9 DEF Next, Main, Host, HostWork

\* At power-on nothing is removed, in sync or on the air.
LEMMA InitAir == Init => Air
<1> SUFFICES ASSUME Init PROVE Air
  OBVIOUS
<1> USE DEF Init, Boot
<1>1. Removal
  <2>1. WholeLast(todo)
    BY DEF WholeLast
  <2> QED
    BY <2>1 DEF Removal, Opening, Removing, Procedures
<1>2. InSync /\ Fresh /\ OnAir
  BY DEF InSync, Fresh, OnAir, Opening, Procedures, NoStop
<1> QED
  BY <1>1, <1>2, InitInvariant DEF Air

LEMMA StutterAir == Air /\ UNCHANGED vars => Air'
<1> SUFFICES ASSUME Air, UNCHANGED vars PROVE Air'
  OBVIOUS
<1>1. IInv'
  BY StutterInvariant DEF Air
<1>2. Removal' /\ InSync' /\ Fresh' /\ OnAir'
  BY DEF Air, vars, Removal, WholeLast, Unmarked, Opening, Removing, InSync, Fresh, OnAir
<1> QED
  BY <1>1, <1>2 DEF Air

\* The four parts hold with the first invariant in every reachable state.
THEOREM AirInvariance == Spec => []Air
<1>1. Air /\ [Next]_vars => Air'
  <2>1. Air /\ Next => IInv'
    BY HostTypeStep, ServerTypeStep, ControlTypeStep, StopTypeStep, AppTypeStep,
       ReturnsStep, PendingStep, HandshakeStep, DormantStep, FlagPhasesStep DEF Air, IInv, TypeOK
  <2>2. Air /\ Next => Air'
    BY <2>1, RemovalStep, InSyncStep, FreshStep, OnAirStep DEF Air
  <2> QED
    BY <2>2, StutterAir
<1> QED
  BY InitAir, <1>1, PTL DEF Spec

\* ~EnvironmentService and ~BatteryService never remove from a service that
\* resetGATT, run by either task, has deleted.
THEOREM RemovalsHitLive == Spec => []RemovalTargetsLive
<1>1. Air => RemovalTargetsLive
  <2> SUFFICES ASSUME Air, pc["main"] = "remove", todo # <<>>
               PROVE  Head(todo).service \notin freed
    BY DEF RemovalTargetsLive
  <2>1. Head(todo) = todo[1] /\ 1 \in 1 .. Len(todo)
    BY TailOrdered DEF Air, IInv, TypeOK, AppType, Removal, Removal1
  <2> QED
    BY <2>1 DEF Air, Removal, Unmarked
<1> QED
  BY AirInvariance, <1>1, PTL

\* No connection, disconnection or controller reset leaves the device silent
\* for the rest of its window, once it has started to advertise.
THEOREM WindowStaysOnAir == Spec => []WindowOnAir
<1>1. Air => WindowOnAir
  BY DEF Air, IInv, TypeOK, HostType, WindowOnAir, InSync, OnAir, Opening, AdvertiseSteps, Procedures
<1> QED
  BY AirInvariance, <1>1, PTL

=============================================================================
