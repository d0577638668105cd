----------------------------- MODULE DutyCycle ------------------------------
(***************************************************************************)
(* The duty cycle of the device (src/src/main.cpp): the main task brings   *)
(* Bluetooth up, publishes its two services, advertises for a while, takes *)
(* the services down, stops the stack and sleeps.  Meanwhile the NimBLE    *)
(* host task serves connections, disconnections, controller resets and the *)
(* stop procedure, and runs the application's callbacks                    *)
(* (src/src/hardware/Bluetooth.cpp) on the same objects.                   *)
(***************************************************************************)
EXTENDS GattServer

CONSTANTS
    Characteristics,  \* characteristics of each service
    CountRange        \* values of the host's uint8_t connection count

ASSUME CharacteristicsType == Characteristics \in [Services -> Nat \ {0}]
ASSUME CountRangeType == CountRange \in Nat \ {0, 1}

VARIABLES
    stop,       \* the stop procedure: count (ble_hs_stop_conn_cnt), listener
                \* and waiting (registered), timer (armed), sem
                \* (ble_hs_stop_sem), event (ble_hs_ev_stop queued)
    flags,      \* Bluetooth::connectionEvent: "connected", "disconnected"
    todo,       \* removals the destructors have still to make
    cut         \* the last connection ended with the stack, no callback told

vars == <<hostVars, serverVars, pc, ret, failure, stop, flags, todo, cut>>

appVars == <<flags, todo, cut>>

\* Mutation of TearDown: the service is removed before its characteristics.
TearDownServiceFirst(s) ==
    [i \in 1 .. Characteristics[s] + 1 |-> [service |-> s, whole |-> i = 1]]

\* ~EnvironmentService and ~BatteryService: the characteristics, then the service.
TearDown(s) ==
    [i \in 1 .. Characteristics[s] + 1 |->
        [service |-> s, whole |-> i > Characteristics[s]]]

Removals == TearDown("ENV") \o TearDown("BAT")

NoStop == [count |-> 0, listener |-> FALSE, waiting |-> FALSE, timer |-> FALSE,
           sem |-> 0, event |-> FALSE]

Boot == [t \in Tasks |-> IF t = "main" THEN "init" ELSE "halted"]

Init ==
    /\ enabled = "off" /\ good = FALSE /\ synced = FALSE /\ adv = FALSE /\ link = "none"
    /\ server = NoServer /\ advertiser = "none"
    /\ marked = {} /\ freed = Services /\ queued = [s \in Services |-> 0]
    /\ pc = Boot /\ ret = [t \in Tasks |-> "none"]
    /\ failure = "none"
    /\ stop = NoStop
    /\ flags = {} /\ todo = <<>> /\ cut = FALSE

-----------------------------------------------------------------------------
\* The main task: Bluetooth::enable and the services.

\* NimBLEDevice::init starts the host task, which enables the host and
\* begins to synchronise with the controller.
InitStack ==
    /\ pc["main"] = "init"
    /\ pc' = [main |-> "awaitSync", host |-> "sync"]
    /\ enabled' = "on"
    /\ UNCHANGED <<good, synced, adv, link, serverVars, ret, failure, stop, appVars>>

AwaitSync ==
    /\ pc["main"] = "awaitSync"
    /\ synced
    /\ Go("main", "create")
    /\ UNCHANGED <<hostVars, serverVars, ret, failure, stop, appVars>>

\* createServer, setCallbacks, getAdvertising and the two constructors: the
\* server has not been started, so nothing is reset.
CreateServer ==
    /\ pc["main"] = "create"
    /\ server' = [NoServer EXCEPT !.exists = TRUE]
    /\ advertiser' = "fresh"
    /\ marked' = {} /\ freed' = {}
    /\ queued' = [s \in Services |-> ServiceStart(s)]
    /\ Call("main", "advertise", "window")
    /\ UNCHANGED <<hostVars, failure, stop, appVars>>

\* After 30 s the services are deleted.
WindowOver ==
    /\ pc["main"] = "window"
    /\ todo' = Removals
    /\ Go("main", "remove")
    /\ UNCHANGED <<hostVars, serverVars, ret, failure, stop, flags, cut>>

\* removeCharacteristic, removeService: mark.  Of a service the handle is
\* looked up first, which fails while the host task is registering the
\* services anew: then nothing is marked.
RemoveNext ==
    /\ pc["main"] = "remove"
    /\ todo # <<>>
    /\ \/ /\ marked' = marked \cup {s \in {Head(todo).service} : Head(todo).whole}
          /\ Go("main", "changed")
          /\ UNCHANGED todo
       \/ /\ Head(todo).whole
          /\ pc["host"] \in {"start", "list"}
          /\ todo' = Tail(todo)
          /\ UNCHANGED <<marked, pc>>
    /\ UNCHANGED <<hostVars, server, advertiser, freed, queued, ret, failure,
                   stop, flags, cut>>

\* NimBLEServer::serviceChanged
ServiceChanged ==
    /\ pc["main"] = "changed"
    /\ server' = [server EXCEPT !.changed = @ \/ server.started]
    /\ IF server.started THEN Call("main", "reset", "removed")
                         ELSE Go("main", "removed") /\ UNCHANGED ret
    /\ UNCHANGED <<hostVars, advertiser, marked, freed, queued, failure, stop, appVars>>

\* removeService ends with service->getUUID().
Removed ==
    /\ pc["main"] = "removed"
    /\ \/ /\ todo' = Tail(todo)
          /\ Go("main", "remove")
          /\ UNCHANGED <<hostVars, serverVars, ret, failure>>
       \/ /\ Head(todo).whole /\ Head(todo).service \in freed
          /\ Fail("memory")
          /\ UNCHANGED todo
    /\ UNCHANGED <<stop, flags, cut>>

-----------------------------------------------------------------------------
\* The main task: Bluetooth::disable, NimBLEDevice::deinit, nimble_port_stop
\* and ble_hs_stop.

MainStep(from, to) ==
    /\ pc["main"] = from
    /\ Go("main", to)
    /\ UNCHANGED <<ret, failure>>

StopBegin ==
    /\ todo = <<>>
    /\ MainStep("remove", "preempt")
    /\ enabled' = "stopping"
    /\ stop' = [stop EXCEPT !.waiting = TRUE]
    /\ UNCHANGED <<good, synced, adv, link, serverVars, appVars>>

StopPreempt ==
    /\ MainStep("preempt", "register")
    /\ adv' = (adv /\ ~good)
    /\ UNCHANGED <<enabled, good, synced, link, serverVars, stop, appVars>>

StopRegister ==
    /\ MainStep("register", "terminate")
    /\ stop' = [stop EXCEPT !.listener = TRUE]
    /\ UNCHANGED <<hostVars, serverVars, appVars>>

\* The connection is told to end, and then counted.  One that is gone already
\* at the controller cannot be told, nor can any when the command fails or
\* ble_gattc_timer has told it before: it is not counted.
StopTerminate ==
    /\ \/ /\ link = "open" /\ good
          /\ MainStep("terminate", "count")
          /\ link' = "ending"
       \/ /\ MainStep("terminate", "await")
          /\ UNCHANGED link
    /\ UNCHANGED <<enabled, good, synced, adv, serverVars, stop, appVars>>

StopCount ==
    /\ MainStep("count", "await")
    /\ stop' = [stop EXCEPT !.count = (@ + 1) % CountRange]
    /\ UNCHANGED <<hostVars, serverVars, appVars>>

\* Mutation of Done: the listeners stay on their list.
DoneAgain(s) == [s EXCEPT !.timer = FALSE, !.listener = FALSE, !.sem = @ + 1]

\* ble_hs_stop_done: the listeners are taken off their list and called once.
Done(s) == [s EXCEPT !.timer = FALSE, !.listener = FALSE, !.waiting = FALSE,
                     !.sem = IF s.waiting THEN @ + 1 ELSE @]

\* The counter is read without the host lock, and the timer armed after it.
StopCheck ==
    /\ pc["main"] = "await"
    /\ IF stop.count > 0
       THEN Go("main", "arm") /\ UNCHANGED <<stop, enabled>>
       ELSE Go("main", "pend") /\ stop' = Done(stop) /\ enabled' = "off"
    /\ UNCHANGED <<good, synced, adv, link, serverVars, ret, failure, appVars>>

\* Mutation of StopArm: the timer is not armed.
StopUntimed ==
    /\ MainStep("arm", "pend")
    /\ UNCHANGED <<hostVars, serverVars, stop, appVars>>

StopArm ==
    /\ MainStep("arm", "pend")
    /\ stop' = [stop EXCEPT !.timer = TRUE]
    /\ UNCHANGED <<hostVars, serverVars, appVars>>

StopPost ==
    /\ MainStep("pend", "pendEvent")
    /\ stop.sem > 0
    /\ stop' = [stop EXCEPT !.sem = @ - 1, !.event = TRUE]
    /\ UNCHANGED <<hostVars, serverVars, appVars>>

StopServed ==
    /\ MainStep("pendEvent", "deinit")
    /\ stop.sem > 0
    /\ stop' = [stop EXCEPT !.sem = @ - 1]
    /\ UNCHANGED <<hostVars, serverVars, appVars>>

\* nimble_port_deinit and the controller: whatever is on the air ends.  The
\* connection count is not among what is initialised again.
Deinit ==
    /\ MainStep("deinit", "deleteServer")
    /\ enabled' = "off" /\ good' = FALSE /\ synced' = FALSE /\ adv' = FALSE /\ link' = "none"
    /\ queued' = [s \in Services |-> 0]
    /\ stop' = [NoStop EXCEPT !.count = stop.count]
    /\ UNCHANGED <<server, advertiser, marked, freed, appVars>>

DeleteServer ==
    /\ MainStep("deleteServer", "deleteAdvertising")
    /\ server' = NoServer
    /\ freed' = Services
    /\ cut' = (cut \/ server.peers)
    /\ UNCHANGED <<hostVars, advertiser, marked, queued, stop, flags, todo>>

DeleteAdvertising ==
    /\ MainStep("deleteAdvertising", "sleep")
    /\ advertiser' = "none"
    /\ UNCHANGED <<hostVars, server, marked, freed, queued, stop, appVars>>

\* The 60 s of sleep are more than the host task needs to end.
SleepOver ==
    /\ MainStep("sleep", "init")
    /\ pc["host"] = "halted"
    /\ UNCHANGED <<hostVars, serverVars, stop, appVars>>

Enable         == InitStack \/ AwaitSync \/ CreateServer \/ WindowOver
RemoveServices == RemoveNext \/ ServiceChanged \/ Removed
StopStack      == \/ StopBegin \/ StopPreempt \/ StopRegister \/ StopTerminate
                  \/ StopCount \/ StopCheck \/ StopArm \/ StopPost \/ StopServed
DeleteStack    == Deinit \/ DeleteServer \/ DeleteAdvertising \/ SleepOver

Shared(t) == (Reset(t) \/ Advertise(t)) /\ UNCHANGED <<stop, appVars>>

Main == Enable \/ RemoveServices \/ StopStack \/ DeleteStack \/ Shared("main")

-----------------------------------------------------------------------------
\* The host task.  It serves one event at a time.

HostStep(from, to) ==
    /\ pc["host"] = from
    /\ Go("host", to)
    /\ UNCHANGED <<ret, failure>>

\* A central answers the advertising (ble_gap_rx_conn_complete): accepted
\* while advertising is active, which then ends, and only then listed.
Accept ==
    /\ adv
    /\ HostStep("idle", "accepted")
    /\ UNCHANGED <<hostVars, serverVars, stop, appVars>>

EndAdvertising ==
    /\ HostStep("accepted", "insert")
    /\ adv' = FALSE
    /\ UNCHANGED <<enabled, good, synced, link, serverVars, stop, appVars>>

Insert ==
    /\ HostStep("insert", "connect")
    /\ link' = "open"
    /\ UNCHANGED <<enabled, good, synced, adv, serverVars, stop, appVars>>

\* The CONNECT event and Bluetooth::Callbacks::onConnect.
Connect ==
    /\ HostStep("connect", "onConnect")
    /\ server' = [server EXCEPT !.peers = TRUE]
    /\ UNCHANGED <<hostVars, advertiser, marked, freed, queued, stop, appVars>>

OnConnectStop ==
    /\ HostStep("onConnect", "flagConnected")
    /\ AdvStop
    /\ UNCHANGED <<enabled, good, synced, link, serverVars, stop, appVars>>

FlagConnected ==
    /\ HostStep("flagConnected", "idle")
    /\ flags' = (flags \ {"disconnected"}) \cup {"connected"}
    /\ cut' = FALSE
    /\ UNCHANGED <<hostVars, serverVars, stop, todo>>

\* The main task has the host lock from the command to the count.
Counting == pc["main"] = "count"

\* ble_gap_conn_broken: the connection is deleted under the host lock, then the
\* stop procedure and the server are told.
Broken ==
    /\ link = "lost" /\ ~Counting
    /\ HostStep("idle", "broken")
    /\ link' = "none"
    /\ UNCHANGED <<enabled, good, synced, adv, serverVars, stop, appVars>>

Less(n) == (n + CountRange - 1) % CountRange

\* ble_hs_stop_gap_event: the count is made less, stored as n, and ends the
\* stop at 0.
CountDown(n) ==
    LET told == [stop EXCEPT !.count = n]
    IN  IF ~stop.listener THEN UNCHANGED <<stop, enabled>>
        ELSE IF Less(stop.count) = 0 THEN stop' = Done(told) /\ enabled' = "off"
        ELSE stop' = told /\ UNCHANGED enabled

Listen ==
    /\ HostStep("broken", "disconnect")
    /\ CountDown(Less(stop.count))
    /\ UNCHANGED <<good, synced, adv, link, serverVars, appVars>>

\* The controller does not end the connection (TERM_FAILURE): the listener
\* takes it for a disconnection, the server for nothing.  No lock is taken, so
\* that two cores may count at once and one of the two counts be lost.
TerminateFailed ==
    /\ link = "ending"
    /\ HostStep("idle", "idle")
    /\ link' = "open"
    /\ LET n == Less(stop.count)
       IN  \E stored \in {n} \cup (IF Counting THEN {stop.count, Less(n)} ELSE {}) :
               CountDown(stored)
    /\ UNCHANGED <<good, synced, adv, serverVars, appVars>>

\* Mutation of Disconnect: the handle stays in m_connectedPeersVec.
DisconnectKeepingPeer ==
    /\ HostStep("disconnect", "erased")
    /\ synced' = (synced /\ good)
    /\ UNCHANGED <<enabled, good, adv, link, serverVars, stop, appVars>>

\* The DISCONNECT event: onReset, the handle, resetGATT if services changed.
Disconnect ==
    /\ HostStep("disconnect", "erased")
    /\ server' = [server EXCEPT !.peers = FALSE]
    /\ synced' = (synced /\ good)
    /\ UNCHANGED <<enabled, good, adv, link, advertiser, marked, freed, queued, stop, appVars>>

DisconnectReset ==
    /\ pc["host"] = "erased"
    /\ IF server.changed THEN Call("host", "reset", "onDisconnect")
                         ELSE Go("host", "onDisconnect") /\ UNCHANGED ret
    /\ UNCHANGED <<hostVars, serverVars, failure, stop, appVars>>

\* Mutation of OnDisconnect: the connected bit stays set.
OnDisconnectKeepingFlag ==
    /\ pc["host"] = "onDisconnect"
    /\ flags' = flags \cup {"disconnected"}
    /\ cut' = FALSE
    /\ Call("host", "advertise", "again")
    /\ UNCHANGED <<hostVars, serverVars, failure, stop, todo>>

\* Bluetooth::Callbacks::onDisconnect, and then m_advertiseOnDisconnect.
OnDisconnect ==
    /\ pc["host"] = "onDisconnect"
    /\ flags' = (flags \ {"connected"}) \cup {"disconnected"}
    /\ cut' = FALSE
    /\ Call("host", "advertise", "again")
    /\ UNCHANGED <<hostVars, serverVars, failure, stop, todo>>

AdvertiseAgain ==
    /\ pc["host"] = "again"
    /\ Call("host", "advertise", IF good THEN "idle" ELSE "resetAdv")
    /\ UNCHANGED <<hostVars, serverVars, failure, stop, appVars>>

\* ble_hs_reset: the controller failed.  The connection is broken with the
\* reset as its reason, then advertising ends and the host is unsynced.
HostReset ==
    /\ ~Counting
    /\ HostStep("idle", IF link = "none" THEN "resetAdv" ELSE "broken")
    /\ link' = "none"
    /\ good' = FALSE
    /\ UNCHANGED <<enabled, synced, adv, serverVars, stop, appVars>>

ResetAdvertising ==
    /\ HostStep("resetAdv", "sync")
    /\ adv' = FALSE
    /\ synced' = FALSE
    /\ UNCHANGED <<enabled, good, link, serverVars, stop, appVars>>

\* ble_hs_sync and NimBLEDevice::onSync, which restarts the advertising that
\* was started for ever.  When it fails, the timer resets the host again.
Sync ==
    /\ pc["host"] = "sync"
    /\ good' = TRUE
    /\ synced' = TRUE
    /\ IF advertiser = "forever" THEN Call("host", "advertise", "idle")
                                 ELSE Go("host", "idle") /\ UNCHANGED ret
    /\ UNCHANGED <<enabled, adv, link, serverVars, failure, stop, appVars>>

SyncFails ==
    /\ HostStep("sync", "idle")
    /\ UNCHANGED <<hostVars, serverVars, stop, appVars>>

SyncRetry == HostReset /\ ~synced /\ enabled = "on"

\* ble_hs_stop_terminate_timeout_cb, at any step of the host task: a callout made
\* of a FreeRTOS timer has no queue, and its function runs in the timer task.
StopTimeout ==
    /\ failure = "none"
    /\ stop.timer
    /\ stop' = Done(stop)
    /\ enabled' = "off"
    /\ UNCHANGED <<good, synced, adv, link, serverVars, pc, ret, failure, appVars>>

\* nimble_port_stop_cb, the last event that nimble_port_run serves before it
\* leaves its loop and the task deletes itself.
ServeStop ==
    /\ stop.event
    /\ HostStep("idle", "leaving")
    /\ stop' = [stop EXCEPT !.event = FALSE, !.sem = @ + 1]
    /\ UNCHANGED <<hostVars, serverVars, appVars>>

Leave ==
    /\ HostStep("leaving", "halted")
    /\ UNCHANGED <<hostVars, serverVars, stop, appVars>>

ServeConnection    == EndAdvertising \/ Insert \/ Connect \/ OnConnectStop \/ FlagConnected
ServeDisconnection == \/ Broken \/ Listen \/ Disconnect \/ DisconnectReset
                      \/ OnDisconnect \/ AdvertiseAgain
ServeHost          == ResetAdvertising \/ Sync \/ ServeStop \/ Leave

HostWork == ServeConnection \/ ServeDisconnection \/ ServeHost \/ Shared("host")

Host == HostWork \/ Accept \/ TerminateFailed \/ HostReset \/ SyncFails

-----------------------------------------------------------------------------
\* The connection ends: the central leaves, is out of range, or the
\* controller did what StopTerminate told it.
LinkLost ==
    /\ link \in {"open", "ending"} /\ failure = "none"
    /\ link' = "lost"
    /\ UNCHANGED <<enabled, good, synced, adv, serverVars, pc, ret, failure, stop, appVars>>

\* assert, abort and a memory fault restart the chip.
Restart ==
    /\ failure # "none"
    /\ enabled' = "off" /\ good' = FALSE /\ synced' = FALSE /\ adv' = FALSE /\ link' = "none"
    /\ server' = NoServer /\ advertiser' = "none"
    /\ marked' = {} /\ freed' = Services /\ queued' = [s \in Services |-> 0]
    /\ pc' = Boot /\ ret' = [t \in Tasks |-> "none"]
    /\ failure' = "none"
    /\ stop' = NoStop
    /\ flags' = {} /\ todo' = <<>> /\ cut' = FALSE

Next ==
    \/ Main \/ Host \/ StopTimeout \/ LinkLost \/ Restart

Spec == Init /\ [][Next]_vars

\* Each task runs when it can.  AwaitSync polls, and a controller does not
\* fail again before every poll; a controller that is reset is in the end
\* reset with success; the timer task runs; and the stop event is in a queue
\* that is served in order, so that no other event overtakes it for ever.
FairSpec ==
    /\ Spec
    /\ WF_vars(Main) /\ SF_vars(AwaitSync)
    /\ WF_vars(HostWork) /\ SF_vars(Sync) /\ WF_vars(SyncRetry)
    /\ WF_vars(StopTimeout) /\ SF_vars(ServeStop)
    /\ WF_vars(Restart)

-----------------------------------------------------------------------------
\* Properties

Procedures == {"reset", "stopAdv", "svcInit", "rebuild", "reset2",
               "advertise", "start", "list", "advActive", "advOn"}

\* The host task serves no event any more.
Stopped == {"leaving", "halted"}

Teardown == {"deinit", "deleteServer", "deleteAdvertising", "sleep"}

MainLabels == Procedures \cup Teardown \cup
    {"dead", "init", "awaitSync", "create", "window", "remove", "changed", "removed",
     "preempt", "register", "terminate", "count", "await", "arm", "pend", "pendEvent"}

HostLabels == Procedures \cup
    {"dead", "leaving", "halted", "idle", "sync", "accepted", "insert", "connect",
     "onConnect", "flagConnected", "broken", "disconnect", "erased", "onDisconnect", "again", "resetAdv"}

StopType ==
    [count : 0 .. CountRange - 1, listener : BOOLEAN, waiting : BOOLEAN,
     timer : BOOLEAN, sem : {0, 1}, event : BOOLEAN]

HostType ==
    /\ enabled \in {"off", "on", "stopping"}
    /\ good \in BOOLEAN /\ synced \in BOOLEAN /\ adv \in BOOLEAN
    /\ link \in {"none", "open", "ending", "lost"}

ServerType ==
    /\ server \in [exists : BOOLEAN, peers : BOOLEAN, started : BOOLEAN, changed : BOOLEAN]
    /\ advertiser \in {"none", "fresh", "forever"}
    /\ marked \subseteq Services /\ freed \subseteq Services
    /\ queued \in [Services -> 0 .. 2]

ControlType ==
    /\ pc \in [Tasks -> MainLabels \cup HostLabels]
    /\ pc["main"] \in MainLabels /\ pc["host"] \in HostLabels
    /\ ret \in [Tasks -> {"none"} \cup MainLabels \cup HostLabels]
    /\ failure \in {"none", "assert", "abort", "memory"}

AppType ==
    /\ flags \subseteq {"connected", "disconnected"}
    /\ todo \in Seq([service : Services, whole : BOOLEAN])
    /\ cut \in BOOLEAN

\* The state of the host, of the objects, of both tasks, of the stop
\* procedure, whose semaphore never counts two completions, and of the
\* application.
TypeOK == HostType /\ ServerType /\ ControlType /\ stop \in StopType /\ AppType

\* deinit frees what the host task uses, so it may begin only when
\* nimble_port_run serves no event any more: the two waits of nimble_port_stop, on one
\* semaphore that two contexts release, must not be satisfied early.
HaltedBeforeTeardown == pc["main"] \in Teardown => pc["host"] \in Stopped

\* While the window is open and the host task at rest, a device that has
\* started advertising can be reached or is being used: no connection,
\* disconnection or controller reset leaves it silent for the rest of the
\* 30 s.
WindowOnAir ==
    pc["main"] = "window" /\ pc["host"] = "idle" /\ synced /\ advertiser = "forever"
        => adv \/ link # "none"

\* connectionEvent says "connected" exactly while the server has a peer,
\* whatever connections, disconnections and resets the host task went
\* through; but for a connection that ended with the stack, of which no
\* callback tells.
FlagTracksLink ==
    pc["host"] \in {"idle"} \cup Stopped /\ ~cut => ("connected" \in flags <=> server.peers)

\* The destructors remove the characteristics of services that exist, though
\* each removal may run resetGATT, which deletes what is marked.
RemovalTargetsLive ==
    pc["main"] = "remove" /\ todo # <<>> => Head(todo).service \notin freed

\* What makes HaltedBeforeTeardown and FlagTracksLink inductive.

StopPhase == {"preempt", "register", "terminate", "count", "await", "arm", "pend"}

\* A procedure returns to one of its callers.
Returns ==
    /\ pc["main"] \in Procedures => ret["main"] \in {"window", "removed"}
    /\ pc["host"] \in Procedures => ret["host"] \in {"onDisconnect", "again", "idle", "resetAdv"}

\* While a removal runs it is still to do.
Pending ==
    \/ pc["main"] \in {"changed", "removed"}
    \/ pc["main"] \in Procedures /\ ret["main"] = "removed"
    => todo # <<>>

\* One semaphore, two waits: the completion is signalled once, and a signal
\* seen by the second wait is the last thing the host task did.
Handshake ==
    /\ stop.waiting => stop.sem = 0 /\ pc["main"] \in StopPhase \cup {"dead"}
    /\ stop.event => stop.sem = 0 /\ ~stop.waiting /\ pc["main"] \in {"pendEvent", "dead"}
    /\ pc["main"] = "pendEvent" => ~stop.waiting /\ (stop.event \/ pc["host"] \in Stopped)
    /\ pc["main"] \notin StopPhase \cup {"pendEvent", "dead"} => stop.sem = 0
    /\ pc["main"] \in Teardown => pc["host"] \in Stopped
    /\ pc["main"] = "init" => pc["host"] = "halted"

\* Before there is a server nothing is on the air and no callback can run.
Dormant ==
    /\ pc["main"] \in {"deleteServer", "deleteAdvertising", "sleep", "init", "awaitSync", "create"}
           => ~adv /\ link = "none"
    /\ pc["main"] \in {"deleteAdvertising", "sleep", "init", "awaitSync", "create"}
           => ~server.peers
    /\ pc["main"] \in {"sleep", "init", "awaitSync", "create"} => advertiser = "none"
    /\ pc["main"] \in {"awaitSync", "create"} => pc["host"] \in {"sync", "idle", "resetAdv"}

\* The host task is between the handle and the flag.
Connecting    == pc["host"] \in {"onConnect", "flagConnected"}
Disconnecting ==
    \/ pc["host"] \in {"erased", "onDisconnect"}
    \/ pc["host"] \in Procedures /\ ret["host"] = "onDisconnect"

FlagPhases ==
    /\ Connecting => server.peers
    /\ Disconnecting => ~server.peers
    /\ ~Connecting /\ ~Disconnecting /\ pc["host"] # "dead" /\ ~cut
           => ("connected" \in flags <=> server.peers)

IInv == TypeOK /\ Returns /\ Pending /\ Handshake /\ Dormant /\ FlagPhases

\* What makes RemovalTargetsLive inductive.

\* A service is removed after its characteristics: a removal of a service is
\* the last that touches it.
WholeLast(s) ==
    \A i, j \in 1 .. Len(s) : i < j /\ s[i].whole => s[j].service # s[i].service

Unmarked(i) == todo[i].service \notin marked

Opening  == \/ pc["main"] = "window"
            \/ pc["main"] \in Procedures /\ ret["main"] = "window"
Removing == \/ pc["main"] \in {"changed", "removed"}
            \/ pc["main"] \in Procedures /\ ret["main"] = "removed"

\* resetGATT deletes only what is marked, and no service is marked while a
\* removal that touches it has still to begin.
Removal ==
    /\ WholeLast(todo)
    /\ Opening \/ Removing \/ pc["main"] = "remove" => freed \subseteq marked
    /\ Opening => marked = {}
    /\ pc["main"] = "remove" => \A i \in 1 .. Len(todo) : Unmarked(i)
    /\ Removing => /\ \A i \in 2 .. Len(todo) : Unmarked(i)
                   /\ ~Head(todo).whole => Unmarked(1)

\* What makes WindowOnAir inductive.

ResetSteps     == {"reset", "stopAdv", "svcInit", "rebuild", "reset2"}
AdvertiseSteps == Procedures \ ResetSteps

\* The host is in sync, and NimBLEDevice knows it, but between a failure of
\* the controller and the handlers that tell of it.
InSync ==
    /\ pc["main"] \in {"deleteServer", "deleteAdvertising", "sleep", "init"} => ~synced
    /\ good => synced
    /\ synced /\ ~good => pc["host"] \in {"broken", "disconnect", "resetAdv", "dead"}
    /\ pc["host"] \in {"resetAdv", "sync"} => ~good
    /\ pc["host"] \in Procedures /\ ret["host"] = "resetAdv" => ~good
    /\ pc["host"] \in Procedures /\ ret["host"] = "idle" => good

\* Nothing of an earlier stop is left, and the services have not changed.
Fresh ==
    /\ pc["main"] \in {"awaitSync", "create"} \/ Opening
           => enabled = "on" /\ ~stop.listener /\ ~stop.timer
    /\ pc["main"] \in {"sleep", "init", "deleteServer", "deleteAdvertising"}
           => ~stop.listener /\ ~stop.timer
    /\ Opening => /\ ~server.changed
                  /\ pc["main"] \notin ResetSteps /\ pc["host"] \notin ResetSteps
                  /\ pc["host"] \in Procedures => ret["host"] # "onDisconnect"

\* While the window opens and is open: a connection is listed where the host
\* task takes it to be, and advertising that has once been started is on, or
\* one of the tasks is about to start it.
OnAir ==
    Opening =>
        /\ pc["host"] = "accepted" => adv
        /\ pc["host"] \in {"connect", "onConnect", "flagConnected"} => link # "none"
        /\ server.peers => link # "none" \/ pc["host"] \in {"broken", "disconnect"}
        /\ advertiser = "forever" /\ good /\ ~adv /\ link = "none"
               => \/ pc["main"] = "advOn"
                  \/ pc["host"] \in {"insert", "broken", "disconnect", "erased",
                                    "onDisconnect", "again"} \cup AdvertiseSteps

\* Whatever connects, leaves, stays out of range or fails, the device comes
\* back to its advertising window: enabling, tearing down and stopping end.
CycleRecurs == []<>(pc["main"] = "window")

\* ble_svc_gap.c:299: registering the GAP service in resetGATT succeeds.
GapServiceRegisters == failure # "assert"

\* ble_hs_stop.c:39: ble_hs_stop_conn_cnt tracks the number of connections
\* (to wait for): when no stop is under way there is none.
StopCountTracks == pc["main"] = "remove" => stop.count = 0

\* NimBLEServer.cpp:639: removeService takes the service out of the
\* advertisements, by the UUID it reads from the service.
RemovedServiceReadable ==
    pc["main"] = "removed" /\ Head(todo).whole => Head(todo).service \notin freed

\* ble_hs_stop.h:49: the stop procedure aborts all active GAP procedures:
\* when it has ended nothing is advertised.
StoppedIsSilent == enabled = "off" => ~adv
=============================================================================
