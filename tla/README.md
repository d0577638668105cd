# TNET HCI CORE: verification project

TLA+ models of the firmware in `src/`, the TLC configurations that check them on
small instances, and theorems about them that TLAPS proves for all values of the
constants.

The firmware runs on an ESP32-S3. It samples an environmental sensor and a fuel
gauge, and once in about 90 s it brings up Bluetooth LE, publishes the readings as
a GATT server for 30 s, takes the whole stack down again and sleeps for 60 s.
Nobody who tests it by hand sees what is difficult about it: the same C++ objects
are used by the Arduino main task and by the NimBLE host task without a lock, the
stack is stopped while centrals come and go, and a semaphore is all that keeps
periodic tasks from the code that pauses or destroys them.

## 1. Inventory

| Component | State it keeps | Operations | Correct when |
|---|---|---|---|
| `Microservice` (`src/src/service/Microservice.cpp`) | task handle, binary semaphore, operation, interval | construct, `start`, the task's loop, `suspend`, `resume`, destroy | the operation and a suspension never overlap; the token is neither lost nor doubled; a suspended task is not killed in mid-operation; everybody gets a turn |
| Duty cycle (`src/src/main.cpp`) | the two services | `loop()`: enable, publish, advertise, remove, disable, sleep | the cycle always returns to its window; nothing freed is used |
| `Bluetooth` (`src/src/hardware/Bluetooth.cpp`) | `server`, `advertising`, `connectionEvent` | `enable`, `disable`, `onConnect`, `onDisconnect` | the event bits agree with the connection; the device is reachable in its window |
| `NimBLEServer`, `NimBLEService`, `NimBLEAdvertising`, `NimBLEDevice` | services, peers, `m_gattsStarted`, `m_svcChanged`, `m_removed`, `m_duration`, `m_synced` | `start`, `resetGATT`, `serviceChanged`, `removeService`, `removeCharacteristic`, advertising `start`/`stop`/`onHostSync`, `init`, `deinit`, `onSync`, `onReset`, GAP events | a reset of the server happens only while the attribute database may change; a removed service is not used |
| NimBLE host: stop (`ble_hs_stop.c`, `nimble_port.c`) | enabled state, listeners, connection count, timer, semaphore, last event | `nimble_port_stop`, `nimble_port_run`, `ble_hs_stop` and its callbacks | the host task has stopped before what it uses is freed; a stop ends even with a central out of range |
| NimBLE host: GAP, sync, GATT registration (`ble_gap.c`, `ble_hs.c`, `ble_gatts.c`) | advertising, the connection, sync state, service definitions | advertise, accept, disconnect, reset, sync, register | a service is registered only while nothing is advertised or connected |
| `Haptics` (`src/src/hardware/Haptics.cpp`) | mutex, motor output | `play` | one effect at a time, motor off at the end |
| `Touch` (`src/src/hardware/sensor/Touch.cpp`) | interrupt and touch event groups, `lastEvent` | interrupt, classify a press, pulse | no press is lost to the task or told twice; a double press is the second of two |
| `NotificationService` | a characteristic, an event processor | wait for a touch event, notify | no event is missed |
| `EnvironmentService`, `BatteryService` | characteristics | construct, `refresh`, destroy | what is published is what was sampled, in the documented unit |
| `BME688` | sensor, six stored values | a sampling operation in a `Microservice` | what is read together was measured together, and never goes back |
| `MAX17048` | gauge, two stored values | the same, with a check for 0 | |
| `Persistent` | flash keys | `get`, `set` | a value survives a restart as a whole |
| `Observable` | value, observers | never instantiated | |
| BSEC2 wrapper (`src/lib/BSEC2/src/BSEC2.cpp`) | `nextCall`, clock overflow counter, outputs | `run`, `getTimeMs`, `readProcessData` | the clock is monotonic; a failed call is not taken for a sample |
| NimBLE host: HCI commands (`ble_hs_hci.c`, `ble_hs_hci_cmd.c`, `esp_nimble_hci.c`) | mutex, semaphore, `ble_hs_hci_ack`, event buffers, `vhci_send_sem` | `cmd_tx`, `rx_ack`, `rx_evt`, the transport | a command is answered with its own acknowledgement, or given up; no buffer is lost or freed twice |
| NimBLE host: outgoing data (`ble_hs_hci.c`, `ble_hs.c`, `ble_hs_hci_evt.c`, `ble_l2cap.c`) | free buffers of the controller, and of each connection its queue, its packets outstanding and `TX_FRAG` | `acl_tx`, `acl_tx_now`, `wakeup_tx`, completed packets, disconnection, reset | the controller is not overrun; no queue is forgotten; packets go in order and whole |
| NimBLE host: indications (`ble_gatts.c`, `ble_gattc.c`) | of each connection its configuration and the indication outstanding; the procedures | `chr_updated`, `schedule_update`, `send_next_indicate`, `rx_indicate_ack`, timeout, `connection_broken` | one indication outstanding; every change is told to who subscribed |
| Event queues (`npl_os_freertos.c`, `ble_mqueue.c`, `ble_hs.c`) | queue, the `queued` flag of each event, `ble_hs_rx_q` | put, get, the handlers | an event put is handled, and is queued once |
| u-blox GNSS library, rest of NimBLE, tinycrypt | | third-party, mostly unused by `src/src` | |

How they interact:

- `main.cpp` calls `Bluetooth`, which calls `NimBLEDevice`. The services create and
  remove GATT objects through `NimBLEServer`. All of this is the **main task**.
- The **host task** (`NimBLEDevice::host_task`, on the other core) serves the queue of
  the NimBLE host: HCI events, timers, the stop event. It calls back into
  `NimBLEServer::handleGapEvent` and `Bluetooth::Callbacks`, which call
  `NimBLEAdvertising` and `resetGATT` on the objects the main task is using.
- The **controller's task** puts received packets and events into the host's queue, and
  acknowledges HCI commands directly (`ble_hs_hci_rx_ack`), to whichever task waits.
- The **timer task** of FreeRTOS runs the functions of callouts (`npl_os_freertos.c:767`):
  the timeout of a GATT procedure, the end of a stop that took too long, the retry of a
  reset. NimBLE means them for the host task (section 6).
- The host's own state is under the host lock, one call at a time; the NimBLE-CPP
  objects and the application's are under none.
- Each sensor, the touch processor and the notification processor are tasks of their
  own, made from `Microservice`. They share the I2C bus, the haptics and flash.

The hard behaviours are listed with their lines under `hazards` in `PROJECT.json`.

## 2. Plan

In the order of what matters most to the device:

1. `Microservice`, with the abstract `PausableTask` it implements: every other task
   is one of these. **Done, checked and proved.**
2. `GattServer` and `DutyCycle`: the two tasks on the Bluetooth objects and the stop
   procedure of the host. **Done, checked; all of its safety proved.**
3. `Haptics` and `Touch`, composed: mutex and motor, press classification with a clock
   that wraps, the event pulse. **Done, checked and proved.**
4. `Hci`, with the abstract `SerialCommands` it implements: commands and their
   acknowledgements, with timeouts. **Done, checked and proved.**
5. `AclFlow`: outgoing data and the controller's buffers. **Done, checked and proved.**
6. `Sampling`: the BSEC2 clock and schedule, the samples stored one reading at a time,
   and their publication. **Done, checked and proved.**
7. `Indications`: the change of the services on its way to the central, and the event
   queue. **Done, checked and proved.**

What a next step would take up: `NotificationService` (the wait for the pulse of `Touch`,
the notification, `m_notifyChrVec`), bonded centrals and their stored configuration, the
shared I2C bus, the units of the attributes, the retry of a reset in the timer task.
Every safety property of a passing run is proved. Of what is checked, the liveness is left to
TLC ("proved" above speaks of the safety properties).

## 3. Modules

`PausableTask` is what a `Microservice` promises its owner: a turn that is free, or
held by the operation, or by one controller. `Microservice` is the code. Its actions
are the statements of the task's loop (`TaskTake`, `OperationReturns`, `TaskGive`,
`IntervalOver`) and the calls of the class (`Start`, `SuspendCall`, `SuspendReturn`,
`Resume`, `DeleteTask`, `DeleteMissingTask`, `DeleteSemaphore`); `Take` and `Give` are
FreeRTOS' binary semaphore. `xTaskCreate` may fail without anybody noticing, and then
the destructor deletes a task that does not exist. Callers keep to the order the class
is written for: they resume what they suspended, and do not destroy the object while
another call is inside.

`GattServer` has the state of the host, of the server and of the advertising object,
and the two procedures that **both** tasks run: `Reset(t)` is `resetGATT()` and
`Advertise(t)` is `NimBLEAdvertising::start()`, one action per access to shared
state. `pc[t]` is where task `t` is, `ret[t]` the point to which a procedure returns.
What an action does to the host is atomic when the code holds the host lock over it,
and split where it does not (`AdvertiseActive` is the check of
`ble_gap_adv_start` outside the lock, `AdvertiseOn` what it does inside).

`DutyCycle` is the program of the two tasks. The main task: `Enable` (init, await the
sync, create), the window, `RemoveServices` (the destructors' removals, each of which
may run `resetGATT`), `StopStack` (`nimble_port_stop` and `ble_hs_stop`),
`DeleteStack`, sleep. The host task serves one event at a time: `ServeConnection`,
`ServeDisconnection` (with the callbacks of `Bluetooth`), a controller reset and the
sync after it, the stop event. The timer task ends a stop that takes too long
(`StopTimeout`), between any two steps of the others. A connection is told to end and
counted under the host lock (`StopTerminate`, `StopCount`); the command may fail, and then
it is not counted. `ble_hs_stop_gap_event` counts down (`CountDown`) for a disconnection
(`Listen`) and for a refusal of one (`TerminateFailed`, TERM_FAILURE), after which the link
is still open. The refusal takes no lock, so that the two cores may count at once and one
of the counts be lost. The environment is the
central (`Accept`, `LinkLost`), the controller (`HostReset`, `SyncFails`) and the chip
(`Restart`).

The retry of a failed sync (`SyncRetry`) is a step of the host task in the model. In this
build it runs in the timer task; that it may run while `deinit` frees what it uses is not
modelled.

Three kinds of failure end in `Restart`, as on the device: `assert` (a service could
not be registered), `abort` (`NimBLEServer::start`) and `memory`. The last one stands
for undefined behaviour: two tasks in `m_svcVec` at once, a service definition queued
twice or deleted while it is queued, a deleted service that is read. Wherever one of
them is possible the model takes either the failure or the outcome in which memory
happens to be still intact.

| In the model | In the code |
|---|---|
| `enabled`, `good` | `ble_hs_enabled_state`, `ble_hs_sync_state == GOOD` |
| `synced` | `NimBLEDevice::m_synced` |
| `adv` | `ble_gap_slave[0].op` is advertising |
| `link` | the entry in `ble_hs_conns`: none, open, told by the stop to end, or gone at the controller and its event pending |
| `server` | `m_pServer`; `m_connectedPeersVec` not empty, `m_gattsStarted`, `m_svcChanged` |
| `advertiser` | `m_bleAdvertising`; `"forever"` once `m_duration = 0` |
| `marked`, `freed` | `m_removed == NIMBLE_ATT_REMOVE_DELETE`; the service was deleted |
| `queued` | occurrences in `ble_gatts_svc_defs` |
| `stop` | `ble_hs_stop_conn_cnt`, `ble_hs_stop_gap_listener`, `ble_hs_stop_listeners`, `ble_hs_stop_terminate_tmo`, `ble_hs_stop_sem`, `ble_hs_ev_stop` |
| `flags` | the bits of `Bluetooth::connectionEvent` |
| `todo` | the rest of the destructors' calls |
| `cut` | no state of the code: the last connection ended with the stack, so that no callback told of it |

`Haptics` is the motor and its players: `Play(p, e)` calls `play()`, and each step inside
is one write of the pin, one delay or one end of the mutex. A vibration above 85 starts
soft (`VibrateSoft`, then `VibrateFull`), a weaker one does not (`VibrateWeak`). `Scale`
is `scale()` with the bounds `vibrate()` gives it. An effect is the sequence of its
amplitudes; durations are left open, because the mutex is all that orders two players. In
this version the touch task is the one caller of `play()`; several players are what the
class, with its mutex, is written for.

`Touch` is the pad, its interrupt and the task "TEP", with the motor of `Haptics` as
`Motor` (the task is its one player). The interrupt comes on both edges, and
`xEventGroupSetBitsFromISR` only posts a command to the timer task (`posted`), which sets
the bit later (`TimerSetsBit`). The operation is `WaitInterrupt`, `Startpoint`,
`ClassifyPress`, `Vibrate`, `PlayReturns`, `NoteShortPress`, `SetBits`, `ClearBits`;
`IntervalOver` is the delay of the `Microservice`, which nobody suspends here. `clock` is
`millis()`; it wraps, and `Elapsed` is the unsigned difference. `untold`, `shortPress` and
`age` are history: a press that was not classified yet, and the time since the last
`lastEvent = millis()` counted without wrapping. The clock runs on between any two steps,
except that a finger which is off is seen to be off within `SHORT_PRESS`: the task polls
every 5 ms at priority 10, and 15 ms is what `SHORT_PRESS` allows it. Without this, the
release of a press could be taken for another. The timer task's queue is assumed to be
full only of this interrupt's commands.

`Hci` is one command at a time. `Call` to `Unlock` are the steps of a task in
`ble_hs_hci_cmd_tx`; `FreeAck` and `ClearAck` are two, because the controller's task may
store an acknowledgement between them. `RxCheck`, `RxStore` and `RxRelease` are the three
of `ble_hs_hci_rx_ack` in the controller's task. The controller may lose a command
(`LoseCommand`) or answer it at any later time, with a response that is full, short, long
or an error, so that an answer can come after its command was given up. `live` and
`late` are history: an acknowledgement is live until the next command is sent, and `late`
says that one may have come, or may yet come, after its command had ended. `DataPacket`
takes and returns the transport's semaphore as `ble_hci_trans_hs_acl_tx` does. A read
through NULL and an empty pool of event buffers restart the chip.

`SerialCommands` is what the callers of `ble_hs_hci_cmd_tx` may rely on, without mutex,
semaphore or pointers: a task waits its turn, its command is answered or not, and the call
returns the controller's answer to it, or that there was none. A command that is given up
leaves a reset to come. Only where it may yet be answered is `late` raised, and then alone
may a later call return another's answer (`Stray`) or the chip start again (`Restart`).

`AclFlow` sends packets from any task (`Send`, under the host mutex, so one step) and from
the host task that serves the queues (`WakeupTx` to `WakeDone`). `TxAll`, `TxSome` and
`TxFails` are the outcomes of `ble_hs_hci_acl_tx_now`: all fragments sent, no more buffers
or a refusal of the transport after some, a failure. A handle is used again after its
connection ended; a connection that a reset has deleted in the host may still live in the
controller, which then reports its end to a host that does not know it; what is sent on a
link that is gone the controller discards. The controller may refuse a disconnection
(`RefuseDisconnect`), whose event the host counts as if it were one. Abstracted: the
order of `ble_hs_conns` is open; the contents of packets. `mem_split_frag` always finds
memory: `ble_hs_hci_frag_alloc` takes it from a pool of one block, before it asks msys, and
the block is free again before the next fragment, all under the host mutex. If it did not,
the code would keep the remainder and return EAGAIN with buffers free
(`ble_hs_hci.c:516-519`), and nobody would wake the queue; `NoLostWakeup` and `QueuesMove`
rest on its not happening. `TxFails` is a failure of the header or of the transport.

`Sampling` has two tasks and flash. The BME task runs BSEC2 (`Measure`, with the clock of
`getTimeMs` and a measurement that may fail, give some outputs or all), then puts one
reading per step (`Store`), then waits (`IntervalOver`, the only action in which time
passes, between `Interval` and `MaxGap`). The main task creates it, publishes one attribute
per step (`Publish`) and deletes nothing: a `Restart` may come at any point and keeps only
flash. A reading is known by two numbers, the sample it was stored with and the one it was
measured for, because a run without a result stores the outputs again, or the zeros of
`zeroOutputs`. Two attributes publish an address (section 6), so the properties speak of
the others (`Readable`).

`Indications` is the Service Changed characteristic, the only one of this firmware that is
indicated. The main task marks a change (`Change`) and puts an event in three steps
(`PutCheck`, `PutSet`, `PutSend`); the controller's task does the same for packets and puts
an event of its own for a connection and for a disconnection; the host task takes an event,
clears its flag and handles it. `Schedule`, `Transmit` and `Record` are the host's way from
the event to the indication, `Drained`, `NextPacket`, `Confirm`, `Acknowledge`, `SendNext`
and `Write` that of a packet (`Process`; `Discard` never happens, which is `NoneDiscarded`),
`FreeConfiguration`, `FailProcedures` and `Delete` that of a disconnection, in which the
connection is in the list without its configuration for a while. `Timeout` is the timer
task's. It asks for the end of the link and does not look at the result: the host or the
controller may refuse (`EndRefused`), and the connection then lives on with its indication
outstanding for ever (`refused`, history). `due` is history: a central that is subscribed
has not been told of a change. Only the main task marks changes, only the controller's puts
packets. The central conforms: it confirms what it was sent, once. Left out: resets of the
host, bonding and the configuration that would be stored with it, notifications, other
procedures. `ENOMEM` is `NotTransmitted`.

What is abstracted in the first two: the values of characteristics, notifications,
the contents of the advertisement, the ATT database (a service is queued for it or
not). `set_visibility` finds no handle only while the host task registers the services
again. `ble_gap_preempt` and `ble_gap_preempt_done` are one step. A connection that
the host refuses (the advertising was stopped before the controller's event came) is
left to the controller and not modelled. Time is not modelled: the 30 s and 60 s may
take any number of steps of the other task, except that the 60 s of sleep are enough
for the host task to end.

## 4. What the runs check

| Run | Instance | Shows |
|---|---|---|
| `microservice` | `MCMicroservice.cfg`: four controllers | `Exclusion`, `TokenConserved`; `SuspendReturns` and `OperationRecurs` under fairness; refinement of `PausableTask` |
| `duty_cycle` | `MCDutyCycle.cfg`: 6 and 2 characteristics, as the firmware has, count modulo 4 | `HaltedBeforeTeardown`, `WindowOnAir`, `FlagTracksLink`, `RemovalTargetsLive`; no deadlock; `CycleRecurs` under fairness |
| `haptics` | `MCHaptics.cfg`: three players, the firmware's two effects and a weak one | `MotorFollowsEffect`; `MotorStops` under fairness |
| `touch` | `MCTouch.cfg`: a clock of seven values, thresholds of 1 and 3 ticks, a window of 2, a queue of 2 | `NoLostWakeup`, `ClassifiedOnce`, `DoubleMeansTwo`; `PressPolled` under fairness |
| `hci` | `MCHci.cfg`: two tasks, two opcodes, a controller with room for one command, two event buffers | `OwnAck` while no answer is late; `BuffersAccounted`, `OneToken` always; refinement of `SerialCommands`; `CommandEnds` under fairness |
| `acl` | `MCAclFlow.cfg`: two handles, one connection at a time, two buffers, packets of up to three fragments, with resets | `WithinBuffers`, `NoLostWakeup`, `HalfSentIsNext`; `QueuesMove` under fairness |
| `sampling` | `MCSampling.cfg`: four readings, of which one can be read as an attribute only by its address, a clock of three values, three samples | `PublishedTogether`, `OneMeasurement`, `AlwaysDue`, `NeverBackward`; `StoredIsPublished` under fairness |
| `indications` | `MCIndications.cfg`: three packets not yet handled | `OneOutstanding`, `NoneDiscarded`, `ChangeOnItsWay`; `ChangeTold` under fairness |
| `gap_service_registers`, `stop_count_tracks`, `removed_service_readable`, `stopped_is_silent` | one characteristic each | what a comment or an assertion of the repository says, and the code does not do (section 6) |

Why the bounds are enough. Two controllers are enough for one to wait while the other
holds the suspension, a third waits with it, and the fourth destroys or starts the
object; the proofs are for any set. `microservice` runs with `CHECK_DEADLOCK FALSE`
because the system may really stop: a controller that deletes a task which was never
created deletes itself, and leaves an object that nobody destroys. The firmware has
one connection at most (`nimconfig.h:16`), two services and two tasks, and the
`duty_cycle` run has exactly these; only the connection count is smaller than its
`uint8_t`. It is counted up and down by one and compared with 0, so 4 values
suffice to pass 0 in both directions and to tell 1 from the values beyond, also where
two counts meet and one is lost; the proofs
are for every range of at least 2. The four runs of section 6 need one removal of a
characteristic before a removal of its service, which is what one characteristic gives.

In `haptics` one player is inside, one waits and one comes; the weak effect is there for
the branch of `vibrate()` that the firmware's own effects do not take. In `touch` the
clock wraps with a press in progress, between two presses and with none at all, and a
press can be below the short one, short, exactly at either threshold (neither short nor
long) and long; the queue of two is full with one press. The proofs are for any
thresholds, window, range and queue.

In `hci` one task holds the mutex and one waits; with two opcodes a late acknowledgement is
either of another command or of an earlier one of the same kind. Two event buffers are what
one stored and one arriving acknowledgement take; `MaxPending` is 1 because the transport's
semaphore lets one command out until the controller says it is ready. In `acl` a packet of
one or two fragments fits the two buffers or not, according to what is under way, and one of
three never does; a handle is reused while events of its last connection are still under
way; `MaxQueue`, `MaxEvents` and `MaxRefusals` bound the packets waiting on a connection,
the events to the host, and the refused disconnections (each of which invents buffers, so
that they cannot be without bound). In `sampling` the clock wraps in every second run, and
three samples let one be stored while an older one is published and a newer one is cut by a
restart; `MaxGap < ClockRange` says that two runs are less than 49.7 days apart. In
`indications` a confirmation, a subscription and a cancellation can wait together.

Fairness. FreeRTOS schedules a ready task (weak fairness of `Main` and of the host task's
work); the poll in `init()` runs again and again while the controller does not fail before
every single poll (`SF` of `AwaitSync`), and a controller that is reset again and again is
reset with success in the end (`SF` of `Sync`, `WF` of `SyncRetry`, which is the host's
timer). `StopTimeout` is the timer task's: weak fairness. `ServeStop` is an event in a
first-in-first-out queue, so other events cannot overtake it for ever: strong fairness. The
chip restarts after a failure. Nothing is assumed of centrals: they may never connect, never
leave, or stay out of range for ever. In `Microservice`, a give readies the waiter that has
waited longest, so a take that is possible again and again happens (`SF`); operations return
and controllers resume what they suspended. In `Haptics` delays end (`WF`), and in `Touch`
the task and the timer task run (`WF`); nothing is asked of fingers. In `Hci` every task and
the controller's task run, and the controller takes up a command it has received (`WF` of
`Controller`, which may be to lose it); the 2 s of a wait are part of a task's steps. In
`AclFlow` the host task runs and the controller reports what it has sent (`WF` of
`Complete`); `QueuesMove` supposes that again and again there is a buffer, at the controller
or known to the host, or an event: the code can lose them all (section 6). With several
connections `wakeup_tx` always begins at the head of the list (`ble_hs.c:311`) and could
starve the last; the firmware has one. In `Sampling` only the main task must run, and the
chip must stop restarting in the end (`StoredIsPublished` says so). In `Indications` the
tasks and the timer run, and a central that was told to go goes in the end, unless the
controller refuses (`SF` of `Disconnect` while `ending`; its supervision timeout sees to
it). `ChangeTold` excepts what the code gives up: a change for which memory was short, whose
central wrote its configuration or left, or whose link could not be ended. Nothing makes it
confirm, write or connect.

## 5. What is proved

`MicroserviceProofs`, for every set of controllers (assumption `ControllersAreTasks`:
no controller is confused with the two other values of the turn):

- `TypeCorrect`, `OperationExcludesSuspension`, `TokenIsConserved`;
- `ServiceIsPausableTask`: `Spec => Abstract!Spec`.

`Exclusion` is not inductive: that a take succeeds only when nobody has the token is
`TokenConserved`; that a second controller cannot hold it is `OneHolder`; that nothing
survives the object is `Lifetime`. `IInv` is their conjunction. The refinement maps
every step with `Turn`, and needs `OneHolder` because `Turn` chooses the holder.

`DutyCycleProofs`, for every number of characteristics (`CharacteristicsType`) and
every range of the count of at least two values (`CountRangeType`):

- `Invariance`: `Spec => []IInv`, and from it `TypeCorrect`, `TeardownAfterHalt` and
  `FlagFollowsLink`.

`HaltedBeforeTeardown` says that the two waits of `nimble_port_stop` on one semaphore are
not satisfied early. By itself it is not inductive; `Handshake` adds that while somebody
waits for the completion nothing has been signalled, that the stop event is queued only
after that signal was consumed, and that a signal seen by the second wait is the host task's
last. `ble_hs_stop_done` can run twice in one stop (timer, disconnection, refusal), and it
is because the listeners are taken off their list that it signals once (`DoneFacts`),
whatever the count has become (`CountDownFacts`). `FlagPhases` is `FlagTracksLink` in every
state, with the windows in which the callback lags behind the peers' vector; it needs
`Dormant` (before there is a server no callback can run) and `Returns` (a procedure comes
back to the callback that called it). `Pending` says that a removal in progress is still in
`todo`, which `AppType` needs to take its tail. Each conjunct has one lemma, with one step
for each group of actions.

- `AirInvariance`: `Spec => []Air`, and from it `RemovalsHitLive` (`RemovalTargetsLive`) and
  `WindowStaysOnAir` (`WindowOnAir`).

`Air` adds four parts to `IInv`. `Removal`: in what is left to remove a service comes after
its characteristics, nothing is marked before its turn, and `resetGATT` has deleted only
what was marked. `InSync`: the host and `NimBLEDevice` agree that they are in sync, but
between a failure of the controller and the handlers that tell of it. `Fresh`: while a
window opens or is open no earlier stop has left a listener or a timer, and the services
have not changed. `OnAir`: meanwhile advertising that was once started is on, or one of
the tasks is on its way to start it again. That is stronger than `WindowOnAir`, which
speaks of the open window only: the host task acts before it opens, while `main` is still
inside `start`.

`HapticsProofs`, for any set of players (none of them called "free") and any effects of
`uint8_t` amplitudes: `HapticsTypeCorrect`, `PlayExcludes`, `MotorShowsOneEffect`. The three
together are inductive: that no vibration writes the motor while another is inside is
`OneInside`, and that a vibration has an amplitude left is part of `MotorFollowsEffect`.

`TouchProofs`, for any thresholds (`Thresholds`), any window that is over when the pad is
enabled (`WindowPassed`: 5 s against 2 s), any range of the clock that holds them
(`ClockHoldsThem`) and any queue (`TimerQueueType`):

- `WakeupIsNotLost`, `PressIsClassifiedOnce`, `DoublePressIsDouble`;
- `TouchPlaysHaptics`: `Spec => Motor!Spec`, so that `TypeCorrect` takes the motor's part
  from `HapticsProofs`.

`PressTracked` says that what the task measures without a press stays within
`SHORT_PRESS`, and that a finger on the pad is a press that was not told. `AgeTracked`
says that the wrapped difference to `lastEvent` is the true one while less than a whole
range has passed, and that it began above the window; the exception in `DoubleMeansTwo`
(`age = ClockRange`, 49.7 days) is the one the code has.

`HciProofs`, for any number of tasks, opcodes and buffers (`RoomForOne`, `NullIsNoAck`):
`TypeCorrect`, `OneTokenOnly`, `PromptOwnAck`, `PromptNoneOverwritten`, `Accounted` and the
refinement `CommandsAreSerial`: `Spec => Serial!Spec`. The proof of the invariants has two
layers. `Base` holds however late the answers are: only the holder of the mutex is
past the lock, one token, nothing freed twice. The rest holds until one is late: `Holder`
says, for each place of the command in progress, where its acknowledgement can be, and
`Kept` that no buffer was lost. `late` is set by the step that gives up a command which may
yet be answered, so that no earlier step needs to know. The refinement maps the answer of
`SerialCommands` to the acknowledgement of the command in progress, wherever it is: with the
controller's task, stored, or taken. It has one lemma for each action of `Hci`; it uses the
two layers, and that a task has taken nothing before its call ends (`Untaken`). It says more
than the invariants: until an answer is late the chip is never restarted (`RebootRefines`:
with one event buffer or more the pool is not empty when one is needed, and nothing is read
through NULL), and every command that is given up leaves a reset to come.

`AclFlowProofs`, for any number of connections, buffers and fragments (`BufferCount`,
`FragmentCount`, `NullIsNoConn`), with resets and refusals: `TypeCorrect` (no count goes below
zero), `WakeupNotLost`, `PacketsInOrder`. They need each other, and two facts more: a
connection that is not listed has an empty queue and no flag (`Unlisted`), and the one that
is being broken is known (`BrokenKnown`). A queue changes in one of a few ways, each a lemma.

For one connection at a time, as `nimconfig.h:16` has it (`MaxConns = 1` is a hypothesis of
both), and any finite set of handles (`HandlesFinite`): `BuffersSuffice` (`WithinBuffers`:
the controller is never sent more than it has buffers for) and `NoneInventedUntilRefused`
(nor is a buffer counted that it does not have). Both say "until the controller refuses a
disconnection", because then it is not so (`NoBufferInvented`, section 6). The host's count
lags behind the controller's by whatever the events in the queue say, and may lose buffers
but not gain any. The invariant is `Credit`: the count of the free buffers, the packets the
host has counted as outstanding, the events on their way and what the controller holds are
related by `Owes`, a function that falls along the queue of events by at least what each
event carries, from what the host believes outstanding to what the controller holds. It is
stated with "at least" since a connection's end lets the rest go uncounted. Around it:
`OneListed`, one connection and none while the host advertises; `Announced`, a new
connection has sent nothing and the queue tells nothing of an old one of its handle behind
it; `Leaving`, a connection whose end is announced has no link; `Held`, the controller holds
packets of one link only; `Balanced`, the count itself, with the exception of the connection
that is being broken, whose buffers are already returned. With two connections `Announced`
fails: a handle can be used again while the host has not heard of its end, the host gives
the new connection's packets back with the old one's, and with `MaxConns = 2` TLC finds
`WithinBuffers` violated. The hypothesis is needed. That the sum over all links is the one
that is held is `SumOfOne`, an induction over finite sets: the recursive definition behind
`SumFunction` has a solution because one can be shown, and two solutions differ on no
smallest subset (`WFMin`).

`SamplingProofs`, for any sequence of readings, any schedule that fits the clock
(`ScheduleFits`) and any number of samples: `TypeCorrect`, `Together`, `Fresh`, `Forward`,
`Due`, `Whole`. `InFlash` says how far a stored reading is behind the sample in progress,
before and after the one being put, with one more for each cut; `InWindow` carries it over
to what a refresh has read so far. `Fresh` (nothing published is older than the last whole
sample of when the refresh began) is proved and not listed as a run: `StoredIsPublished`
rests on it.

`IndicationsProofs`, for any number of packets waiting (`PacketCount`): `TypeCorrect` (with it:
an event that is put again and again is in the queue once), `OneOutstandingOnly`,
`NothingDiscarded`, `ChangeScheduled`. `IInv`, at the end of `Indications`, has seven parts:
the types; `Places`, which step belongs to which event; `Flags`, the meaning of the flag of
an event, which is set by one task and cleared by another; `Links`, one connection and one
disconnection at a time; `Order`, what comes before what in the queue; `Confirming`, who
knows of an indication that is not confirmed; `Changes`, where a change is that is due. None
is inductive alone: that no second indication goes out rests on `Order` (the confirmation is
handled while the connection is known), and this on `Flags` (the event of the packets is in
the queue whenever there are any).

Model-checked only, all of it liveness: `SuspendReturns`, `OperationRecurs`, `CycleRecurs`,
`MotorStops`, `PressPolled`, `CommandEnds`, `QueuesMove`, `StoredIsPublished`, `ChangeTold`
(liveness under fairness is out of the prover's reach; `Fresh` and `ChangeScheduled` are the
safety behind the last two, `WakeupNotLost` that behind `QueuesMove`).

## 6. Where the code and its words disagree

Each is a finding in `PROJECT.json`. The first four are runs that TLC ends with a
counterexample; for the others a configuration beside the module gives one, where it says
so.

- `GapServiceRegisters`: `resetGATT` runs on the main task while the host task is
  between accepting a connection and listing it, or while the controller is being
  reset. The GAP service is refused, and `SYSINIT_PANIC_ASSERT(rc == 0)` restarts the
  device.
- `StopCountTracks`: `ble_hs_stop_conn_cnt` is not reset. It stays above 0 after a stop
  that timed out, and goes below 0 with a connection that could not be told to end.
  The next stop with no connection at all then waits for its timer, or one with a
  connection does not wait for it. `CycleRecurs` and `HaltedBeforeTeardown` hold all
  the same.
- `RemovedServiceReadable`: `removeService` ends by reading the UUID of the service that
  `serviceChanged` may have deleted.
- `StoppedIsSilent`: `ble_gap_adv_start` checks outside the host lock that the host is
  enabled, so a callback can start advertising after `ble_hs_stop` has aborted the
  procedures. It stays on until the controller is deinitialised.
- `AckAlwaysPresent` (`MCHciAckAlwaysPresent.cfg`), `NeverOverwritten`, `EntryAssertion`,
  `FullOnSuccess`: what `ble_hs_hci.c` asserts or says of acknowledgements. After a late one
  the next command is answered with it, an acknowledgement can be stored over another, and a
  token can be left for which there is none: the command it wakes reads through NULL. The
  assertion at the entry of `cmd_tx` fails whenever two tasks send commands. A response that
  is too short is returned as a success.
- `NoBufferLost`, `NoBufferInvented` (`MCAclFlow_lost.cfg`, `MCAclFlow_invented.cfg`):
  a broken connection's buffers are returned before it is taken off the list, and returned
  also when the disconnection has failed. The host's count ends below the controller's, or
  above.
- `PartialFirst` (`MCAclFlow_first.cfg`, two connections): a packet half sent does not always
  go first.
- `EveryAttributeTells`: two attributes publish an address on the stack.
- `Subscribed`, `Configured`, `NoneForgotten` (`MCIndications_subscribed.cfg`,
  `MCIndications_configured.cfg`, `MCIndications_forgotten.cfg`): a central that has
  unsubscribed is indicated to; a change marked while a connection is taken down writes
  through NULL; a write of the configuration, or a lack of memory, drops a change that was
  due.
- Without a model: callouts run in the timer task (`npl_os_freertos.c:803`), beside the host
  task they were written for; `NimBLEServer.cpp:470` looks for the timeout of an indication in
  the wrong variable; `ble_gattc.c:1182` ignores whether the connection of a timed-out
  indication was terminated, and one that was not is never indicated to again.

## 7. Not modelled

- `NotificationService`: this version of `main.cpp` creates none. `Touch::disable` has no
  caller. `Observable` is never instantiated.
- `MAX17048` and `BatteryService::refresh`: two values that nothing relates, each stored and
  read in one step.
- The conversion of readings to the units of the attributes, and the contents of
  characteristics, advertisements and packets.
- The I2C bus that the sensors and the haptics share: the driver's lock is not in the
  repository.
- In the host: bonded centrals, their stored configuration and pairing; notifications; GATT
  procedures other than the indication; L2CAP channels; being a central; scanning.
- The controllers of other chips (`ble_ll`), tinycrypt, mesh, and the GNSS library: third-party
  code that `src/src` does not use. They are most of the lines in `src/lib`, and nothing of
  them runs on the device.
- The BSEC algorithm and the controller of the ESP32 are binaries; FreeRTOS and Preferences
  are taken as what they promise.
