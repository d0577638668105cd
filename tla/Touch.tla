------------------------------- MODULE Touch --------------------------------
(***************************************************************************)
(* The touch pad of src/src/hardware/sensor/Touch.cpp: an interrupt on     *)
(* both edges, and the task "TEP" that measures a press, tells a long one  *)
(* and the second of two short ones from the rest, answers with the motor  *)
(* and pulses touchEvent.                                                  *)
(*                                                                         *)
(* millis() wraps at ClockRange (2^32 in the firmware), and its unsigned   *)
(* differences with it.  The clock may run on between any two steps of the *)
(* task, however long its delays last, with one exception: see Tick.       *)
(***************************************************************************)
EXTENDS Integers, Sequences

CONSTANTS ShortPress,  \* SHORT_PRESS, 15 ms
          LongPress,   \* LONG_PRESS, 2000 ms
          Window,      \* two short presses within it are a double press
          ClockRange,  \* values of millis()
          Boot,        \* what millis() has reached when setup() enables the pad
          TimerQueue   \* commands the timer task can be behind with

ASSUME Thresholds == ShortPress \in Nat /\ LongPress \in Nat /\ ShortPress < LongPress
ASSUME WindowPassed == Window \in Nat /\ Boot \in Nat /\ Window <= Boot
ASSUME ClockHoldsThem == ClockRange \in Nat /\ LongPress < ClockRange /\ Boot + 1 < ClockRange
ASSUME TimerQueueType == TimerQueue \in Nat \ {0}

VARIABLES
    finger,      \* touchInterruptGetLastStatus(INPUT_PIN)
    posted,      \* xEventGroupSetBitsFromISR calls the timer task has yet to run
    pending,     \* the bit in interruptEvent
    clock,       \* millis()
    task,        \* where the event processor is
    start,       \* startpoint
    lastEvent,   \* millis() after the last short press, or UINT32_MAX
    event,       \* the local event of the operation
    touchEvent,  \* the bits in touchEvent
    motor, mutex, player, rest,  \* the haptics
    \* History:
    untold,      \* the pad was pressed since the task last classified a press
    shortPress,  \* a short press was noted before
    age          \* ticks since then (from before the clock's zero, without one)

touchVars == <<finger, posted, pending, clock, task, start, lastEvent, event,
               touchEvent, motor, mutex, player, rest, untold, shortPress, age>>

hapticsVars == <<motor, mutex, player, rest>>
padVars     == <<finger, posted, pending>>
timeVars    == <<clock, age>>
noteVars    == <<lastEvent, shortPress>>
eventVars   == <<event, touchEvent>>

CLICK        == <<100>>
DOUBLE_CLICK == <<100, 0, 100>>

Motor == INSTANCE Haptics WITH Players <- {"TEP"}, Effects <- {CLICK, DOUBLE_CLICK}

Time == 0 .. ClockRange - 1
TaskStates == {"wait", "start", "poll", "play", "stamp", "set", "clear", "delay"}
Events == {"LONG_PRESS", "DOUBLE_PRESS"}

TypeOK ==
    /\ finger \in BOOLEAN /\ pending \in BOOLEAN
    /\ posted \in 0 .. TimerQueue
    /\ clock \in Time /\ start \in Time /\ lastEvent \in Time
    /\ task \in TaskStates
    /\ event \in Events \cup {"_NULL"}
    /\ touchEvent \in Events \cup {"_NULL"}
    /\ untold \in BOOLEAN /\ shortPress \in BOOLEAN
    /\ age \in 0 .. ClockRange
    /\ Motor!TypeOK

\* The pad is enabled at the end of setup(), with nobody's finger on it.
Init ==
    /\ finger = FALSE /\ posted = 0 /\ pending = FALSE
    /\ clock = Boot /\ start = 0 /\ lastEvent = ClockRange - 1
    /\ task = "wait" /\ event = "_NULL" /\ touchEvent = "_NULL"
    /\ untold = FALSE /\ shortPress = FALSE /\ age = Boot + 1
    /\ Motor!Init

-----------------------------------------------------------------------------
\* The clock.

\* Mutation of Elapsed: the difference is taken as a signed one.
ElapsedSigned(t) == clock - t

\* millis() - t in uint32_t.
Elapsed(t) == IF clock >= t THEN clock - t ELSE clock - t + ClockRange

(***************************************************************************)
(* A finger that is off the pad is seen to be off before a short press     *)
(* would have passed: the task polls every 5 ms, at priority 10, and is    *)
(* not kept off its core for SHORT_PRESS ms between two lines.             *)
(***************************************************************************)
Tick ==
    /\ task = "poll" /\ ~finger => Elapsed(start) < ShortPress
    /\ clock' = IF clock = ClockRange - 1 THEN 0 ELSE clock + 1
    /\ age' = IF age = ClockRange THEN age ELSE age + 1
    /\ UNCHANGED <<padVars, noteVars, eventVars, task, start, untold, hapticsVars>>

-----------------------------------------------------------------------------
\* The pad and its interrupt, on both edges of a press.

\* Touch::interrupt: the bit is set by the timer task; its queue holds only
\* so many commands, and they are all the same.
Interrupt == posted' = IF posted = TimerQueue THEN posted ELSE posted + 1

Press ==
    /\ ~finger
    /\ finger' = TRUE
    /\ untold' = TRUE
    /\ Interrupt
    /\ UNCHANGED <<timeVars, noteVars, eventVars, pending, task, start, hapticsVars>>

Release ==
    /\ finger
    /\ finger' = FALSE
    /\ Interrupt
    /\ UNCHANGED <<timeVars, noteVars, eventVars, pending, task, start, untold, hapticsVars>>

TimerSetsBit ==
    /\ posted > 0
    /\ posted' = posted - 1
    /\ pending' = TRUE
    /\ UNCHANGED <<timeVars, noteVars, eventVars, finger, task, start, untold, hapticsVars>>

-----------------------------------------------------------------------------
\* The operation of the event processor.

\* xEventGroupWaitBits(interruptEvent, 1 << 0, true, ..): clears the bit.
WaitInterrupt ==
    /\ task = "wait" /\ pending
    /\ task' = "start"
    /\ pending' = FALSE
    /\ UNCHANGED <<timeVars, noteVars, eventVars, finger, posted, start, untold, hapticsVars>>

Startpoint ==
    /\ task = "start"
    /\ task' = "poll"
    /\ start' = clock
    /\ UNCHANGED <<padVars, timeVars, noteVars, eventVars, untold, hapticsVars>>

\* Mutation of IsShort: no lower bound.
IsShortUnbounded(duration) == duration < LongPress

IsLong(duration)  == duration > LongPress
IsShort(duration) == ShortPress < duration /\ duration < LongPress

IsDouble(interval) == interval < Window

\* The finger is off: what was that?
ClassifyPress ==
    /\ task = "poll" /\ ~finger
    /\ untold' = FALSE
    /\ LET duration == Elapsed(start)
           double   == IsShort(duration) /\ IsDouble(Elapsed(lastEvent))
       IN \/ /\ IsLong(duration)
             /\ event' = "LONG_PRESS" /\ task' = "play"
             /\ Motor!Play("TEP", CLICK)
          \/ /\ double
             /\ event' = "DOUBLE_PRESS" /\ task' = "play"
             /\ Motor!Play("TEP", DOUBLE_CLICK)
          \/ /\ ~IsLong(duration) /\ ~double
             /\ task' = IF IsShort(duration) THEN "stamp" ELSE "delay"
             /\ UNCHANGED <<event, hapticsVars>>
    /\ UNCHANGED <<padVars, timeVars, noteVars, start, touchEvent>>

\* The body of Haptics::play.
Vibrate ==
    /\ task = "play"
    /\ Motor!PlayStep("TEP")
    /\ UNCHANGED <<padVars, timeVars, noteVars, eventVars, task, start, untold>>

\* play() returns; a double press is noted as a short one, too.
PlayReturns ==
    /\ task = "play" /\ player["TEP"] = "idle"
    /\ task' = IF event = "DOUBLE_PRESS" THEN "stamp" ELSE "set"
    /\ UNCHANGED <<padVars, timeVars, noteVars, eventVars, start, untold, hapticsVars>>

\* lastEvent = millis(), after the vibration.
NoteShortPress ==
    /\ task = "stamp"
    /\ task' = IF event = "_NULL" THEN "delay" ELSE "set"
    /\ lastEvent' = clock
    /\ shortPress' = TRUE /\ age' = 0
    /\ UNCHANGED <<padVars, eventVars, clock, start, untold, hapticsVars>>

SetBits ==
    /\ task = "set"
    /\ task' = "clear"
    /\ touchEvent' = event
    /\ UNCHANGED <<padVars, timeVars, noteVars, start, event, untold, hapticsVars>>

\* Mutation of ClearBits: the interrupt's bit is cleared with the event's.
ClearAllBits ==
    /\ task = "clear"
    /\ task' = "delay"
    /\ touchEvent' = "_NULL" /\ event' = "_NULL" /\ pending' = FALSE
    /\ UNCHANGED <<timeVars, noteVars, finger, posted, start, untold, hapticsVars>>

\* Bits of the event that are set are cleared, and the operation returns.
ClearBits ==
    /\ task = "clear"
    /\ task' = "delay"
    /\ touchEvent' = "_NULL" /\ event' = "_NULL"
    /\ UNCHANGED <<padVars, timeVars, noteVars, start, untold, hapticsVars>>

\* The 15 ms of the Microservice between two operations.
IntervalOver ==
    /\ task = "delay"
    /\ task' = "wait"
    /\ UNCHANGED <<padVars, timeVars, noteVars, eventVars, start, untold, hapticsVars>>

Operation ==
    \/ WaitInterrupt \/ Startpoint \/ ClassifyPress
    \/ Vibrate \/ PlayReturns
    \/ NoteShortPress \/ SetBits \/ ClearBits \/ IntervalOver

Next == Tick \/ Press \/ Release \/ TimerSetsBit \/ Operation

\* The tasks run; nothing is asked of the finger.
Fairness == WF_touchVars(TimerSetsBit) /\ WF_touchVars(Operation)

Spec     == Init /\ [][Next]_touchVars
FairSpec == Spec /\ Fairness

-----------------------------------------------------------------------------
\* Properties.

\* A press is not lost to the task: a finger on the pad, in whatever the task
\* was doing when it came, finds the bit set or about to be.
NoLostWakeup ==
    finger /\ task \notin {"start", "poll"} => pending \/ posted > 0

\* The interrupts of one press, two edges and however many bits, make the task
\* classify it as short or long at most once: releasing the pad is no press.
ClassifiedOnce ==
    [][task = "poll" /\ task' \in {"play", "stamp"} => untold]_touchVars

\* A double press is the second of two: a short press was noted less than
\* the window ago, or the clock has gone round since the last one (or since
\* its zero, without one).
DoubleMeansTwo ==
    [][event = "_NULL" /\ event' = "DOUBLE_PRESS" =>
        (shortPress /\ age < Window) \/ age = ClockRange]_touchVars

\* A finger on the pad is polled in the end.
PressPolled == finger ~> task = "poll"
=============================================================================
