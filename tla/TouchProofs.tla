---------------------------- MODULE TouchProofs -----------------------------
(***************************************************************************)
(* Presses, for any thresholds, any window and any range of the clock.     *)
(* What the motor does is taken from HapticsProofs: the touch task is one  *)
(* more player.                                                            *)
(***************************************************************************)
EXTENDS Touch, TLAPS

MotorProofs == INSTANCE HapticsProofs
    WITH Players <- {"TEP"}, Effects <- {CLICK, DOUBLE_CLICK}

USE DEF padVars, timeVars, noteVars, eventVars

\* The state without the haptics.
OwnType ==
    /\ finger \in BOOLEAN /\ pending \in BOOLEAN
    /\ posted \in 0 .. TimerQueue
    /\ clock \in Time /\ start \in Time /\ lastEvent \in Time
    /\ task \in TaskStates
    /\ event \in Events \cup {"_NULL"}
    /\ touchEvent \in Events \cup {"_NULL"}
    /\ untold \in BOOLEAN /\ shortPress \in BOOLEAN
    /\ age \in 0 .. ClockRange

\* A press is told until the finger has left; what the task measures without
\* a press is too short to be one.
PressTracked ==
    /\ finger => untold
    /\ task = "poll" /\ ~untold => Elapsed(start) <= ShortPress

\* lastEvent is as old as the clock can tell, and before the first short press
\* it is older than the window.
AgeTracked ==
    /\ age < ClockRange => Elapsed(lastEvent) = age
    /\ ~shortPress => age > Window

IInv == OwnType /\ NoLostWakeup /\ PressTracked /\ AgeTracked

-----------------------------------------------------------------------------
\* The initial state satisfies the invariant: Boot is past the window.
LEMMA InitEstablishes == Init => IInv
<1> SUFFICES ASSUME Init PROVE IInv
    OBVIOUS
<1> USE Thresholds, WindowPassed, ClockHoldsThem, TimerQueueType DEF Init
<1>1. OwnType
    <2>1. posted \in 0 .. TimerQueue /\ clock \in Time /\ start \in Time
        BY DEF Time
    <2>2. lastEvent \in Time /\ age \in 0 .. ClockRange
        BY DEF Time
    <2> QED BY <2>1, <2>2, Zenon DEF OwnType, TaskStates, Events
<1>2. NoLostWakeup
    BY Zenon DEF NoLostWakeup
<1>3. PressTracked
    <2>1. ~finger /\ task # "poll" OBVIOUS
    <2> QED BY <2>1, Zenon DEF PressTracked
<1>4. AgeTracked
    BY DEF AgeTracked, Elapsed
<1> QED BY <1>1, <1>2, <1>3, <1>4 DEF IInv

\* A tick adds one to every time that has elapsed, unless it goes round.
LEMMA TickElapses ==
    ASSUME OwnType, Tick, NEW t \in Time
    PROVE  Elapsed(t)' = IF Elapsed(t) = ClockRange - 1 THEN 0 ELSE Elapsed(t) + 1
BY ClockHoldsThem, WindowPassed DEF OwnType, Tick, Time, Elapsed

\* Every step keeps the state well typed.
LEMMA NextKeepsType == IInv /\ [Next]_touchVars => OwnType'
<1> SUFFICES ASSUME IInv, [Next]_touchVars PROVE OwnType'
    OBVIOUS
<1> USE ClockHoldsThem, TimerQueueType DEF IInv, OwnType, Time, TaskStates, Events
<1>1. CASE Tick BY <1>1 DEF Tick
<1>2. CASE Press BY <1>2 DEF Press, Interrupt
<1>3. CASE Release
    <2>1. posted' \in 0 .. TimerQueue BY <1>3 DEF Release, Interrupt
    <2> QED BY <1>3, <2>1, Zenon DEF Release
<1>4. CASE TimerSetsBit BY <1>4 DEF TimerSetsBit
<1>5. CASE WaitInterrupt BY <1>5 DEF WaitInterrupt
<1>6. CASE Startpoint BY <1>6 DEF Startpoint
<1>7. CASE ClassifyPress
    <2>1. task' \in TaskStates /\ event' \in Events \cup {"_NULL"}
        BY <1>7 DEF ClassifyPress
    <2> QED BY <1>7, <2>1 DEF ClassifyPress
<1>8. CASE Vibrate BY <1>8 DEF Vibrate
<1>9. CASE PlayReturns BY <1>9 DEF PlayReturns
<1>10. CASE NoteShortPress BY <1>10 DEF NoteShortPress
<1>11. CASE SetBits BY <1>11 DEF SetBits
<1>12. CASE ClearBits BY <1>12 DEF ClearBits
<1>13. CASE IntervalOver BY <1>13 DEF IntervalOver
<1>14. CASE UNCHANGED touchVars BY <1>14 DEF touchVars
<1> QED BY <1>1, <1>2, <1>3, <1>4, <1>5, <1>6, <1>7, <1>8, <1>9, <1>10, <1>11,
           <1>12, <1>13, <1>14 DEF Next, Operation

\* The bit is cleared only on the way to the poll, and the poll ends only with
\* the finger off; a finger that comes later posts a bit of its own.
LEMMA NextKeepsWakeup == IInv /\ [Next]_touchVars => NoLostWakeup'
<1> SUFFICES ASSUME IInv, [Next]_touchVars PROVE NoLostWakeup'
    OBVIOUS
<1> USE TimerQueueType DEF IInv, OwnType, NoLostWakeup
<1>1. CASE Tick BY <1>1 DEF Tick
<1>2. CASE Press
    <2>1. posted' > 0 BY <1>2 DEF Press, Interrupt
    <2> QED BY <2>1
<1>3. CASE Release BY <1>3 DEF Release
<1>4. CASE TimerSetsBit BY <1>4 DEF TimerSetsBit
<1>5. CASE WaitInterrupt BY <1>5 DEF WaitInterrupt
<1>6. CASE Startpoint BY <1>6 DEF Startpoint
<1>7. CASE ClassifyPress BY <1>7 DEF ClassifyPress
<1>8. CASE Vibrate BY <1>8 DEF Vibrate
<1>9. CASE PlayReturns BY <1>9 DEF PlayReturns
<1>10. CASE NoteShortPress BY <1>10 DEF NoteShortPress
<1>11. CASE SetBits BY <1>11 DEF SetBits
<1>12. CASE ClearBits BY <1>12 DEF ClearBits
<1>13. CASE IntervalOver BY <1>13 DEF IntervalOver
<1>14. CASE UNCHANGED touchVars BY <1>14 DEF touchVars
<1> QED BY <1>1, <1>2, <1>3, <1>4, <1>5, <1>6, <1>7, <1>8, <1>9, <1>10, <1>11,
           <1>12, <1>13, <1>14 DEF Next, Operation

\* What the task measures grows only with a finger on the pad, or until it
\* reaches the bound of a short press.
LEMMA NextKeepsPress == IInv /\ [Next]_touchVars => PressTracked'
<1> SUFFICES ASSUME IInv, [Next]_touchVars PROVE PressTracked'
    OBVIOUS
<1> USE Thresholds, ClockHoldsThem DEF IInv, OwnType, Time, PressTracked
<1>1. CASE Tick
    <2>1. (finger => untold)' BY <1>1 DEF Tick
    <2>2. ASSUME task' = "poll", ~untold' PROVE Elapsed(start)' <= ShortPress
        <3>1. task = "poll" /\ ~untold /\ ~finger BY <1>1, <2>2 DEF Tick
        <3>2. Elapsed(start) < ShortPress BY <1>1, <3>1 DEF Tick
        <3>3. Elapsed(start) \in Nat BY DEF Elapsed
        <3>4. Elapsed(start)' = Elapsed(start) + 1
                \/ Elapsed(start)' = 0
            BY <1>1 DEF Tick, Elapsed
        <3> QED BY <3>2, <3>3, <3>4
    <2> QED BY <2>1, <2>2
<1>2. CASE Press BY <1>2 DEF Press
<1>3. CASE Release BY <1>3 DEF Release, Elapsed
<1>4. CASE TimerSetsBit BY <1>4 DEF TimerSetsBit, Elapsed
<1>5. CASE WaitInterrupt BY <1>5 DEF WaitInterrupt
<1>6. CASE Startpoint BY <1>6 DEF Startpoint, Elapsed
<1>7. CASE ClassifyPress
    <2>1. ~finger' /\ task' # "poll" BY <1>7 DEF ClassifyPress
    <2> QED BY <2>1
<1>8. CASE Vibrate BY <1>8 DEF Vibrate
<1>9. CASE PlayReturns BY <1>9 DEF PlayReturns
<1>10. CASE NoteShortPress BY <1>10 DEF NoteShortPress
<1>11. CASE SetBits BY <1>11 DEF SetBits
<1>12. CASE ClearBits BY <1>12 DEF ClearBits
<1>13. CASE IntervalOver BY <1>13 DEF IntervalOver
<1>14. CASE UNCHANGED touchVars BY <1>14 DEF touchVars, Elapsed
<1> QED BY <1>1, <1>2, <1>3, <1>4, <1>5, <1>6, <1>7, <1>8, <1>9, <1>10, <1>11,
           <1>12, <1>13, <1>14 DEF Next, Operation

\* Only the clock and a short press change the age, and they change what has
\* elapsed since lastEvent in the same way.
LEMMA NextKeepsAge == IInv /\ [Next]_touchVars => AgeTracked'
<1> SUFFICES ASSUME IInv, [Next]_touchVars PROVE AgeTracked'
    OBVIOUS
<1> USE WindowPassed, ClockHoldsThem DEF IInv, OwnType, Time, AgeTracked
<1>1. CASE Tick
    <2>1. (age < ClockRange => Elapsed(lastEvent) = age)'
        BY <1>1 DEF Tick, Elapsed
    <2>2. ASSUME ~shortPress' PROVE age' > Window
        <3>1. ~shortPress BY <1>1, <2>2 DEF Tick
        <3>2. age > Window BY <3>1
        <3>3. age' >= age BY <1>1 DEF Tick
        <3> QED BY <1>1, <3>2, <3>3 DEF Tick
    <2> QED BY <2>1, <2>2
<1>2. ASSUME UNCHANGED <<clock, lastEvent, age, shortPress>> PROVE AgeTracked'
    BY <1>2 DEF Elapsed
<1>3. CASE NoteShortPress
    <2>1. Elapsed(lastEvent)' = 0 /\ age' = 0 BY <1>3 DEF NoteShortPress, Elapsed
    <2>2. shortPress' BY <1>3 DEF NoteShortPress
    <2> QED BY <2>1, <2>2
<1>4. ASSUME Next, ~Tick, ~NoteShortPress
      PROVE  UNCHANGED <<clock, lastEvent, age, shortPress>>
    BY <1>4 DEF Next, Operation, Press, Release, TimerSetsBit, WaitInterrupt,
                Startpoint, ClassifyPress, Vibrate, PlayReturns, SetBits,
                ClearBits, IntervalOver
<1>5. CASE UNCHANGED touchVars BY <1>2, <1>5 DEF touchVars
<1> QED BY <1>1, <1>2, <1>3, <1>4, <1>5

\* The invariant holds in every reachable state.
LEMMA Invariance == Spec => []IInv
<1>1. IInv /\ [Next]_touchVars => IInv'
    BY NextKeepsType, NextKeepsWakeup, NextKeepsPress, NextKeepsAge DEF IInv
<1> QED BY InitEstablishes, <1>1, PTL DEF Spec

\* No press is lost to the task, however far the timer task is behind.
THEOREM WakeupIsNotLost == Spec => []NoLostWakeup
BY Invariance, PTL DEF IInv

\* Whatever the thresholds, provided the poll keeps its time, a press makes one
\* classification: the interrupt of its end does not make another.
THEOREM PressIsClassifiedOnce == Spec => ClassifiedOnce
<1>1. IInv /\ [Next]_touchVars =>
        [task = "poll" /\ task' \in {"play", "stamp"} => untold]_touchVars
    <2> SUFFICES ASSUME IInv, Next, task = "poll", task' \in {"play", "stamp"}
                 PROVE  untold
        BY DEF touchVars
    <2>1. ClassifyPress
        BY DEF Next, Operation, Tick, Press, Release, TimerSetsBit, WaitInterrupt,
               Startpoint, Vibrate, PlayReturns, NoteShortPress, SetBits,
               ClearBits, IntervalOver
    <2>2. IsLong(Elapsed(start)) \/ IsShort(Elapsed(start))
        BY <2>1 DEF ClassifyPress
    <2>3. Elapsed(start) \in Nat
        BY ClockHoldsThem DEF IInv, OwnType, Time, Elapsed
    <2>4. Elapsed(start) > ShortPress
        BY <2>2, <2>3, Thresholds DEF IsLong, IsShort
    <2> QED BY <2>3, <2>4, Thresholds DEF IInv, OwnType, PressTracked
<1> QED BY Invariance, <1>1, PTL DEF Spec, ClassifiedOnce

\* Whatever the window and the clock's range, a double press is one, or the
\* clock has gone round.
THEOREM DoublePressIsDouble == Spec => DoubleMeansTwo
<1>1. IInv /\ [Next]_touchVars =>
        [event = "_NULL" /\ event' = "DOUBLE_PRESS" =>
            (shortPress /\ age < Window) \/ age = ClockRange]_touchVars
    <2> SUFFICES ASSUME IInv, Next, event = "_NULL", event' = "DOUBLE_PRESS",
                        age # ClockRange
                 PROVE  shortPress /\ age < Window
        BY DEF touchVars
    <2>1. ClassifyPress
        BY DEF Next, Operation, Tick, Press, Release, TimerSetsBit, WaitInterrupt,
               Startpoint, Vibrate, PlayReturns, NoteShortPress, SetBits,
               ClearBits, IntervalOver
    <2>2. Elapsed(lastEvent) < Window
        BY <2>1 DEF ClassifyPress, IsDouble
    <2>3. Elapsed(lastEvent) = age
        BY ClockHoldsThem DEF IInv, OwnType, AgeTracked
    <2>4. age < Window
        BY <2>2, <2>3
    <2>5. ~(age > Window)
        BY <2>4, WindowPassed, ClockHoldsThem DEF IInv, OwnType
    <2> QED BY <2>4, <2>5 DEF IInv, OwnType, AgeTracked
<1> QED BY Invariance, <1>1, PTL DEF Spec, DoubleMeansTwo

\* What the touch task does with the motor is a call of play(), a step of it,
\* or nothing.
THEOREM TouchPlaysHaptics == Spec => Motor!Spec
<1>1. Init => Motor!Init
    BY DEF Init
<1>2. [Next]_touchVars => [Motor!Next]_Motor!hapticsVars
    <2> SUFFICES ASSUME [Next]_touchVars PROVE [Motor!Next]_Motor!hapticsVars
        OBVIOUS
    <2>1. CASE ClassifyPress
        BY <2>1 DEF ClassifyPress, Motor!Next, Motor!hapticsVars, hapticsVars
    <2>2. CASE Vibrate
        BY <2>2 DEF Vibrate, Motor!Next
    <2>3. ASSUME Next, ~ClassifyPress, ~Vibrate PROVE UNCHANGED hapticsVars
        BY <2>3 DEF Next, Operation, Tick, Press, Release, TimerSetsBit,
                    WaitInterrupt, Startpoint, PlayReturns, NoteShortPress,
                    SetBits, ClearBits, IntervalOver
    <2>4. CASE UNCHANGED touchVars
        BY <2>4 DEF touchVars, hapticsVars, Motor!hapticsVars
    <2> QED BY <2>1, <2>2, <2>3, <2>4 DEF hapticsVars, Motor!hapticsVars
<1> QED BY <1>1, <1>2, PTL DEF Spec, Motor!Spec

\* The two effects are compositions that Haptics can play.
LEMMA EffectsArePlayable ==
    /\ {CLICK, DOUBLE_CLICK} \subseteq Seq(0 .. 255)
    /\ "free" \notin {"TEP"}
BY DEF CLICK, DOUBLE_CLICK

\* The whole state is well typed, the motor's included.
THEOREM TypeCorrect == Spec => []TypeOK
<1>1. Motor!Spec => []Motor!TypeOK
    <2>1. MotorProofs!Spec => []MotorProofs!TypeOK
        BY EffectsArePlayable, MotorProofs!HapticsTypeCorrect
    <2>2. Motor!Init => MotorProofs!Init
        BY DEF Motor!Init, MotorProofs!Init
    <2>3. [Motor!Next]_Motor!hapticsVars => [MotorProofs!Next]_MotorProofs!hapticsVars
        BY DEF Motor!hapticsVars, MotorProofs!hapticsVars, Motor!Next, MotorProofs!Next,
               Motor!PlayStep, MotorProofs!PlayStep, Motor!Play, MotorProofs!Play,
               Motor!AcquireLock, MotorProofs!AcquireLock,
               Motor!VibrateSoft, MotorProofs!VibrateSoft,
               Motor!VibrateWeak, MotorProofs!VibrateWeak,
               Motor!VibrateFull, MotorProofs!VibrateFull,
               Motor!VibrationOver, MotorProofs!VibrationOver,
               Motor!SwitchOff, MotorProofs!SwitchOff,
               Motor!ReleaseLock, MotorProofs!ReleaseLock,
               Motor!At, MotorProofs!At, Motor!Strong, MotorProofs!Strong,
               Motor!Soft, MotorProofs!Soft, Motor!Duty, MotorProofs!Duty,
               Motor!Scale, MotorProofs!Scale
    <2>4. MotorProofs!TypeOK => Motor!TypeOK
        BY DEF Motor!TypeOK, MotorProofs!TypeOK, Motor!Inside, MotorProofs!Inside
    <2> QED BY <2>1, <2>2, <2>3, <2>4, PTL DEF Motor!Spec, MotorProofs!Spec
<1>2. OwnType /\ Motor!TypeOK => TypeOK
    BY DEF OwnType, TypeOK
<1> QED BY Invariance, TouchPlaysHaptics, <1>1, <1>2, PTL DEF IInv
=============================================================================
