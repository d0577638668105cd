------------------------------ MODULE Haptics -------------------------------
(***************************************************************************)
(* The vibration motor of src/src/hardware/Haptics.cpp.  play() holds the  *)
(* mutex from its first vibration to its last; vibrate() writes the duty   *)
(* cycle of the output pin and waits.  An effect is the sequence of its    *)
(* amplitudes; how long a delay lasts is left open.                        *)
(***************************************************************************)
EXTENDS Integers, Sequences

CONSTANTS Players,  \* the tasks that call play()
          Effects   \* the compositions they play

\* An amplitude is a uint8_t, and no player is the free mutex.
ASSUME EffectsType == Effects \subseteq Seq(0 .. 255)
ASSUME PlayersAreTasks == "free" \notin Players

VARIABLES motor,   \* duty cycle at OUTPUT_PIN
          mutex,   \* the player inside, or "free"
          player,  \* where each player is in play()
          rest     \* what is left of the effect it plays

hapticsVars == <<motor, mutex, player, rest>>

Inside == {"next", "ramp", "hold", "unlock"}

TypeOK ==
    /\ motor \in 0 .. 255
    /\ mutex \in Players \cup {"free"}
    /\ player \in [Players -> Inside \cup {"idle", "lock"}]
    /\ rest \in [Players -> Seq(0 .. 255)]

Init ==
    /\ motor = 0
    /\ mutex = "free"
    /\ player = [p \in Players |-> "idle"]
    /\ rest = [p \in Players |-> <<>>]

-----------------------------------------------------------------------------
\* scale(n, 0, 100, 190, 255), truncated to an integer.
Scale(n) == IF n >= 100 THEN 255 ELSE 190 + (65 * n) \div 100

\* The first 25 ms of a strong vibration: the driver starts with less current.
Soft(n) == (3 * n) \div 4

Strong(n) == n > 85

\* What the pin shall show once an amplitude is applied.
Duty(n) == IF n = 0 THEN 0 ELSE Scale(n)

-----------------------------------------------------------------------------
At(p, from, to) ==
    /\ player[p] = from
    /\ player' = [player EXCEPT ![p] = to]

Play(p, e) ==
    /\ At(p, "idle", "lock")
    /\ rest' = [rest EXCEPT ![p] = e]
    /\ UNCHANGED <<motor, mutex>>

\* Mutation of AcquireLock: the mutex is taken from whoever has it.
TakeOver(p) ==
    /\ At(p, "lock", "next")
    /\ mutex' = p
    /\ UNCHANGED <<motor, rest>>

AcquireLock(p) ==
    /\ At(p, "lock", "next")
    /\ mutex = "free"
    /\ mutex' = p
    /\ UNCHANGED <<motor, rest>>

\* vibrate(): a strong vibration starts soft.
VibrateSoft(p) ==
    /\ At(p, "next", "ramp")
    /\ rest[p] # <<>> /\ Strong(Head(rest[p]))
    /\ motor' = Soft(Head(rest[p]))
    /\ UNCHANGED <<mutex, rest>>

\* vibrate(): an amplitude that needs no soft start, zero included.
VibrateWeak(p) ==
    /\ At(p, "next", "hold")
    /\ rest[p] # <<>> /\ ~Strong(Head(rest[p]))
    /\ motor' = Duty(Head(rest[p]))
    /\ UNCHANGED <<mutex, rest>>

VibrateFull(p) ==
    /\ At(p, "ramp", "hold")
    /\ motor' = Duty(Head(rest[p]))
    /\ UNCHANGED <<mutex, rest>>

VibrationOver(p) ==
    /\ At(p, "hold", "next")
    /\ rest' = [rest EXCEPT ![p] = Tail(@)]
    /\ UNCHANGED <<motor, mutex>>

\* Mutation of SwitchOff: the last vibration is left on.
LeaveOn(p) ==
    /\ At(p, "next", "unlock")
    /\ rest[p] = <<>>
    /\ UNCHANGED <<motor, mutex, rest>>

SwitchOff(p) ==
    /\ At(p, "next", "unlock")
    /\ rest[p] = <<>>
    /\ motor' = 0
    /\ UNCHANGED <<mutex, rest>>

ReleaseLock(p) ==
    /\ At(p, "unlock", "idle")
    /\ mutex' = "free"
    /\ UNCHANGED <<motor, rest>>

\* What play() does by itself once it has been called.
PlayStep(p) ==
    \/ AcquireLock(p)
    \/ VibrateSoft(p) \/ VibrateWeak(p) \/ VibrateFull(p) \/ VibrationOver(p)
    \/ SwitchOff(p) \/ ReleaseLock(p)

Next == \E p \in Players : PlayStep(p) \/ \E e \in Effects : Play(p, e)

\* Delays end, and a free mutex is taken by one of the waiting players.
Fairness ==
    /\ \A p \in Players : WF_hapticsVars(PlayStep(p) /\ ~AcquireLock(p))
    /\ WF_hapticsVars(\E p \in Players : AcquireLock(p))

Spec     == Init /\ [][Next]_hapticsVars
FairSpec == Spec /\ Fairness

-----------------------------------------------------------------------------
\* Properties.

\* play() is run by one task at a time: who is inside has the mutex.
OneInside == \A p \in Players : player[p] \in Inside <=> mutex = p

\* The motor shows the vibration that the player inside has reached, soft or
\* in full, whatever the others wait for, and is off when nobody is inside.
MotorFollowsEffect ==
    /\ mutex = "free" => motor = 0
    /\ \A p \in Players :
        /\ player[p] \in {"ramp", "hold"} => rest[p] # <<>>
        /\ player[p] = "ramp" => motor = Soft(Head(rest[p]))
        /\ player[p] = "hold" => motor = Duty(Head(rest[p]))
        /\ player[p] = "unlock" => motor = 0

\* A motor that is on is switched off again, whoever plays next.
MotorStops == motor # 0 ~> motor = 0
=============================================================================
