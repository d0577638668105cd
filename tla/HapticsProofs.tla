--------------------------- MODULE HapticsProofs ----------------------------
(***************************************************************************)
(* One task at a time at the motor, for any players and any effects.       *)
(***************************************************************************)
EXTENDS Haptics, SequenceTheorems, TLAPS

IInv == TypeOK /\ OneInside /\ MotorFollowsEffect

\* scale() with the bounds that vibrate() gives it fits a uint8_t.
LEMMA DutyFits ==
    ASSUME NEW n \in 0 .. 255
    PROVE  Soft(n) \in 0 .. 255 /\ Duty(n) \in 0 .. 255
BY DEF Soft, Duty, Scale

\* What is left of an effect begins with an amplitude, and so does the rest of it.
LEMMA EffectSteps ==
    ASSUME NEW s \in Seq(0 .. 255), s # <<>>
    PROVE  Head(s) \in 0 .. 255 /\ Tail(s) \in Seq(0 .. 255)
BY HeadTailProperties

\* The motor starts at rest with nobody inside.
LEMMA InitEstablishes == Init => IInv
BY PlayersAreTasks
   DEF Init, IInv, TypeOK, OneInside, MotorFollowsEffect, Inside

\* Every step of play() keeps the state well typed.
LEMMA NextKeepsType == IInv /\ [Next]_hapticsVars => TypeOK'
<1> SUFFICES ASSUME IInv, [Next]_hapticsVars PROVE TypeOK'
    OBVIOUS
<1> USE DEF IInv, TypeOK, Inside, At
<1>1. ASSUME NEW p \in Players, NEW e \in Effects, Play(p, e) PROVE TypeOK'
    BY <1>1, EffectsType DEF Play
<1>2. ASSUME NEW p \in Players, PlayStep(p) PROVE TypeOK'
    <2>1. CASE AcquireLock(p) BY <2>1 DEF AcquireLock
    <2>2. CASE VibrateSoft(p)
        <3>1. motor' \in 0 .. 255
            BY <2>2, EffectSteps, DutyFits DEF VibrateSoft
        <3> QED BY <2>2, <3>1 DEF VibrateSoft
    <2>3. CASE VibrateWeak(p)
        <3>1. motor' \in 0 .. 255
            BY <2>3, EffectSteps, DutyFits DEF VibrateWeak
        <3> QED BY <2>3, <3>1 DEF VibrateWeak
    <2>4. CASE VibrateFull(p)
        <3>1. rest[p] # <<>>
            BY <2>4 DEF VibrateFull, MotorFollowsEffect
        <3>2. motor' \in 0 .. 255
            BY <2>4, <3>1, EffectSteps, DutyFits DEF VibrateFull
        <3> QED BY <2>4, <3>2 DEF VibrateFull
    <2>5. CASE VibrationOver(p)
        <3>1. rest[p] # <<>>
            BY <2>5 DEF VibrationOver, MotorFollowsEffect
        <3>2. Tail(rest[p]) \in Seq(0 .. 255)
            BY <3>1, EffectSteps
        <3> QED BY <2>5, <3>2 DEF VibrationOver
    <2>6. CASE SwitchOff(p) BY <2>6 DEF SwitchOff
    <2>7. CASE ReleaseLock(p) BY <2>7 DEF ReleaseLock
    <2> QED BY <1>2, <2>1, <2>2, <2>3, <2>4, <2>5, <2>6, <2>7 DEF PlayStep
<1>3. CASE UNCHANGED hapticsVars BY <1>3 DEF hapticsVars
<1> QED BY <1>1, <1>2, <1>3 DEF Next

\* Whoever comes in finds the mutex free, and leaves it free.
LEMMA NextKeepsOneInside == IInv /\ [Next]_hapticsVars => OneInside'
<1> SUFFICES ASSUME IInv, [Next]_hapticsVars PROVE OneInside'
    OBVIOUS
<1> USE PlayersAreTasks DEF IInv, TypeOK, OneInside, Inside, At
<1>1. ASSUME NEW p \in Players, NEW e \in Effects, Play(p, e) PROVE OneInside'
    BY <1>1 DEF Play
<1>2. ASSUME NEW p \in Players, PlayStep(p) PROVE OneInside'
    BY <1>2 DEF PlayStep, AcquireLock, VibrateSoft, VibrateWeak, VibrateFull,
                VibrationOver, SwitchOff, ReleaseLock
<1>3. CASE UNCHANGED hapticsVars BY <1>3 DEF hapticsVars
<1> QED BY <1>1, <1>2, <1>3 DEF Next

\* Only the player inside writes the motor, and it leaves it off.
LEMMA NextKeepsMotor == IInv /\ [Next]_hapticsVars => MotorFollowsEffect'
<1> SUFFICES ASSUME IInv, [Next]_hapticsVars PROVE MotorFollowsEffect'
    OBVIOUS
<1> USE PlayersAreTasks DEF IInv, TypeOK, OneInside, Inside, At, MotorFollowsEffect
<1>1. ASSUME NEW p \in Players, NEW e \in Effects, Play(p, e)
      PROVE  MotorFollowsEffect'
    BY <1>1 DEF Play
<1>2. ASSUME NEW p \in Players, PlayStep(p) PROVE MotorFollowsEffect'
    <2>1. CASE AcquireLock(p) BY <2>1 DEF AcquireLock
    <2>2. CASE VibrateSoft(p) BY <2>2 DEF VibrateSoft
    <2>3. CASE VibrateWeak(p) BY <2>3 DEF VibrateWeak
    <2>4. CASE VibrateFull(p) BY <2>4 DEF VibrateFull
    <2>5. CASE VibrationOver(p) BY <2>5 DEF VibrationOver
    <2>6. CASE SwitchOff(p) BY <2>6 DEF SwitchOff
    <2>7. CASE ReleaseLock(p) BY <2>7 DEF ReleaseLock
    <2> QED BY <1>2, <2>1, <2>2, <2>3, <2>4, <2>5, <2>6, <2>7 DEF PlayStep
<1>3. CASE UNCHANGED hapticsVars BY <1>3 DEF hapticsVars
<1> QED BY <1>1, <1>2, <1>3 DEF Next

\* The inductive invariant holds in every reachable state.
LEMMA Invariance == Spec => []IInv
<1>1. IInv /\ [Next]_hapticsVars => IInv'
    BY NextKeepsType, NextKeepsOneInside, NextKeepsMotor DEF IInv
<1> QED BY InitEstablishes, <1>1, PTL DEF Spec

\* The state of the motor and of its players is well typed: no amplitude makes a
\* duty cycle that does not fit the output.
THEOREM HapticsTypeCorrect == Spec => []TypeOK
BY Invariance, PTL DEF IInv

\* However many tasks call play(), one is inside at a time.
THEOREM PlayExcludes == Spec => []OneInside
BY Invariance, PTL DEF IInv

\* However many tasks call play(), the motor shows the effect of the one inside
\* and is off between effects.
THEOREM MotorShowsOneEffect == Spec => []MotorFollowsEffect
BY Invariance, PTL DEF IInv
=============================================================================
