--------------------------- MODULE SamplingProofs ---------------------------
(***************************************************************************)
(* For any readings, any schedule that fits the clock, any number of       *)
(* samples and restarts: what a refresh publishes belongs together, is not *)
(* old, and never goes back; the schedule outlives millis().               *)
(***************************************************************************)
EXTENDS Sampling, TLAPS

(* ------------------------------- Types --------------------------------- *)

LEMMA Bounds == N \in Nat \ {0} /\ Rate \in Nat /\ Interval \in Nat /\ MaxGap \in Nat
                /\ ClockRange \in Nat /\ MaxGap < ClockRange /\ Rate <= Interval
                /\ Interval <= MaxGap
<1>1. Len(Keys) \in Nat
  BY KeysAreASequence
<1> QED
  BY <1>1, KeysAreASequence, ScheduleFits DEF N

LEMMA TimeMsType == TimeType => TimeMs \in Nat /\ Overflows \in Nat
<1> SUFFICES ASSUME TimeType PROVE TimeMs \in Nat /\ Overflows \in Nat
  OBVIOUS
<1>1. Overflows \in Nat
  BY DEF TimeType, Overflows
<1>2. clock \in Nat /\ ClockRange \in Nat
  BY Bounds DEF TimeType
<1>3. ClockRange * Overflows \in Nat
  BY <1>1, <1>2
<1> QED
  BY <1>1, <1>2, <1>3 DEF TimeMs

LEMMA TypeInit == Init => TypeOK
  BY Bounds DEF Init, TypeOK, ChipType, TimeType, WindowType, TaskStates, Zero, Index

LEMMA ChipTypeStep == ChipType /\ [Next]_vars => ChipType'
<1> SUFFICES ASSUME ChipType, [Next]_vars PROVE ChipType'
  OBVIOUS
<1> USE Bounds DEF ChipType, TaskStates, Index, chip, flash, history
<1>1. CASE Measure
  <2>1. \A d : Delivered(d) \in [Index -> Nat]
    BY DEF Delivered
  <2> QED
    BY <1>1, <2>1 DEF Measure
<1>2. CASE Store
  BY <1>2 DEF Store
<1>3. CASE Stored
  BY <1>3 DEF Stored
<1>4. CASE IntervalOver
  BY <1>4 DEF IntervalOver
<1>5. CASE Refresh
  BY <1>5 DEF Refresh
<1>6. CASE Publish \/ WindowOver
  BY <1>6 DEF Publish, WindowOver
<1>7. CASE Restart
  BY <1>7 DEF Restart, Zero
<1>8. CASE UNCHANGED vars
  BY <1>8 DEF vars
<1> QED
  BY <1>1, <1>2, <1>3, <1>4, <1>5, <1>6, <1>7, <1>8 DEF Next, MainStep

LEMMA TimeTypeStep == TimeType /\ [Next]_vars => TimeType'
<1> SUFFICES ASSUME TimeType, [Next]_vars PROVE TimeType'
  OBVIOUS
<1>1. CASE Measure
  <2>1. TimeMs + Rate \in Nat
    BY TimeMsType, Bounds
  <2> QED
    BY <1>1, <2>1, TimeMsType DEF Measure, GetTimeMs, TimeType
<1>2. CASE IntervalOver
  BY <1>2, Bounds DEF IntervalOver, TimeType
<1>3. CASE Restart
  BY <1>3, Bounds DEF Restart, TimeType
<1>4. CASE UNCHANGED time
  BY <1>4 DEF time, TimeType
<1> QED
  BY <1>1, <1>2, <1>3, <1>4
  DEF Next, MainStep, Store, Stored, Refresh, Publish, WindowOver, vars

LEMMA WindowTypeStep == ChipType /\ WindowType /\ [Next]_vars => WindowType'
<1> SUFFICES ASSUME ChipType, WindowType, [Next]_vars PROVE WindowType'
  OBVIOUS
<1> USE Bounds DEF WindowType, Index
<1>1. CASE Refresh
  BY <1>1 DEF Refresh, ChipType
<1>2. CASE Publish
  <2>1. attribute' \in [Index -> Nat]
    BY <1>2 DEF Publish, ChipType
  <2> QED
    BY <1>2, <2>1 DEF Publish
<1>3. CASE WindowOver
  BY <1>3 DEF WindowOver
<1>4. CASE Restart
  BY <1>4 DEF Restart
<1>5. CASE UNCHANGED window
  BY <1>5 DEF window
<1> QED
  BY <1>1, <1>2, <1>3, <1>4, <1>5
  DEF Next, MainStep, Measure, Store, Stored, IntervalOver, vars

LEMMA TypeStep == TypeOK /\ [Next]_vars => TypeOK'
  BY ChipTypeStep, TimeTypeStep, WindowTypeStep DEF TypeOK

(* ------------------------------- Flash --------------------------------- *)

Amid == task = "store" /\ put > 1

\* How far the oldest reading in flash may be behind.
Behind == IF Amid THEN cuts + 1 ELSE cuts

InFlash ==
    /\ task # "store" => put = 1
    /\ settled <= sample
    /\ \A i \in Index : /\ settled <= stored[i] /\ stored[i] <= sample
                        /\ sample <= stored[i] + Behind
                        /\ i < put => stored[i] = sample

\* What the main task has published, against what is in flash meanwhile.
InWindow ==
    /\ main > 0 => base <= settled /\ cuts <= torn
    /\ \A i \in Index : attribute[i] <= stored[i]
    /\ \A i \in Readable : i < main => /\ base <= attribute[i]
                                       /\ \A j \in Index : attribute[i] <= stored[j] + 1 + torn

IInv == TypeOK /\ InFlash /\ InWindow /\ PublishedTogether

LEMMA InvInit == Init => IInv
<1> SUFFICES ASSUME Init PROVE InFlash /\ InWindow /\ PublishedTogether
  BY TypeInit DEF IInv
<1> QED
  BY Bounds DEF Init, InFlash, InWindow, PublishedTogether, Behind, Amid, Zero, Index, Readable

\* Flash only grows newer.
LEMMA FlashGrows ==
    IInv /\ [Next]_vars => \A i \in Index : stored[i] <= stored'[i]
<1> SUFFICES ASSUME IInv, [Next]_vars PROVE \A i \in Index : stored[i] <= stored'[i]
  OBVIOUS
<1> USE Bounds DEF IInv, TypeOK, ChipType, InFlash, Index, flash
<1>1. CASE Store
  BY <1>1 DEF Store
<1>2. CASE ~Store
  <2>1. stored' = stored
    BY <1>2 DEF Next, MainStep, Measure, Stored, IntervalOver, Refresh, Publish, WindowOver,
         Restart, vars
  <2> QED
    BY <2>1
<1> QED
  BY <1>1, <1>2

LEMMA InFlashStep == IInv /\ [Next]_vars => InFlash'
<1> SUFFICES ASSUME IInv, [Next]_vars PROVE InFlash'
  OBVIOUS
<1> USE Bounds DEF IInv, TypeOK, ChipType, InFlash, Behind, Amid, Index, chip, flash, history
<1>1. CASE Measure
  BY <1>1 DEF Measure, GetTimeMs
<1>2. CASE Store
  <2>1. /\ put \in Index /\ put' = put + 1 /\ task = "store" /\ task' = "store"
        /\ sample' = IF put = 1 THEN sample + 1 ELSE sample
        /\ UNCHANGED <<settled, cuts>>
    BY <1>2 DEF Store
  <2>2. /\ stored'[put] = sample'
        /\ \A i \in Index : i # put => stored'[i] = stored[i]
    BY <1>2, <2>1 DEF Store
  <2>3. Behind' = cuts + 1 /\ (put = 1 => Behind = cuts) /\ (put > 1 => Behind = cuts + 1)
    BY <2>1
  <2>4. ASSUME NEW i \in Index
        PROVE  /\ settled' <= stored'[i] /\ stored'[i] <= sample'
               /\ sample' <= stored'[i] + (cuts + 1)
               /\ i < put' => stored'[i] = sample'
    <3>1. CASE i = put
      BY <2>1, <2>2, <3>1
    <3>2. CASE i # put
      <4>1. stored'[i] = stored[i] /\ stored[i] \in Nat /\ sample \in Nat /\ cuts \in Nat
            /\ put \in Nat
        BY <2>1, <2>2, <3>2
      <4>2. settled <= stored[i] /\ stored[i] <= sample /\ sample <= stored[i] + Behind
            /\ (i < put => stored[i] = sample)
        OBVIOUS
      <4> HIDE DEF Behind, Amid, InFlash
      <4>3. CASE put = 1
        BY <2>1, <2>3, <3>2, <4>1, <4>2, <4>3
      <4>4. CASE put > 1
        BY <2>1, <2>3, <3>2, <4>1, <4>2, <4>4
      <4> QED
        BY <2>1, <4>3, <4>4
    <3> QED
      BY <3>1, <3>2
  <2> QED
    BY <2>1, <2>3, <2>4
<1>3. CASE Stored
  BY <1>3 DEF Stored
<1>4. CASE IntervalOver
  BY <1>4 DEF IntervalOver
<1>5. CASE Refresh
  BY <1>5 DEF Refresh
<1>6. CASE Publish \/ WindowOver
  BY <1>6 DEF Publish, WindowOver
<1>7. CASE Restart
  BY <1>7 DEF Restart
<1>8. CASE UNCHANGED vars
  BY <1>8 DEF vars
<1> QED
  BY <1>1, <1>2, <1>3, <1>4, <1>5, <1>6, <1>7, <1>8 DEF Next, MainStep

\* A window stays as it is while flash grows newer under it.
LEMMA WindowKept ==
    ASSUME ChipType, ChipType', WindowType, InWindow,
           UNCHANGED <<main, attribute, base, torn>>,
           settled <= settled', cuts' <= cuts,
           \A i \in Index : stored[i] <= stored'[i]
    PROVE  InWindow'
<1> USE DEF ChipType, WindowType, InWindow, Readable
<1>1. main' > 0 => base' <= settled' /\ cuts' <= torn'
  OBVIOUS
<1>2. \A i \in Index : attribute'[i] <= stored'[i]
  OBVIOUS
<1>3. ASSUME NEW i \in Readable, i < main', NEW j \in Index
      PROVE  base' <= attribute'[i] /\ attribute'[i] <= stored'[j] + 1 + torn'
  <2>1. base <= attribute[i] /\ attribute[i] <= stored[j] + 1 + torn /\ stored[j] <= stored'[j]
    BY <1>3
  <2>2. attribute[i] \in Nat /\ stored[j] \in Nat /\ stored'[j] \in Nat /\ torn \in Nat
    BY <1>3
  <2> QED
    BY <2>1, <2>2
<1>4. \A i \in Readable : i < main' => base' <= attribute'[i]
  <2>1. \A i \in Readable : i < main => base <= attribute[i]
    OBVIOUS
  <2> QED
    BY <2>1
<1> QED
  BY <1>1, <1>2, <1>3, <1>4

\* What is published together is what InWindow says of the flash, at the time
\* of the later of the two.
LEMMA InWindowStep == IInv /\ [Next]_vars => InWindow' /\ PublishedTogether'
<1> SUFFICES ASSUME IInv, [Next]_vars PROVE InWindow' /\ PublishedTogether'
  OBVIOUS
<1>0. /\ ChipType /\ ChipType' /\ WindowType /\ WindowType' /\ InFlash /\ InWindow
      /\ \A i \in Index : stored[i] <= stored'[i]
  BY TypeStep, FlashGrows DEF IInv, TypeOK
<1>k. ASSUME UNCHANGED <<main, attribute, base, torn>>, settled <= settled', cuts' <= cuts
      PROVE  InWindow' /\ PublishedTogether'
  BY <1>0, <1>k, WindowKept DEF IInv, PublishedTogether
<1>1. CASE Measure \/ IntervalOver \/ Store
  BY <1>0, <1>1, <1>k DEF Measure, IntervalOver, Store, window, history, ChipType
<1>2. CASE Stored
  <2>1. settled <= settled' /\ cuts' <= cuts
    BY <1>0, <1>2 DEF Stored, InFlash, ChipType
  <2> QED
    BY <1>2, <1>k, <2>1 DEF Stored, window
<1>3. CASE Refresh
  <2>1. InWindow'
    BY <1>0, <1>3, Bounds DEF Refresh, InWindow, ChipType, WindowType, Index, Readable, flash,
       history
  <2>2. PublishedTogether'
    BY <1>3, Bounds DEF Refresh, PublishedTogether, Index, Readable
  <2> QED
    BY <2>1, <2>2
<1>4. CASE Publish
  <2>1. /\ main \in Index /\ main' = main + 1
        /\ UNCHANGED <<stored, sample, cuts, settled, base, torn, task, put>>
        /\ \A i \in Index : i # main => attribute'[i] = attribute[i]
        /\ attribute'[main] = IF main \in Readable THEN stored[main] ELSE attribute[main]
    BY <1>0, <1>4 DEF Publish, WindowType, chip, flash, history
  <2>2. cuts <= torn /\ base <= settled
    BY <1>0, <2>1 DEF InWindow, Index
  <2>3. \A j \in Index : stored[main] <= stored[j] + 1 + torn
    BY <1>0, <2>1, <2>2 DEF InFlash, Behind, ChipType, WindowType
  <2>4. \A i \in Index : attribute'[i] <= stored'[i]
    BY <1>0, <2>1 DEF InWindow, ChipType, WindowType
  <2>5. ASSUME NEW i \in Readable, i < main'
        PROVE  /\ base' <= attribute'[i]
               /\ \A j \in Index : attribute'[i] <= stored'[j] + 1 + torn'
    <3>1. CASE i = main
      BY <1>0, <2>1, <2>2, <2>3, <3>1, <2>5 DEF InFlash, ChipType, WindowType, Readable
    <3>2. CASE i # main
      <4>1. i < main /\ i \in Index
        BY <2>1, <2>5, <3>2, Bounds DEF Index, Readable
      <4> QED
        BY <1>0, <2>1, <3>2, <4>1, <2>5 DEF InWindow
    <3> QED
      BY <3>1, <3>2
  <2>6. InWindow'
    BY <2>1, <2>2, <2>4, <2>5 DEF InWindow
  <2>7. ASSUME NEW i \in Readable, NEW j \in Readable, i < j, j < main'
        PROVE  attribute'[i] <= attribute'[j] + 1 + torn'
    <3>0. i \in Index /\ j \in Index /\ i < main /\ i # main
      BY <2>1, <2>7, Bounds DEF Index, Readable
    <3>1. CASE j = main
      BY <1>0, <2>1, <2>7, <3>0, <3>1 DEF InWindow
    <3>2. CASE j # main
      <4>1. j < main
        BY <2>1, <2>7, <3>0, <3>2, Bounds DEF Index
      <4> QED
        BY <2>1, <2>7, <3>0, <3>2, <4>1 DEF IInv, PublishedTogether
    <3> QED
      BY <3>1, <3>2
  <2> QED
    BY <2>6, <2>7 DEF PublishedTogether
<1>5. CASE WindowOver \/ Restart
  <2>1. main' = 0 /\ UNCHANGED <<stored, attribute>>
    BY <1>5 DEF WindowOver, Restart, flash
  <2> QED
    BY <1>0, <2>1, Bounds DEF InWindow, PublishedTogether, Readable, Index
<1>6. CASE UNCHANGED vars
  BY <1>0, <1>6, <1>k DEF vars, window, history, ChipType
<1> QED
  BY <1>1, <1>2, <1>3, <1>4, <1>5, <1>6 DEF Next, MainStep

LEMMA InvStep == IInv /\ [Next]_vars => IInv'
  BY TypeStep, InFlashStep, InWindowStep DEF IInv

\* The variables keep their types.
THEOREM TypeCorrect == Spec => []TypeOK
  BY TypeInit, TypeStep, PTL DEF Spec

\* Two attributes published in one refresh are a sample apart at most, and one
\* more for each restart that had cut a sample short.
THEOREM Together == Spec => []PublishedTogether
<1>1. IInv => PublishedTogether
  BY DEF IInv
<1> QED
  BY InvInit, InvStep, <1>1, PTL DEF Spec

\* A refresh publishes nothing older than the last whole sample before it.
THEOREM Fresh == Spec => []PublishedFresh
<1>1. IInv => PublishedFresh
  BY DEF IInv, InWindow, PublishedFresh
<1> QED
  BY InvInit, InvStep, <1>1, PTL DEF Spec

\* Over all windows and restarts, no attribute goes back to an older sample.
THEOREM Forward == Spec => NeverBackward
<1>1. ASSUME IInv, [Next]_vars
      PROVE  \A i \in Readable : attribute'[i] >= attribute[i]
  <2> USE <1>1, Bounds DEF IInv, TypeOK, ChipType, WindowType, InWindow, Readable, Index, window
  <2>1. CASE Publish
    <3>1. attribute' = [attribute EXCEPT ![main] = IF main \in Readable THEN stored[main] ELSE @]
      BY <2>1 DEF Publish
    <3>2. SUFFICES ASSUME NEW i \in Readable PROVE attribute'[i] >= attribute[i]
      OBVIOUS
    <3>3. attribute'[i] = IF i = main THEN stored[i] ELSE attribute[i]
      BY <3>1
    <3>4. attribute[i] \in Nat /\ attribute[i] <= stored[i]
      OBVIOUS
    <3>5. stored[i] \in Nat
      OBVIOUS
    <3> HIDE <1>1, Bounds DEF IInv, TypeOK, ChipType, WindowType, InWindow, Readable, Index, window
    <3> QED
      BY <3>3, <3>4, <3>5
  <2>2. CASE ~Publish
    <3>1. attribute' = attribute
      BY <2>2 DEF Next, MainStep, Measure, Store, Stored, IntervalOver, Refresh, WindowOver,
           Restart, vars
    <3> QED
      BY <3>1
  <2> QED
    BY <2>1, <2>2
<1>2. IInv /\ [Next]_vars => [\A i \in Readable : attribute'[i] >= attribute[i]]_vars
  BY <1>1
<1> QED
  BY InvInit, InvStep, <1>2, PTL DEF Spec, NeverBackward

(* ------------------------------ Schedule ------------------------------- *)

\* The time since the chip started.
Elapsed == clock + ClockRange * wraps

\* BSEC2 has counted every wrap of millis() but the last, and sees that one by
\* a clock that went back.
InTime ==
    /\ task \in {"absent", "none"} =>
           clock = 0 /\ lastTime = 0 /\ overflows = 0 /\ wraps = 0 /\ nextCall = 0
    /\ task \in {"store", "delay"} =>
           lastTime = clock /\ overflows = wraps /\ nextCall <= Elapsed + Rate
    /\ task = "measure" => Overflows = wraps /\ nextCall <= Elapsed

TInv == ChipType /\ TimeType /\ InTime

LEMMA InTimeStep == TInv /\ [Next]_vars => TInv'
<1> SUFFICES ASSUME TInv, [Next]_vars PROVE InTime'
  BY ChipTypeStep, TimeTypeStep DEF TInv
<1>0. /\ clock \in Nat /\ wraps \in Nat /\ overflows \in Nat /\ nextCall \in Nat
      /\ lastTime \in Nat /\ clock < ClockRange /\ lastTime < ClockRange
      /\ ClockRange * wraps \in Nat
  BY Bounds DEF TInv, TimeType
<1>1. CASE Measure
  <2>1. TimeMs = Elapsed /\ Elapsed \in Nat
    BY <1>0, <1>1 DEF Measure, TInv, InTime, TimeMs, Elapsed
  <2>2. /\ lastTime' = clock' /\ clock' = clock /\ wraps' = wraps /\ overflows' = wraps'
        /\ task' = "store"
    BY <1>1 DEF Measure, GetTimeMs, TInv, InTime
  <2>3. nextCall' = nextCall \/ nextCall' = Elapsed + Rate
    BY <1>1, <2>1 DEF Measure
  <2>4. nextCall <= Elapsed
    BY <1>1 DEF Measure, TInv, InTime
  <2>5. nextCall' <= Elapsed' + Rate
    <3>1. Elapsed' = Elapsed
      BY <2>2 DEF Elapsed
    <3> QED
      BY <1>0, <2>1, <2>3, <2>4, <3>1, Bounds
  <2> QED
    BY <2>2, <2>5 DEF InTime
<1>2. CASE Store \/ Stored
  BY <1>2 DEF Store, Stored, TInv, InTime, Elapsed, time
<1>3. CASE IntervalOver
  <2>1. /\ task = "delay" /\ task' = "measure"
        /\ lastTime = clock /\ overflows = wraps /\ nextCall <= Elapsed + Rate
        /\ UNCHANGED <<lastTime, overflows, nextCall>>
    BY <1>3 DEF IntervalOver, TInv, InTime
  <2>2. PICK d \in Interval .. MaxGap :
           IF clock + d < ClockRange
           THEN clock' = clock + d /\ wraps' = wraps
           ELSE clock' = clock + d - ClockRange /\ wraps' = wraps + 1
    BY <1>3 DEF IntervalOver
  <2>3. d \in Nat /\ Rate <= d /\ d < ClockRange
    BY Bounds
  <2>4. ClockRange * (wraps + 1) = ClockRange * wraps + ClockRange
    BY <1>0, Bounds
  <2>5. Elapsed' = Elapsed + d
    <3>1. CASE clock + d < ClockRange
      BY <1>0, <2>2, <2>3, <3>1, Bounds DEF Elapsed
    <3>2. CASE ~(clock + d < ClockRange)
      BY <1>0, <2>2, <2>3, <2>4, <3>2, Bounds DEF Elapsed
    <3> QED
      BY <3>1, <3>2
  <2>6. nextCall' <= Elapsed'
    <3>1. Elapsed \in Nat
      BY <1>0 DEF Elapsed
    <3> QED
      BY <1>0, <2>1, <2>3, <2>5, <3>1, Bounds
  <2>7. Overflows' = wraps'
    BY <1>0, <2>1, <2>2, <2>3, Bounds DEF Overflows
  <2> QED
    BY <2>1, <2>6, <2>7 DEF InTime
<1>4. CASE Refresh
  <2>1. ClockRange * 0 = 0
    BY Bounds
  <2>2. UNCHANGED <<clock, lastTime, overflows, nextCall, wraps>>
    BY <1>4 DEF Refresh, time
  <2>3. CASE task' = task
    BY <2>2, <2>3 DEF TInv, InTime, Elapsed, Overflows
  <2>4. CASE task' # task
    <3>1. task = "absent" /\ task' \in {"measure", "none"}
      BY <1>4, <2>4 DEF Refresh
    <3> QED
      BY <2>1, <2>2, <3>1 DEF TInv, InTime, Elapsed, Overflows
  <2> QED
    BY <2>3, <2>4
<1>5. CASE Publish \/ WindowOver \/ UNCHANGED vars
  BY <1>5 DEF Publish, WindowOver, vars, TInv, InTime, Elapsed, Overflows, time, chip
<1>6. CASE Restart
  BY <1>6 DEF Restart, InTime
<1> QED
  BY <1>1, <1>2, <1>3, <1>4, <1>5, <1>6 DEF Next, MainStep

\* However often millis() wraps, a run an interval after the last finds BSEC due.
THEOREM Due == Spec => []AlwaysDue
<1>1. Init => TInv
  BY TypeInit DEF TInv, TypeOK, Init, InTime
<1>2. TInv => AlwaysDue
  <2> SUFFICES ASSUME TInv, task = "measure" PROVE TimeMs >= nextCall
    BY DEF AlwaysDue
  <2>1. TimeMs = Elapsed /\ nextCall <= Elapsed
    BY DEF TInv, InTime, TimeMs, Elapsed
  <2>2. Elapsed \in Nat /\ nextCall \in Nat
    BY <2>1, TimeMsType DEF TInv, TimeType
  <2> QED
    BY <2>1, <2>2
<1> QED
  BY <1>1, InTimeStep, <1>2, PTL DEF Spec

(* ---------------------------- Measurements ----------------------------- *)

One(f) == \A i, j \in Index : f[i] # 0 /\ f[j] # 0 => f[i] = f[j]

\* BSEC2's outputs are of one measurement, and storing copies them.
InSample ==
    /\ One(out)
    /\ settled <= sample
    /\ task # "store" => put = 1
    /\ \A i \in Index : i < put => measured[i] = out[i]
    /\ task = "store" /\ put > 1 => sample > settled \/ cuts > 0
    /\ settled = sample /\ cuts = 0 => One(measured)

MInv == ChipType /\ InSample

LEMMA InSampleStep == MInv /\ [Next]_vars => MInv'
<1> SUFFICES ASSUME MInv, [Next]_vars PROVE InSample'
  BY ChipTypeStep DEF MInv
<1> USE DEF MInv, ChipType, InSample
<1>1. CASE Measure
  <2>1. \A d : One(Delivered(d))
    BY DEF One, Delivered
  <2>2. One(out')
    BY <1>1, <2>1 DEF Measure
  <2> QED
    BY <1>1, <2>2, Bounds DEF Measure, flash, history, Index, One
<1>2. CASE Store
  <2>1. /\ put \in Index /\ put' = put + 1 /\ task = "store" /\ task' = "store"
        /\ sample' = IF put = 1 THEN sample + 1 ELSE sample
        /\ UNCHANGED <<out, settled, cuts>>
    BY <1>2, Bounds DEF Store, Index
  <2>2. measured' = [measured EXCEPT ![put] = out[put]]
    BY <1>2 DEF Store
  <2>3. \A i \in Index : i < put' => measured'[i] = out'[i]
    BY <2>1, <2>2, Bounds DEF Index
  <2>4. sample' > settled' \/ cuts' > 0
    BY <2>1, Bounds DEF Index
  <2> QED
    BY <2>1, <2>3, <2>4 DEF One
<1>3. CASE Stored
  <2>1. \A i \in Index : measured[i] = out[i]
    BY <1>3, Bounds DEF Stored, Index
  <2>2. One(measured)
    BY <2>1 DEF One
  <2> QED
    BY <1>3, <2>2, Bounds DEF Stored, flash, One, Index
<1>4. CASE IntervalOver
  BY <1>4 DEF IntervalOver, flash, history, One
<1>5. CASE Refresh
  BY <1>5 DEF Refresh, flash, history, One
<1>6. CASE Publish \/ WindowOver \/ UNCHANGED vars
  BY <1>6 DEF Publish, WindowOver, vars, flash, history, chip, One
<1>7. CASE Restart
  BY <1>7, Bounds DEF Restart, Zero, flash, One, Index
<1> QED
  BY <1>1, <1>2, <1>3, <1>4, <1>5, <1>6, <1>7 DEF Next, MainStep

\* The readings of a sample that was stored whole are of one measurement.
THEOREM Whole == Spec => []OneMeasurement
<1>1. Init => MInv
  <2>1. Init => One(out) /\ One(measured)
    BY DEF Init, Zero, One
  <2> QED
    BY <2>1, TypeInit, Bounds DEF MInv, TypeOK, ChipType, Init, InSample, Index
<1>2. MInv => OneMeasurement
  BY DEF MInv, InSample, OneMeasurement, One
<1> QED
  BY <1>1, InSampleStep, <1>2, PTL DEF Spec
=============================================================================
