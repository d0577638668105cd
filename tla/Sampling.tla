------------------------------ MODULE Sampling ------------------------------
(***************************************************************************)
(* From the environmental sensor to the attributes of EnvironmentService:  *)
(* the task "BME" runs BSEC2 and stores its outputs in flash, one by one   *)
(* (BME688.cpp); the main task reads them from flash, one by one, when it  *)
(* publishes them (Environment.cpp).  Nothing keeps the two apart, and a   *)
(* restart of the chip may come between any two puts.                      *)
(*                                                                         *)
(* A value in flash is known by the sample it was stored with and by the   *)
(* sample it was measured for: a run without a result stores what the      *)
(* outputs were before, and 0 is the 0.0F of zeroOutputs.                  *)
(***************************************************************************)
EXTENDS Naturals, Sequences

CONSTANTS
    Keys,        \* the stored readings, in the order of BME688's operation
    Deliveries,  \* the sets of outputs bsec_do_steps may return together
    ClockRange,  \* values of millis(), 2^32
    Interval,    \* DEFAULT_INTERVAL, between two runs
    MaxGap,      \* bounds the time between two runs
    Rate,        \* BSEC asks to be called again so much later
    MaxSamples   \* bounds the samples stored

N == Len(Keys)
Index == 1 .. N

ASSUME KeysAreASequence == Keys \in Seq(STRING) /\ N > 0
ASSUME ScheduleFits ==
    /\ Rate \in Nat /\ Interval \in Nat /\ MaxGap \in Nat /\ ClockRange \in Nat
    /\ Rate <= Interval /\ Interval <= MaxGap /\ MaxGap < ClockRange
ASSUME SampleBound == MaxSamples \in Nat

VARIABLES
    task,       \* where the BME task is
    put,        \* the next reading it stores
    out,        \* BSEC2's outputs, by the sample they were measured for
    stored,     \* flash: the sample a reading was stored with,
    measured,   \*        and the one it was measured for
    clock,      \* millis()
    lastTime,   \* BSEC2's: millis() at the last run,
    overflows,  \*          millisOverflowCounter,
    nextCall,   \*          and when BSEC wants the next
    main,       \* the attribute the main task publishes next
    attribute,  \* the sample each attribute was last published from, if any
    \* History:
    sample,     \* samples whose storing has begun
    settled,    \* the last sample stored as a whole
    cuts,       \* restarts in the middle of storing, since then
    wraps,      \* times millis() has wrapped
    base,       \* settled, and
    torn        \* cuts, when the main task began to publish

chip    == <<task, put, out>>
flash   == <<stored, measured>>
time    == <<clock, lastTime, overflows, nextCall, wraps>>
history == <<sample, settled, cuts>>
window  == <<main, attribute, base, torn>>
vars == <<chip, flash, time, history, window>>

\* "none": xTaskCreate has failed, and nobody tries again.
TaskStates == {"absent", "none", "measure", "store", "delay"}

ChipType ==
    /\ task \in TaskStates
    /\ put \in 1 .. N + 1
    /\ out \in [Index -> Nat]
    /\ stored \in [Index -> Nat] /\ measured \in [Index -> Nat]
    /\ sample \in Nat /\ settled \in Nat /\ cuts \in Nat

TimeType ==
    /\ clock \in 0 .. ClockRange - 1 /\ lastTime \in 0 .. ClockRange - 1
    /\ overflows \in Nat /\ nextCall \in Nat /\ wraps \in Nat

WindowType ==
    /\ main \in 0 .. N + 1
    /\ attribute \in [Index -> Nat]
    /\ base \in Nat /\ torn \in Nat

TypeOK == ChipType /\ TimeType /\ WindowType

Zero == [i \in Index |-> 0]

\* The flash of a new device.
Init ==
    /\ task = "absent" /\ put = 1 /\ out = Zero
    /\ stored = Zero /\ measured = Zero
    /\ clock = 0 /\ lastTime = 0 /\ overflows = 0 /\ nextCall = 0
    /\ main = 0 /\ attribute = Zero
    /\ sample = 0 /\ settled = 0 /\ cuts = 0 /\ wraps = 0 /\ base = 0 /\ torn = 0

(* ----------------------------- The BME task ---------------------------- *)

\* Mutation of Overflows: wraps of millis() are not counted.
OverflowsUncounted == overflows

\* BSEC2::getTimeMs
Overflows == IF lastTime > clock THEN overflows + 1 ELSE overflows
TimeMs == clock + ClockRange * Overflows

GetTimeMs == lastTime' = clock /\ overflows' = Overflows

\* Mutation of Delivered: without zeroOutputs.
DeliveredOver(d) == [i \in Index |-> IF Keys[i] \in d THEN sample + 1 ELSE out[i]]

\* zeroOutputs, and then what bsec_do_steps returned.
Delivered(d) == [i \in Index |-> IF Keys[i] \in d THEN sample + 1 ELSE 0]

\* The altitude is computed from the pressure of the same run.
Drawn == {d \in Deliveries : "ALT" \in d <=> "PRE" \in d}

\* BSEC2::run, whose result nobody looks at: it is not time yet; BSEC, the
\* sensor or its bus fail, before or after the next call is scheduled; or
\* there are outputs.
Measure ==
    /\ task = "measure"
    /\ sample < MaxSamples
    /\ GetTimeMs
    /\ \/ /\ TimeMs < nextCall
          /\ UNCHANGED <<out, nextCall>>
       \/ /\ TimeMs >= nextCall
          /\ nextCall' \in {nextCall, TimeMs + Rate}
          /\ UNCHANGED out
       \/ /\ TimeMs >= nextCall
          /\ nextCall' = TimeMs + Rate
          /\ \E d \in Drawn : out' = Delivered(d)
    /\ task' = "store"
    /\ UNCHANGED <<put, flash, clock, wraps, history, window>>

\* Mutation of Store: the altitude is not stored.
StoreNotAltitude ==
    /\ task = "store" /\ put <= N
    /\ put' = put + 1
    /\ sample' = IF put = 1 THEN sample + 1 ELSE sample
    /\ stored' = [stored EXCEPT ![put] = IF Keys[put] = "ALT" THEN @ ELSE sample']
    /\ measured' = [measured EXCEPT ![put] = out[put]]
    /\ UNCHANGED <<task, out, time, settled, cuts, window>>

\* Persistent<float>::set
Store ==
    /\ task = "store" /\ put <= N
    /\ put' = put + 1
    /\ sample' = IF put = 1 THEN sample + 1 ELSE sample
    /\ stored' = [stored EXCEPT ![put] = sample']
    /\ measured' = [measured EXCEPT ![put] = out[put]]
    /\ UNCHANGED <<task, out, time, settled, cuts, window>>

Stored ==
    /\ task = "store" /\ put = N + 1
    /\ task' = "delay" /\ put' = 1
    /\ settled' = sample /\ cuts' = 0
    /\ UNCHANGED <<out, flash, time, sample, window>>

\* Mutation of IntervalOver: millis() does not wrap.
IntervalOverWide ==
    /\ task = "delay"
    /\ task' = "measure"
    /\ \E d \in Interval .. MaxGap : clock' = clock + d
    /\ UNCHANGED <<put, out, flash, lastTime, overflows, nextCall, wraps, history, window>>

\* The microservice's delay; the clock stands for all the time since the last
\* run.
IntervalOver ==
    /\ task = "delay"
    /\ task' = "measure"
    /\ \E d \in Interval .. MaxGap :
           IF clock + d < ClockRange
           THEN clock' = clock + d /\ UNCHANGED wraps
           ELSE clock' = clock + d - ClockRange /\ wraps' = wraps + 1
    /\ UNCHANGED <<put, out, flash, lastTime, overflows, nextCall, history, window>>

(* ----------------------------- The main task --------------------------- *)

\* EnvironmentService::refresh: BME688::get() makes the task the first time.
Refresh ==
    /\ main = 0
    /\ main' = 1
    /\ task' \in IF task = "absent" THEN {"measure", "none"} ELSE {task}
    /\ base' = settled /\ torn' = cuts
    /\ UNCHANGED <<put, out, flash, time, history, attribute>>

\* setValue((uint8_t*)&x) without a length publishes the address of x: nothing
\* of these two samples gets out.
ByAddress == {"CO2", "VOC"}
Readable == {i \in Index : Keys[i] \notin ByAddress}

\* Mutation of Publish: what was published last is not read again.
PublishCached ==
    /\ main \in Index
    /\ main' = main + 1
    /\ attribute' = [attribute EXCEPT ![main] =
           IF main \in Readable /\ @ = 0 THEN stored[main] ELSE @]
    /\ UNCHANGED <<chip, flash, time, history, base, torn>>

\* Persistent<float>::get, setValue and notify
Publish ==
    /\ main \in Index
    /\ main' = main + 1
    /\ attribute' = [attribute EXCEPT ![main] =
           IF main \in Readable THEN stored[main] ELSE @]
    /\ UNCHANGED <<chip, flash, time, history, base, torn>>

\* The window is over, and the service deleted.
WindowOver ==
    /\ main = N + 1
    /\ main' = 0
    /\ UNCHANGED <<chip, flash, time, history, attribute, base, torn>>

(* ----------------------------- The chip -------------------------------- *)

\* Mutation of Restart: nothing is kept.
RestartEmpty ==
    /\ task' = "absent" /\ put' = 1 /\ out' = Zero /\ stored' = Zero /\ measured' = Zero
    /\ clock' = 0 /\ lastTime' = 0 /\ overflows' = 0 /\ nextCall' = 0 /\ wraps' = 0
    /\ main' = 0
    /\ cuts' = IF task = "store" /\ put > 1 THEN cuts + 1 ELSE cuts
    /\ UNCHANGED <<attribute, sample, settled, base, torn>>

\* A panic, or the battery is out: what is in flash stays.
Restart ==
    /\ task' = "absent" /\ put' = 1 /\ out' = Zero
    /\ clock' = 0 /\ lastTime' = 0 /\ overflows' = 0 /\ nextCall' = 0 /\ wraps' = 0
    /\ main' = 0
    /\ cuts' = IF task = "store" /\ put > 1 THEN cuts + 1 ELSE cuts
    /\ UNCHANGED <<flash, attribute, sample, settled, base, torn>>

(* ----------------------------------------------------------------------- *)

MainStep == Refresh \/ Publish \/ WindowOver

Next == Measure \/ Store \/ Stored \/ IntervalOver \/ MainStep \/ Restart

Spec == Init /\ [][Next]_vars

\* The main task runs; nothing is assumed of the sensor.
FairSpec == Spec /\ WF_vars(MainStep)

(* ----------------------------- Properties ------------------------------ *)

\* Of two attributes published in one refresh the later is behind by at most
\* one sample, and one more for each restart that cut a sample short before:
\* the main task reads in the order in which the other stores.
PublishedTogether ==
    \A i, j \in Readable : i < j /\ j < main => attribute[i] <= attribute[j] + 1 + torn

\* What is published is no older than the last sample that was wholly stored
\* when the refresh began.
PublishedFresh == \A i \in Readable : i < main => attribute[i] >= base

\* No attribute goes back to an older sample, over windows and restarts.
NeverBackward == [][\A i \in Readable : attribute'[i] >= attribute[i]]_vars

\* The readings of one stored sample come from one measurement, or are what is
\* stored for the zeros of zeroOutputs.
OneMeasurement ==
    settled = sample /\ cuts = 0
        => \A i, j \in Index : measured[i] # 0 /\ measured[j] # 0 => measured[i] = measured[j]

\* An interval after the last, a run finds BSEC due, also when millis() has
\* wrapped (run: callTimeMs >= nextCall).
AlwaysDue == task = "measure" => TimeMs >= nextCall

\* A stored sample, or a later one, is published, unless the chip keeps
\* restarting.
StoredIsPublished ==
    <>[][~Restart]_vars
        => \A n \in 1 .. MaxSamples : settled = n ~> \A i \in Readable : attribute[i] >= n

\* "Carbon Dioxide Levels in PPM", "Volitile Organic Compounds in PPM"
\* (Environment.hpp): every attribute tells of the last sample.
EveryAttributeTells == \A i \in Index : i < main => attribute[i] >= base
=============================================================================
