------------------------------ MODULE TpsFilter ------------------------------
(***************************************************************************)
(* How poe_monitor_task turns raw samples into readiness and source class: *)
(* the median of three ADC readings, hysteresis on VBUS, a debounce per    *)
(* signal.  PowerManager leaves the outcome open; here it is computed.     *)
(* `samples' keeps, for the property, what was read so far.                *)
(***************************************************************************)
EXTENDS Integers, Sequences

CONSTANTS
    DebounceSamples,  \* DEBOUNCE_SAMPLES
    VbusMin,          \* vbus_min_mv
    VbusHysteresis,   \* vbus_hysteresis_mv
    Samples           \* what the inputs may read as

\* A sample is three VBUS readings (0 for one that failed) and the T2P line.
ASSUME TpsAssumption ==
    /\ DebounceSamples \in Nat \ {0}
    /\ VbusMin \in Nat /\ VbusHysteresis \in 0..VbusMin
    /\ Samples \subseteq [readings : [1..3 -> Nat], t2p : BOOLEAN]

VARIABLES
    monitor,  \* poe_monitor_task's vbus_deb and t2p_deb
    samples   \* the samples so far

tpsVars == <<monitor, samples>>

\* median3's three exchanges.
Median3(a, b, c) ==
    LET lo == IF a > b THEN b ELSE a
        hi == IF a > b THEN a ELSE b
        top == IF hi > c THEN c ELSE hi
    IN  IF lo > top THEN lo ELSE top

\* One signal's debounce_t, from the first raw sample.
Undecided(sample) == [last |-> sample, confirmed |-> FALSE, stable |-> 0]

StableCount(d, sample) ==
    IF sample # d.last THEN 0
    ELSE IF d.stable < DebounceSamples THEN d.stable + 1 ELSE d.stable

DebounceUpdate(d, sample) ==
    [last |-> sample, stable |-> StableCount(d, sample),
     confirmed |-> IF StableCount(d, sample) >= DebounceSamples THEN sample ELSE d.confirmed]

\* Mutant: one threshold for both directions.
VbusSampleFlat(mv, ok) == mv >= VbusMin

\* vbus_threshold_sample: the threshold is lower once VBUS is confirmed.
VbusSample(mv, ok) == mv >= IF ok THEN VbusMin - VbusHysteresis ELSE VbusMin

\* read_vbus_mv
Mv(sample) == Median3(sample.readings[1], sample.readings[2], sample.readings[3])

Ready == monitor.vbus.confirmed

\* Unclassified means the smaller budget.
SourceClass ==
    IF ~Ready THEN "NONE" ELSE IF monitor.t2p.confirmed THEN "TYPE2" ELSE "TYPE1"

\* The task's first reads, and one turn of its loop.
TpsInit ==
    \E s \in Samples :
      /\ monitor = [vbus |-> Undecided(Mv(s) >= VbusMin), t2p |-> Undecided(s.t2p)]
      /\ samples = <<s>>

Turn(s) ==
    /\ monitor' = [vbus |-> DebounceUpdate(monitor.vbus,
                                           VbusSample(Mv(s), monitor.vbus.confirmed)),
                   t2p  |-> DebounceUpdate(monitor.t2p, s.t2p)]
    /\ samples' = Append(samples, s)

TpsNext == \E s \in Samples : Turn(s)

TpsSpec == TpsInit /\ [][TpsNext]_tpsVars

-----------------------------------------------------------------------------
(* What the filter is for. *)

\* Two of three readings are at or above, or below, a voltage.
MostlyAbove(mv, s) ==
    \E i, j \in 1..3 : i # j /\ s.readings[i] >= mv /\ s.readings[j] >= mv
MostlyBelow(mv, s) ==
    \E i, j \in 1..3 : i # j /\ s.readings[i] < mv /\ s.readings[j] < mv

\* The samples that speak for and against each of the two signals.
AtMin     == {j \in 1..Len(samples) : MostlyAbove(VbusMin, samples[j])}
UnderBand == {j \in 1..Len(samples) : MostlyBelow(VbusMin - VbusHysteresis, samples[j])}
Active    == {j \in 1..Len(samples) : samples[j].t2p}
Clear     == {j \in 1..Len(samples) : ~samples[j].t2p}

\* The DebounceSamples + 1 samples up to the k-th exist and are all in J.
SteadyAt(J, k) == k > DebounceSamples /\ (k - DebounceSamples)..k \subseteq J

\* The latest steady stretch decides; before the first one the answer is no.
LatestIsYes(yes, no) ==
    \E k \in yes : SteadyAt(yes, k) /\ \A j \in no : j > k => ~SteadyAt(no, j)

\* Readiness changes only on a steady stretch of samples clear of the band
\* between the thresholds, and always on one: a voltage that hovers, a single
\* bad reading or a short dip changes nothing.  The class follows T2P alike,
\* and there is one exactly while ready.
PowerFollowsSteadyInput ==
    /\ Ready = LatestIsYes(AtMin, UnderBand)
    /\ SourceClass = IF ~LatestIsYes(AtMin, UnderBand) THEN "NONE"
                     ELSE IF LatestIsYes(Active, Clear) THEN "TYPE2" ELSE "TYPE1"
=============================================================================
