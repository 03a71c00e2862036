---------------------------- MODULE MCAlgorithms ----------------------------
(***************************************************************************)
(* The three algorithms on small instances, one behaviour about one of     *)
(* them: packets for the rate limiter, samples for the power monitor,      *)
(* settings for the dimming curve.                                         *)
(***************************************************************************)
EXTENDS RateLimit, TpsFilter, HvCurve

CONSTANTS MaxPackets, MaxSamples   \* bounds

vars == <<rateVars, tpsVars, curve>>

\* Voltages above, in and under the band, each with a reading that is off.
MCSamples ==
    LET band == VbusMin - VbusHysteresis
    IN  [readings : {<<VbusMin, VbusMin, VbusMin>>, <<0, VbusMin, VbusMin>>,
                     <<band, VbusMin, band>>, <<VbusMin, 0, 0>>},
         t2p : BOOLEAN]

\* The states in which the other two algorithms wait.
NoPackets == log = <<>>
OneSample == samples = <<[readings |-> <<VbusMin, 0, 0>>, t2p |-> FALSE]>>
PlainPwm  == curve = [mode |-> "PWM", crossover |-> 0, minOn |-> 0]

Init == RateInit /\ TpsInit /\ CurveInit

Next ==
    \/ OneSample /\ PlainPwm /\ Len(log) < MaxPackets
       /\ RateNext /\ UNCHANGED <<tpsVars, curve>>
    \/ NoPackets /\ PlainPwm /\ Len(samples) < MaxSamples
       /\ TpsNext /\ UNCHANGED <<rateVars, curve>>
    \/ NoPackets /\ OneSample
       /\ CurveNext /\ UNCHANGED <<rateVars, tpsVars>>

Spec == Init /\ [][Next]_vars
=============================================================================
