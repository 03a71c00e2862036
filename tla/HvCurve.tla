------------------------------ MODULE HvCurve ------------------------------
(***************************************************************************)
(* hv9910_curve_eval: a commanded level becomes the duties of the analog   *)
(* (LD) and the chopping (PWMD) channel, in fixed point: QOne, 65536 in the *)
(* code, is the full duty.  The optional pre-distortion of LD, a power law *)
(* in floating point, is left out.                                         *)
(***************************************************************************)
EXTENDS Integers

CONSTANT QOne   \* HV9910_Q_ONE

ASSUME CurveAssumption == QOne \in Nat \ {0}

Duty == 0..QOne
DimModes == {"PWM", "ANALOG", "HYBRID"}

VARIABLE curve   \* the dimming configuration in force: mode, knee, burst floor

Clamp(x) == IF x > QOne THEN QOne ELSE x

\* Mutant: the quotient is not scaled up.
QDivWhole(a, b) == IF b = 0 THEN QOne ELSE a

\* Rounded quotient; the dividend is 64 bits wide, so nothing is lost.
QDiv(a, b) == IF b = 0 THEN QOne ELSE (a * QOne + b \div 2) \div b

\* Mutant: anything from half the floor up goes through as it is.
SnapPwmdCut(d, floor) == IF d >= floor \div 2 THEN d ELSE 0

\* A burst is at least the floor, or there is none.
SnapPwmd(d, floor) ==
    IF floor = 0 \/ d >= floor THEN d
    ELSE IF d >= floor \div 2 THEN floor ELSE 0

Out(ld, pwmd) == [ld |-> ld, pwmd |-> pwmd, lit |-> pwmd > 0]

\* Mutant: below the knee the reference is pinned at its maximum.
HybridPinned(level, knee, floor) ==
    IF level >= knee THEN Out(level, QOne)
    ELSE Out(QOne, SnapPwmd(QDiv(level, knee), floor))

Hybrid(level, knee, floor) ==
    IF level >= knee THEN Out(level, QOne)
    ELSE Out(knee, SnapPwmd(QDiv(level, knee), floor))

CurveEval(mode, level, crossover, minOn) ==
    LET l == Clamp(level)
        floor == Clamp(minOn)
        knee == IF crossover = 0 THEN 1 ELSE Clamp(crossover)
    IN  IF l = 0 THEN [ld |-> 0, pwmd |-> 0, lit |-> FALSE]
        ELSE CASE mode = "ANALOG" -> Out(l, QOne)
               [] mode = "PWM" -> Out(QOne, SnapPwmd(l, floor))
               [] OTHER -> Hybrid(l, knee, floor)

\* The fixed-point terms of the configuration the driver starts with and of any
\* that it adopts later.
Settings  == [mode : DimModes, crossover : Duty, minOn : Duty]
CurveInit == curve \in Settings
CurveNext == curve' \in Settings
CurveSpec == CurveInit /\ [][CurveNext]_curve

-----------------------------------------------------------------------------
(* What the mapping promises under the configuration in force. *)

OutAt(level) == CurveEval(curve.mode, level, curve.crossover, curve.minOn)

\* Light is proportional to the product of the duties, in 1/QOne^2.
LightAt(level) == OutAt(level).ld * OutAt(level).pwmd

Distance(x, y) == IF x > y THEN x - y ELSE y - x

\* The light follows the level within one step at every level, the knee
\* included; only the burst floor takes it further away, near zero.
CurveFollowsLevel ==
    \A l \in Duty :
      OutAt(l).lit /\ OutAt(l).pwmd # curve.minOn
        => Distance(LightAt(l), l * QOne) <= QOne

\* More level is never less light, nor an LED that goes dark.
CurveMonotone ==
    \A l \in 0..(QOne - 1) : LightAt(l) <= LightAt(l + 1)

\* A burst is never shorter than the floor, and no level of half the floor or
\* more is swallowed.
CurveWholeBursts ==
    \A l \in Duty :
      /\ OutAt(l).pwmd = 0 \/ OutAt(l).pwmd >= curve.minOn
      /\ curve.mode = "PWM" /\ l > 0 /\ 2 * l >= curve.minOn => OutAt(l).lit
=============================================================================
