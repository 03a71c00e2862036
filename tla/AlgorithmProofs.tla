-------------------------- MODULE AlgorithmProofs --------------------------
(***************************************************************************)
(* Proofs about the three algorithms: the dimming curve for every          *)
(* resolution and configuration, the power filter for every threshold,     *)
(* debounce depth and history of readings, the rate limiter for every table *)
(* size, window and sequence of packets.                                   *)
(***************************************************************************)
EXTENDS HvCurve, TpsFilter, RateLimit, TLAPS, FiniteSetTheorems,
        WellFoundedInduction

(***************************************************************************)
(* Arithmetic.                                                             *)
(***************************************************************************)

LEMMA DivBounds ==
    ASSUME NEW a \in Nat, NEW b \in Nat \ {0}
    PROVE  a \div b \in Nat /\ b * (a \div b) <= a /\ a < b * (a \div b) + b
OBVIOUS

LEMMA HalfBounds ==
    ASSUME NEW a \in Nat
    PROVE  a \div 2 \in Nat /\ 2 * (a \div 2) <= a /\ a <= 2 * (a \div 2) + 1
OBVIOUS

LEMMA TimesMono ==
    ASSUME NEW a \in Nat, NEW b \in Nat, NEW c \in Nat, a <= b
    PROVE  c * a <= c * b
OBVIOUS

LEMMA TimesCancel ==
    ASSUME NEW a \in Nat, NEW b \in Nat, NEW c \in Nat, c * a < c * b
    PROVE  a < b
OBVIOUS

(***************************************************************************)
(* The dimming curve.                                                      *)
(***************************************************************************)

LEMMA OnePositive == QOne \in Nat /\ QOne > 0
BY CurveAssumption DEF CurveAssumption

\* The scaled quotient, times the divisor, misses the scaled dividend by less
\* than half a divisor: what q_div's rounding is for.
LEMMA QDivBounds ==
    ASSUME NEW l \in Nat, NEW k \in Nat \ {0}
    PROVE  /\ QDiv(l, k) \in Nat
           /\ k * QDiv(l, k) <= l * QOne + k \div 2
           /\ l * QOne + k \div 2 < k * QDiv(l, k) + k
<1> DEFINE a == l * QOne + k \div 2
<1>1. a \in Nat  BY OnePositive, HalfBounds
<1>2. QDiv(l, k) = a \div k  BY DEF QDiv
<1> HIDE DEF a
<1>3. a \div k \in Nat /\ k * (a \div k) <= a /\ a < k * (a \div k) + k  BY <1>1, DivBounds
<1> QED BY <1>2, <1>3 DEF a

LEMMA QDivNear ==
    ASSUME NEW l \in Nat, NEW k \in 1..QOne
    PROVE  Distance(k * QDiv(l, k), l * QOne) <= QOne
<1> DEFINE x == k * QDiv(l, k)
           y == l * QOne
<1>1. k \in Nat \ {0} /\ k <= QOne  BY OnePositive
<1>2. /\ k \div 2 \in Nat /\ 2 * (k \div 2) <= k /\ k <= 2 * (k \div 2) + 1
  BY <1>1, HalfBounds
<1>3. x \in Nat /\ y \in Nat  BY <1>1, QDivBounds, OnePositive
<1>4. x <= y + k \div 2 /\ y + k \div 2 < x + k  BY <1>1, QDivBounds
<1> HIDE DEF x, y
<1>5. Distance(x, y) <= QOne  BY <1>1, <1>2, <1>3, <1>4, OnePositive DEF Distance
<1> QED BY <1>5 DEF x, y

LEMMA QDivBelowOne ==
    ASSUME NEW k \in Nat \ {0}, NEW l \in 0..k
    PROVE  QDiv(l, k) \in Duty
<1> DEFINE p == QDiv(l, k)
<1>1. l \in Nat  OBVIOUS
<1>2. p \in Nat /\ k * p <= l * QOne + k \div 2  BY <1>1, QDivBounds
<1> HIDE DEF p
<1>3. QOne * l <= QOne * k  BY <1>1, OnePositive, TimesMono
<1>4. l * QOne = QOne * l /\ k * QOne = QOne * k  BY <1>1, OnePositive
<1>5. k \div 2 \in Nat /\ k \div 2 < k  BY HalfBounds
<1>6. k * (QOne + 1) = k * QOne + k  BY OnePositive
<1>7. k * p < k * (QOne + 1)
  <2>1. k * p \in Nat /\ l * QOne \in Nat /\ k * QOne \in Nat  BY <1>1, <1>2, OnePositive
  <2> QED BY <1>2, <1>3, <1>4, <1>5, <1>6, <2>1
<1>8. p < QOne + 1  BY <1>2, <1>7, OnePositive, TimesCancel
<1> QED BY <1>2, <1>8, OnePositive DEF Duty, p

LEMMA QDivMono ==
    ASSUME NEW k \in Nat \ {0}, NEW l \in Nat, NEW h \in Nat, l <= h
    PROVE  QDiv(l, k) <= QDiv(h, k)
<1> DEFINE p == QDiv(l, k)
           q == QDiv(h, k)
<1>1. p \in Nat /\ q \in Nat  BY QDivBounds
<1>2. k * p <= l * QOne + k \div 2 /\ h * QOne + k \div 2 < k * q + k  BY QDivBounds
<1> HIDE DEF p, q
<1>3. l * QOne <= h * QOne  BY OnePositive, TimesMono
<1>4. l * QOne \in Nat /\ h * QOne \in Nat /\ k * p \in Nat /\ k * q \in Nat /\ k \div 2 \in Nat
  BY <1>1, OnePositive, HalfBounds
<1>5. k * (q + 1) = k * q + k  BY <1>1
<1>6. k * p < k * (q + 1)  BY <1>2, <1>3, <1>4, <1>5
<1>7. p < q + 1  BY <1>1, <1>6, TimesCancel
<1> QED BY <1>1, <1>7 DEF p, q

\* snap_pwmd keeps to the duties, leaves nothing between zero and the floor,
\* and otherwise changes nothing.
LEMMA SnapBounds ==
    ASSUME NEW d \in Duty, NEW f \in Duty
    PROVE  /\ SnapPwmd(d, f) \in Nat /\ SnapPwmd(d, f) <= QOne
           /\ SnapPwmd(d, f) = 0 \/ SnapPwmd(d, f) >= f
           /\ SnapPwmd(d, f) \notin {0, f} => SnapPwmd(d, f) = d
           /\ 2 * d >= f /\ d > 0 => SnapPwmd(d, f) > 0
<1>1. f \div 2 \in Nat /\ 2 * (f \div 2) <= f /\ f <= 2 * (f \div 2) + 1
  BY HalfBounds, OnePositive DEF Duty
<1> QED BY <1>1, OnePositive DEF SnapPwmd, Duty

LEMMA SnapMono ==
    ASSUME NEW d \in Duty, NEW e \in Duty, NEW f \in Duty, d <= e
    PROVE  SnapPwmd(d, f) <= SnapPwmd(e, f)
<1>1. f \div 2 \in Nat /\ 2 * (f \div 2) <= f /\ f <= 2 * (f \div 2) + 1
  BY HalfBounds, OnePositive DEF Duty
<1> QED BY <1>1, OnePositive DEF SnapPwmd, Duty

\* The knee in use.
Knee == IF curve.crossover = 0 THEN 1 ELSE curve.crossover

\* hv9910_curve_eval, case by case.
LEMMA CurveCases ==
    ASSUME CurveInit, NEW l \in Duty
    PROVE  /\ Knee \in 1..QOne
           /\ l = 0 => OutAt(l) = [ld |-> 0, pwmd |-> 0, lit |-> FALSE]
           /\ l # 0 /\ curve.mode = "ANALOG" => OutAt(l) = Out(l, QOne)
           /\ l # 0 /\ curve.mode = "PWM" => OutAt(l) = Out(QOne, SnapPwmd(l, curve.minOn))
           /\ l # 0 /\ curve.mode = "HYBRID" => OutAt(l) = Hybrid(l, Knee, curve.minOn)
<1>1. curve.crossover \in Duty /\ curve.minOn \in Duty  BY DEF CurveInit, Settings
<1>2. Clamp(l) = l /\ Clamp(curve.crossover) = curve.crossover /\ Clamp(curve.minOn) = curve.minOn
  BY <1>1, OnePositive DEF Clamp, Duty
<1>3. Knee \in 1..QOne  BY <1>1, OnePositive DEF Knee, Duty
<1> QED BY <1>2, <1>3 DEF OutAt, CurveEval, Knee

\* want_lit says whether the PWMD duty is more than nothing.
LEMMA LitMeansOn ==
    ASSUME CurveInit, NEW l \in Duty
    PROVE  OutAt(l).lit = (OutAt(l).pwmd > 0)
<1>1. curve.mode \in DimModes  BY DEF CurveInit, Settings
<1>2. OutAt(l) = [ld |-> 0, pwmd |-> 0, lit |-> FALSE] \/ \E ld, pwmd : OutAt(l) = Out(ld, pwmd)
  BY <1>1, CurveCases DEF DimModes, Hybrid
<1>3. CASE OutAt(l) = [ld |-> 0, pwmd |-> 0, lit |-> FALSE]
  <2>1. OutAt(l).lit = FALSE /\ OutAt(l).pwmd = 0  BY <1>3
  <2>2. (0 > 0) = FALSE  OBVIOUS
  <2> QED BY <2>1, <2>2, Zenon
<1>4. CASE \E ld, pwmd : OutAt(l) = Out(ld, pwmd)
  BY <1>4 DEF Out
<1> QED BY <1>2, <1>3, <1>4

LEMMA FollowsHolds ==
    ASSUME CurveInit
    PROVE  CurveFollowsLevel
<1> SUFFICES ASSUME NEW l \in Duty, OutAt(l).pwmd > 0, OutAt(l).pwmd # curve.minOn
             PROVE  Distance(LightAt(l), l * QOne) <= QOne
  BY LitMeansOn DEF CurveFollowsLevel
<1>0. curve.minOn \in Duty /\ curve.mode \in DimModes  BY DEF CurveInit, Settings
<1>1. l # 0 /\ l \in Nat /\ l <= QOne  BY CurveCases, OnePositive DEF Duty
<1>2. Distance(l * QOne, l * QOne) <= QOne
  <2>1. l * QOne \in Nat  BY <1>1, OnePositive
  <2> QED BY <2>1, OnePositive DEF Distance
<1>3. CASE curve.mode = "ANALOG"
  <2>1. OutAt(l) = Out(l, QOne)  BY <1>1, <1>3, CurveCases
  <2>2. LightAt(l) = l * QOne  BY <2>1 DEF LightAt, Out
  <2> QED BY <1>2, <2>2
<1>4. CASE curve.mode = "PWM"
  <2>1. OutAt(l) = Out(QOne, SnapPwmd(l, curve.minOn))  BY <1>1, <1>4, CurveCases
  <2>2. SnapPwmd(l, curve.minOn) > 0 /\ SnapPwmd(l, curve.minOn) # curve.minOn
    BY <2>1 DEF Out
  <2>5. SnapPwmd(l, curve.minOn) = l  BY <1>0, <2>2, SnapBounds
  <2>3. LightAt(l) = QOne * l  BY <2>1, <2>5 DEF LightAt, Out
  <2>4. QOne * l = l * QOne  BY <1>1, OnePositive
  <2> QED BY <1>2, <2>3, <2>4
<1>5. CASE curve.mode = "HYBRID"
  <2>1. OutAt(l) = Hybrid(l, Knee, curve.minOn) /\ Knee \in 1..QOne
    BY <1>1, <1>5, CurveCases
  <2>2. CASE l >= Knee
    <3>1. OutAt(l) = Out(l, QOne)  BY <2>1, <2>2 DEF Hybrid
    <3>2. LightAt(l) = l * QOne  BY <3>1 DEF LightAt, Out
    <3> QED BY <1>2, <3>2
  <2>3. CASE ~(l >= Knee)
    <3> DEFINE d == QDiv(l, Knee)
    <3>1. OutAt(l) = Out(Knee, SnapPwmd(d, curve.minOn))  BY <2>1, <2>3 DEF Hybrid
    <3>2. d \in Duty
      <4>1. Knee \in Nat \ {0} /\ l \in 0..Knee  BY <1>1, <2>1, <2>3, OnePositive
      <4> QED BY <4>1, QDivBelowOne
    <3> HIDE DEF d
    <3>3. SnapPwmd(d, curve.minOn) > 0 /\ SnapPwmd(d, curve.minOn) # curve.minOn
      BY <3>1 DEF Out
    <3>5. SnapPwmd(d, curve.minOn) = d  BY <1>0, <3>2, <3>3, SnapBounds
    <3>4. LightAt(l) = Knee * d  BY <3>1, <3>5 DEF LightAt, Out
    <3> QED BY <1>1, <2>1, <3>4, QDivNear DEF d
  <2> QED BY <2>2, <2>3
<1> QED BY <1>0, <1>3, <1>4, <1>5 DEF DimModes

\* One level more, in each mode: across zero, below the knee, at it, above it.
LEMMA MonotoneHolds ==
    ASSUME CurveInit
    PROVE  CurveMonotone
<1> SUFFICES ASSUME NEW l \in 0..(QOne - 1)
             PROVE  LightAt(l) <= LightAt(l + 1)
  BY DEF CurveMonotone
<1>0. curve.minOn \in Duty /\ curve.mode \in DimModes  BY DEF CurveInit, Settings
<1>1. l \in Duty /\ l + 1 \in Duty /\ l \in Nat /\ l + 1 # 0 /\ l + 1 \in Nat
  BY OnePositive DEF Duty
<1>2. CASE l = 0
  <2>1. LightAt(0) = 0  BY <1>1, <1>2, CurveCases, 0 * 0 = 0 DEF LightAt
  <2>2. OutAt(l + 1).ld \in Nat /\ OutAt(l + 1).pwmd \in Nat
    <3>1. CASE curve.mode = "ANALOG"
      BY <1>1, <3>1, CurveCases, OnePositive DEF Out
    <3>2. CASE curve.mode = "PWM"
      <4>1. SnapPwmd(l + 1, curve.minOn) \in Nat  BY <1>0, <1>1, SnapBounds
      <4> QED BY <1>1, <3>2, <4>1, CurveCases, OnePositive DEF Out
    <3>3. CASE curve.mode = "HYBRID"
      <4>1. OutAt(l + 1) = Hybrid(l + 1, Knee, curve.minOn) /\ Knee \in 1..QOne
        BY <1>1, <3>3, CurveCases
      <4>2. CASE l + 1 >= Knee  BY <1>1, <4>1, <4>2, OnePositive DEF Hybrid, Out
      <4>3. CASE ~(l + 1 >= Knee)
        <5>1. Knee \in Nat \ {0} /\ l + 1 \in 0..Knee  BY <1>1, <4>1, <4>3, OnePositive
        <5>2. QDiv(l + 1, Knee) \in Duty  BY <5>1, QDivBelowOne
        <5>3. SnapPwmd(QDiv(l + 1, Knee), curve.minOn) \in Nat
          BY <1>0, <5>2, SnapBounds
        <5> QED BY <4>1, <4>3, <5>1, <5>3 DEF Hybrid, Out
      <4> QED BY <4>2, <4>3
    <3> QED BY <1>0, <3>1, <3>2, <3>3 DEF DimModes
  <2>3. LightAt(l + 1) \in Nat
    <3> DEFINE x == OutAt(l + 1).ld
               y == OutAt(l + 1).pwmd
    <3>1. x \in Nat /\ y \in Nat  BY <2>2
    <3> HIDE DEF x, y
    <3>2. x * y \in Nat  BY <3>1
    <3> QED BY <3>2 DEF LightAt, x, y
  <2> QED BY <1>2, <2>1, <2>3
<1>3. CASE l # 0 /\ curve.mode = "ANALOG"
  <2>1. LightAt(l) = l * QOne /\ LightAt(l + 1) = (l + 1) * QOne
    BY <1>1, <1>3, CurveCases DEF LightAt, Out
  <2>2. l * QOne <= (l + 1) * QOne  BY <1>1, OnePositive, TimesMono
  <2> QED BY <2>1, <2>2
<1>4. CASE l # 0 /\ curve.mode = "PWM"
  <2> DEFINE x == SnapPwmd(l, curve.minOn)
             y == SnapPwmd(l + 1, curve.minOn)
  <2>1. LightAt(l) = QOne * x /\ LightAt(l + 1) = QOne * y
    BY <1>1, <1>4, CurveCases DEF LightAt, Out
  <2>2. x \in Nat /\ y \in Nat /\ x <= y
    <3>1. x \in Nat /\ y \in Nat  BY <1>0, <1>1, SnapBounds
    <3>2. l <= l + 1  BY <1>1
    <3>3. x <= y  BY <1>0, <1>1, <3>2, SnapMono
    <3> QED BY <3>1, <3>3
  <2> HIDE DEF x, y
  <2>3. QOne * x <= QOne * y  BY <2>2, OnePositive, TimesMono
  <2> QED BY <2>1, <2>3
<1>5. CASE l # 0 /\ curve.mode = "HYBRID"
  <2>1. /\ OutAt(l) = Hybrid(l, Knee, curve.minOn) /\ Knee \in 1..QOne
        /\ OutAt(l + 1) = Hybrid(l + 1, Knee, curve.minOn)
    BY <1>1, <1>5, CurveCases
  <2>2. Knee \in Nat \ {0} /\ Knee <= QOne  BY <2>1, OnePositive
  <2> DEFINE x == SnapPwmd(QDiv(l, Knee), curve.minOn)
             y == SnapPwmd(QDiv(l + 1, Knee), curve.minOn)
  <2>3. CASE l >= Knee
    <3>1. OutAt(l) = Out(l, QOne) /\ OutAt(l + 1) = Out(l + 1, QOne)
      BY <1>1, <2>1, <2>2, <2>3 DEF Hybrid
    <3>2. LightAt(l) = l * QOne /\ LightAt(l + 1) = (l + 1) * QOne
      BY <3>1 DEF LightAt, Out
    <3>3. l * QOne <= (l + 1) * QOne  BY <1>1, OnePositive, TimesMono
    <3> QED BY <3>2, <3>3
  <2>4. CASE ~(l >= Knee)
    <3>1. OutAt(l) = Out(Knee, x)  BY <2>1, <2>4 DEF Hybrid
    <3>2. LightAt(l) = Knee * x  BY <3>1 DEF LightAt, Out
    <3>3. l \in 0..Knee  BY <1>1, <2>2, <2>4
    <3>4. QDiv(l, Knee) \in Duty  BY <2>2, <3>3, QDivBelowOne
    <3>5. x \in Nat /\ x <= QOne  BY <1>0, <3>4, SnapBounds
    <3>6. CASE l + 1 >= Knee
      <4>1. l + 1 = Knee  BY <1>1, <2>2, <2>4, <3>6
      <4>2. OutAt(l + 1) = Out(Knee, QOne)  BY <2>1, <3>6, <4>1 DEF Hybrid
      <4>3. LightAt(l + 1) = Knee * QOne  BY <4>2 DEF LightAt, Out
      <4> HIDE DEF x
      <4>4. Knee * x <= Knee * QOne  BY <2>2, <3>5, OnePositive, TimesMono
      <4> QED BY <3>2, <4>3, <4>4
    <3>7. CASE ~(l + 1 >= Knee)
      <4>1. OutAt(l + 1) = Out(Knee, y)  BY <2>1, <3>7 DEF Hybrid
      <4>2. LightAt(l + 1) = Knee * y  BY <4>1 DEF LightAt, Out
      <4>3. l + 1 \in 0..Knee  BY <1>1, <2>2, <3>7
      <4>4. QDiv(l + 1, Knee) \in Duty  BY <2>2, <4>3, QDivBelowOne
      <4>5. QDiv(l, Knee) <= QDiv(l + 1, Knee)  BY <1>1, <2>2, QDivMono
      <4>6. y \in Nat /\ x <= y
        <5>1. y \in Nat  BY <1>0, <4>4, SnapBounds
        <5>2. x <= y  BY <1>0, <3>4, <4>4, <4>5, SnapMono
        <5> QED BY <5>1, <5>2
      <4> HIDE DEF x, y
      <4>7. Knee * x <= Knee * y  BY <2>2, <3>5, <4>6, TimesMono
      <4> QED BY <3>2, <4>2, <4>7
    <3> QED BY <3>6, <3>7
  <2> QED BY <2>3, <2>4
<1> QED BY <1>0, <1>2, <1>3, <1>4, <1>5 DEF DimModes

LEMMA WholeHolds ==
    ASSUME CurveInit
    PROVE  CurveWholeBursts
<1> SUFFICES ASSUME NEW l \in Duty
             PROVE  /\ OutAt(l).pwmd = 0 \/ OutAt(l).pwmd >= curve.minOn
                    /\ curve.mode = "PWM" /\ l > 0 /\ 2 * l >= curve.minOn => OutAt(l).lit
  BY DEF CurveWholeBursts
<1>0. curve.minOn \in Duty /\ curve.minOn <= QOne /\ curve.mode \in DimModes
  BY OnePositive DEF CurveInit, Settings, Duty
<1>1. CASE l = 0
  BY <1>1, CurveCases
<1>2. CASE l # 0 /\ curve.mode = "ANALOG"
  BY <1>0, <1>2, CurveCases, OnePositive DEF Out
<1>3. CASE l # 0 /\ curve.mode = "PWM"
  <2>1. OutAt(l) = Out(QOne, SnapPwmd(l, curve.minOn))  BY <1>3, CurveCases
  <2>2. OutAt(l).pwmd = SnapPwmd(l, curve.minOn) /\ OutAt(l).lit = (SnapPwmd(l, curve.minOn) > 0)
    BY <2>1 DEF Out
  <2>3. /\ SnapPwmd(l, curve.minOn) = 0 \/ SnapPwmd(l, curve.minOn) >= curve.minOn
        /\ 2 * l >= curve.minOn /\ l > 0 => SnapPwmd(l, curve.minOn) > 0
    BY <1>0, SnapBounds
  <2> QED BY <2>2, <2>3
<1>4. CASE l # 0 /\ curve.mode = "HYBRID"
  <2>1. OutAt(l) = Hybrid(l, Knee, curve.minOn) /\ Knee \in 1..QOne
    BY <1>4, CurveCases
  <2>2. CASE l >= Knee
    BY <1>0, <1>4, <2>1, <2>2, OnePositive DEF Hybrid, Out
  <2>3. CASE ~(l >= Knee)
    <3>1. Knee \in Nat \ {0} /\ l \in 0..Knee  BY <2>1, <2>3, OnePositive DEF Duty
    <3>2. QDiv(l, Knee) \in Duty  BY <3>1, QDivBelowOne
    <3>3. OutAt(l).pwmd = SnapPwmd(QDiv(l, Knee), curve.minOn)
      BY <2>1, <2>3 DEF Hybrid, Out
    <3> QED BY <1>0, <1>4, <3>2, <3>3, SnapBounds
  <2> QED BY <2>2, <2>3
<1> QED BY <1>0, <1>1, <1>2, <1>3, <1>4 DEF DimModes

LEMMA CurveSettled == CurveSpec => []CurveInit
<1>1. CurveInit /\ [CurveNext]_curve => CurveInit'  BY DEF CurveInit, CurveNext
<1> QED BY <1>1, PTL DEF CurveSpec

\* For any resolution, knee and burst floor the light follows the level within
\* one step; the hybrid mode's product of two duties has no jump at the knee.
THEOREM LightFollows == CurveSpec => []CurveFollowsLevel
BY CurveSettled, FollowsHolds, PTL

\* More level is never less light, across the knee and across the burst floor.
THEOREM LightRises == CurveSpec => []CurveMonotone
BY CurveSettled, MonotoneHolds, PTL

\* No burst is shorter than the floor, and the rounding swallows no level of
\* half the floor or more.
THEOREM BurstsAreWhole == CurveSpec => []CurveWholeBursts
BY CurveSettled, WholeHolds, PTL

-----------------------------------------------------------------------------
(***************************************************************************)
(* The power filter.                                                       *)
(***************************************************************************)

LEMMA DepthPositive == DebounceSamples \in Nat /\ DebounceSamples > 0
BY TpsAssumption DEF TpsAssumption

LEMMA Thresholds == VbusMin \in Nat /\ VbusMin - VbusHysteresis \in Nat /\ VbusHysteresis \in Nat
BY TpsAssumption DEF TpsAssumption

\* median3 is at or above a voltage exactly when two readings are.
LEMMA MedianIsMajority ==
    ASSUME NEW s \in Samples, NEW v \in Nat
    PROVE  /\ Mv(s) >= v <=> MostlyAbove(v, s)
           /\ Mv(s) < v <=> MostlyBelow(v, s)
<1> DEFINE r == s.readings
<1>1. r[1] \in Nat /\ r[2] \in Nat /\ r[3] \in Nat
  BY TpsAssumption DEF TpsAssumption
<1>2. MostlyAbove(v, s) <=> \/ r[1] >= v /\ r[2] >= v
                            \/ r[1] >= v /\ r[3] >= v
                            \/ r[2] >= v /\ r[3] >= v
  BY DEF MostlyAbove
<1>3. MostlyBelow(v, s) <=> \/ r[1] < v /\ r[2] < v
                            \/ r[1] < v /\ r[3] < v
                            \/ r[2] < v /\ r[3] < v
  BY DEF MostlyBelow
<1>4. Mv(s) = Median3(r[1], r[2], r[3])  BY DEF Mv
<1> HIDE DEF r
<1> QED BY <1>1, <1>2, <1>3, <1>4 DEF Median3

\* One debounced signal after n samples, of which `yes' speak for it and `no'
\* against.  A run of raw samples against what is confirmed was made of
\* such samples only; a run of such samples is counted.
DebounceOK(d, yes, no, n) ==
    /\ d \in [last : BOOLEAN, confirmed : BOOLEAN, stable : 0..DebounceSamples]
    /\ yes \subseteq 1..n /\ no \subseteq 1..n /\ yes \cap no = {}
    /\ ~d.confirmed /\ d.last => (n - d.stable)..n \subseteq yes
    /\ d.confirmed /\ ~d.last => (n - d.stable)..n \subseteq no
    /\ \A m \in 0..DebounceSamples :
         /\ (n - m)..n \subseteq yes => d.last /\ d.stable >= m
         /\ (n - m)..n \subseteq no => ~d.last /\ d.stable >= m
    /\ d.confirmed = LatestIsYes(yes, no)

LEMMA DebounceStarts ==
    ASSUME NEW raw \in BOOLEAN, NEW yes \in SUBSET {1}, NEW no \in SUBSET {1}, yes \cap no = {},
           1 \in yes <=> raw, 1 \in no => ~raw
    PROVE  DebounceOK(Undecided(raw), yes, no, 1)
<1> DEFINE d == Undecided(raw)
<1>1. d.last = raw /\ d.confirmed = FALSE /\ d.stable = 0  BY DEF Undecided
<1>2. d \in [last : BOOLEAN, confirmed : BOOLEAN, stable : 0..DebounceSamples]
  BY DepthPositive DEF Undecided
<1>3. ~LatestIsYes(yes, no)  BY DepthPositive DEF LatestIsYes, SteadyAt
<1>4. \A m \in 0..DebounceSamples :
         /\ (1 - m)..1 \subseteq yes => d.last /\ d.stable >= m
         /\ (1 - m)..1 \subseteq no => ~d.last /\ d.stable >= m
  <2> SUFFICES ASSUME NEW m \in 0..DebounceSamples
               PROVE  /\ (1 - m)..1 \subseteq yes => d.last /\ d.stable >= m
                      /\ (1 - m)..1 \subseteq no => ~d.last /\ d.stable >= m
    OBVIOUS
  <2>1. 1 - m \in (1 - m)..1 /\ 1 \in (1 - m)..1  BY DepthPositive
  <2>2. m # 0 => 1 - m \notin {1}  BY DepthPositive
  <2> HIDE DEF d
  <2> QED BY <1>1, <2>1, <2>2, DepthPositive
<1>5. ~d.confirmed /\ d.last => (1 - d.stable)..1 \subseteq yes
  <2>1. (1 - 0)..1 = {1}  OBVIOUS
  <2> QED BY <1>1, <2>1
<1> HIDE DEF d
<1>6. d.confirmed = LatestIsYes(yes, no)  BY <1>1, <1>3 DEF LatestIsYes
<1>7. yes \subseteq 1..1 /\ no \subseteq 1..1  OBVIOUS
<1>8. DebounceOK(d, yes, no, 1)
  BY <1>1, <1>2, <1>4, <1>5, <1>6, <1>7 DEF DebounceOK
<1> QED BY <1>8 DEF d

LEMMA DebounceSteps ==
    ASSUME NEW n \in Nat \ {0}, NEW d, NEW yes, NEW no, DebounceOK(d, yes, no, n),
           NEW yes2 \in SUBSET (1..(n + 1)), NEW no2 \in SUBSET (1..(n + 1)), yes2 \cap no2 = {},
           \A j \in 1..n : (j \in yes2 <=> j \in yes) /\ (j \in no2 <=> j \in no),
           NEW raw \in BOOLEAN,
           n + 1 \in yes2 => raw, n + 1 \in no2 => ~raw,
           ~d.confirmed /\ raw => n + 1 \in yes2,
           d.confirmed /\ ~raw => n + 1 \in no2
    PROVE  DebounceOK(DebounceUpdate(d, raw), yes2, no2, n + 1)
<1> DEFINE e == DebounceUpdate(d, raw)
           D == DebounceSamples
           c == StableCount(d, raw)
<1>1. d.last \in BOOLEAN /\ d.confirmed \in BOOLEAN /\ d.stable \in 0..D  BY DEF DebounceOK
<1>2. /\ c \in 0..D
      /\ raw # d.last => c = 0
      /\ raw = d.last => c \in {d.stable, d.stable + 1} /\ (c = d.stable => c = D)
  BY <1>1, DepthPositive DEF StableCount
<1>3. /\ e.last = raw /\ e.stable = c
      /\ e.confirmed = IF c >= D THEN raw ELSE d.confirmed
  BY DEF DebounceUpdate
<1>4. e \in [last : BOOLEAN, confirmed : BOOLEAN, stable : 0..D]
  BY <1>1, <1>2 DEF DebounceUpdate
<1> HIDE DEF e, c, D
<1>5. ~d.confirmed /\ raw => (n + 1 - c)..(n + 1) \subseteq yes2
  <2> SUFFICES ASSUME ~d.confirmed, raw, NEW j \in (n + 1 - c)..(n + 1) PROVE j \in yes2
    OBVIOUS
  <2>0. ~d.confirmed  OBVIOUS
  <2>1. CASE j = n + 1  BY <2>1
  <2>2. CASE j # n + 1
    <3>0. c \in Nat /\ c # 0 /\ j \in Int /\ j <= n /\ j >= n + 1 - c
      BY <1>2, <2>2, DepthPositive DEF D
    <3>3. d.last  BY <1>1, <1>2, <3>0
    <3>5. c <= d.stable + 1
      <4>1. c = d.stable \/ c = d.stable + 1  BY <1>2, <3>0
      <4> QED BY <1>1, <4>1, DepthPositive DEF D
    <3>4. d.stable \in Nat  BY <1>1, DepthPositive DEF D
    <3>1. j \in (n - d.stable)..n
      BY <3>0, <3>5, <3>4
    <3>2. j \in yes /\ j \in 1..n  BY <2>0, <3>1, <3>3 DEF DebounceOK
    <3> QED BY <3>2
  <2> QED BY <2>1, <2>2
<1>6. d.confirmed /\ ~raw => (n + 1 - c)..(n + 1) \subseteq no2
  <2> SUFFICES ASSUME d.confirmed, ~raw, NEW j \in (n + 1 - c)..(n + 1) PROVE j \in no2
    OBVIOUS
  <2>1. CASE j = n + 1  BY <2>1
  <2>2. CASE j # n + 1
    <3>0. c \in Nat /\ c # 0 /\ j \in Int /\ j <= n /\ j >= n + 1 - c
      BY <1>2, <2>2, DepthPositive DEF D
    <3>3. raw = d.last /\ c <= d.stable + 1
      BY <1>1, <1>2, <3>0, DepthPositive DEF D
    <3>4. d.stable \in Nat  BY <1>1, DepthPositive DEF D
    <3>1. d.last = raw /\ j \in (n - d.stable)..n
      BY <3>0, <3>3, <3>4
    <3>2. j \in no /\ j \in 1..n  BY <1>1, <3>1 DEF DebounceOK
    <3> QED BY <3>2
  <2> QED BY <2>1, <2>2
<1>7. \A m \in 0..D :
         /\ (n + 1 - m)..(n + 1) \subseteq yes2 => raw /\ c >= m
         /\ (n + 1 - m)..(n + 1) \subseteq no2 => ~raw /\ c >= m
  <2> SUFFICES ASSUME NEW m \in 0..D
               PROVE  /\ (n + 1 - m)..(n + 1) \subseteq yes2 => raw /\ c >= m
                      /\ (n + 1 - m)..(n + 1) \subseteq no2 => ~raw /\ c >= m
    OBVIOUS
  <2>1. m \in Nat /\ m <= D /\ n + 1 \in (n + 1 - m)..(n + 1)  BY DepthPositive DEF D
  <2>2. CASE m = 0  BY <1>2, <2>1, <2>2, DepthPositive DEF D
  <2>3. CASE m # 0
    <3>1. m - 1 \in 0..D  BY <2>1, <2>3, DepthPositive DEF D
    <3>2. \A j \in (n - (m - 1))..n : j \in (n + 1 - m)..(n + 1)  BY <2>1, <2>3
    <3>3. \A j \in yes2 : j <= n => j \in yes  OBVIOUS
    <3>4. \A j \in no2 : j <= n => j \in no  OBVIOUS
    <3>5. CASE (n + 1 - m)..(n + 1) \subseteq yes2
      <4>1. (n - (m - 1))..n \subseteq yes  BY <2>1, <3>2, <3>3, <3>5
      <4>2. d.last /\ d.stable >= m - 1  BY <3>1, <4>1 DEF DebounceOK, D
      <4>3. raw /\ n + 1 \notin no2  BY <2>1, <3>5
      <4> QED BY <1>1, <1>2, <2>1, <4>2, <4>3, DepthPositive DEF D
    <3>6. CASE (n + 1 - m)..(n + 1) \subseteq no2
      <4>1. (n - (m - 1))..n \subseteq no  BY <2>1, <3>2, <3>4, <3>6
      <4>2. ~d.last /\ d.stable >= m - 1  BY <3>1, <4>1 DEF DebounceOK, D
      <4>3. ~raw /\ n + 1 \notin yes2  BY <2>1, <3>6
      <4> QED BY <1>1, <1>2, <2>1, <4>2, <4>3, DepthPositive DEF D
    <3> QED BY <3>5, <3>6
  <2> QED BY <2>2, <2>3
<1>8. e.confirmed = LatestIsYes(yes2, no2)
  <2>1. \A k \in 1..n : (SteadyAt(yes2, k) <=> SteadyAt(yes, k)) /\ (SteadyAt(no2, k) <=> SteadyAt(no, k))
    <3> SUFFICES ASSUME NEW k \in 1..n, k > D
                 PROVE  \A j \in (k - D)..k : j \in 1..n
      BY DEF SteadyAt, D
    <3> QED BY DepthPositive DEF D
  <2>2. D \in 0..D  BY DepthPositive DEF D
  <2>3. CASE SteadyAt(yes2, n + 1)
    <3>1. raw /\ c >= D  BY <1>7, <2>2, <2>3 DEF SteadyAt, D
    <3>2. n + 1 \in yes2  BY <2>3, DepthPositive DEF SteadyAt
    <3>3. LatestIsYes(yes2, no2)  BY <2>3, <3>2 DEF LatestIsYes
    <3> QED BY <1>3, <3>1, <3>3 DEF LatestIsYes
  <2>4. CASE SteadyAt(no2, n + 1)
    <3>1. ~raw /\ c >= D  BY <1>7, <2>2, <2>4 DEF SteadyAt, D
    <3>2. n + 1 \in no2 /\ n + 1 \notin yes2  BY <2>4, DepthPositive DEF SteadyAt
    <3>3. ~LatestIsYes(yes2, no2)
      <4>1. \A k \in yes2 : n + 1 > k  BY <3>2
      <4> QED BY <2>4, <3>2, <4>1 DEF LatestIsYes
    <3> QED BY <1>3, <3>1, <3>3 DEF LatestIsYes
  <2>5. CASE ~SteadyAt(yes2, n + 1) /\ ~SteadyAt(no2, n + 1)
    <3>1. LatestIsYes(yes2, no2) <=> LatestIsYes(yes, no)
      <4>1. \A k \in yes2 : SteadyAt(yes2, k) <=> k \in yes /\ SteadyAt(yes, k)
        BY <2>1, <2>5 DEF DebounceOK
      <4>2. \A k \in no2 : SteadyAt(no2, k) <=> k \in no /\ SteadyAt(no, k)
        BY <2>1, <2>5 DEF DebounceOK
      <4>3. yes \subseteq yes2 /\ no \subseteq no2  BY DEF DebounceOK
      <4> QED BY <4>1, <4>2, <4>3 DEF LatestIsYes
    <3>2. c >= D => raw = d.confirmed
      <4> SUFFICES ASSUME c >= D, raw # d.confirmed PROVE FALSE
        OBVIOUS
      <4>1. c = D  BY <1>2, DepthPositive DEF D
      <4>2. CASE raw
        <5>1. (n + 1 - D)..(n + 1) \subseteq yes2  BY <1>1, <1>5, <4>1, <4>2
        <5>2. n + 1 - D \in 1..(n + 1)  BY <5>1, DepthPositive DEF D
        <5> QED BY <2>5, <5>1, <5>2, DepthPositive DEF SteadyAt, D
      <4>3. CASE ~raw
        <5>1. (n + 1 - D)..(n + 1) \subseteq no2  BY <1>1, <1>6, <4>1, <4>3
        <5>2. n + 1 - D \in 1..(n + 1)  BY <5>1, DepthPositive DEF D
        <5> QED BY <2>5, <5>1, <5>2, DepthPositive DEF SteadyAt, D
      <4> QED BY <4>2, <4>3
    <3>3. e.confirmed = d.confirmed  BY <1>3, <3>2
    <3> QED BY <3>1, <3>3 DEF DebounceOK, LatestIsYes
  <2> QED BY <2>3, <2>4, <2>5
<1>9. ~e.confirmed /\ e.last => (n + 1 - e.stable)..(n + 1) \subseteq yes2
  BY <1>1, <1>3, <1>5
<1>10. e.confirmed /\ ~e.last => (n + 1 - e.stable)..(n + 1) \subseteq no2
  BY <1>1, <1>3, <1>6
<1>11. DebounceOK(e, yes2, no2, n + 1)
  BY <1>3, <1>4, <1>7, <1>8, <1>9, <1>10 DEF DebounceOK, D
<1> QED BY <1>11 DEF e

\* Every signal's debounce fits the samples that were read.
FilterInv ==
    /\ samples \in Seq(Samples) /\ Len(samples) \in Nat \ {0}
    /\ DebounceOK(monitor.vbus, AtMin, UnderBand, Len(samples))
    /\ DebounceOK(monitor.t2p, Active, Clear, Len(samples))

\* What one sample says, of the voltage and of T2P.
LEMMA SampleSays ==
    ASSUME NEW s \in Samples, NEW ok \in BOOLEAN
    PROVE  /\ VbusSample(Mv(s), ok) \in BOOLEAN /\ s.t2p \in BOOLEAN
           /\ MostlyAbove(VbusMin, s) => VbusSample(Mv(s), ok)
           /\ MostlyBelow(VbusMin - VbusHysteresis, s) => ~VbusSample(Mv(s), ok)
           /\ ~ok /\ VbusSample(Mv(s), ok) => MostlyAbove(VbusMin, s)
           /\ ok /\ ~VbusSample(Mv(s), ok) => MostlyBelow(VbusMin - VbusHysteresis, s)
           /\ ~(MostlyAbove(VbusMin, s) /\ MostlyBelow(VbusMin - VbusHysteresis, s))
<1> DEFINE v == Mv(s)
           b == VbusMin - VbusHysteresis
<1>1. VbusMin \in Nat /\ b \in Nat /\ b <= VbusMin  BY Thresholds
<1>2. /\ v >= VbusMin <=> MostlyAbove(VbusMin, s)
      /\ v < b <=> MostlyBelow(b, s)
  BY <1>1, MedianIsMajority
<1>3. v \in Nat
  <2>1. s.readings[1] \in Nat /\ s.readings[2] \in Nat /\ s.readings[3] \in Nat
    BY TpsAssumption DEF TpsAssumption
  <2> QED BY <2>1 DEF Mv, Median3
<1>4. s.t2p \in BOOLEAN  BY TpsAssumption DEF TpsAssumption
<1>5. VbusSample(v, ok) <=> (IF ok THEN v >= b ELSE v >= VbusMin)  BY DEF VbusSample
<1>6. VbusSample(v, ok) \in BOOLEAN  BY DEF VbusSample
<1> HIDE DEF v, b
<1>7. /\ v >= VbusMin => VbusSample(v, ok)
      /\ v < b => ~VbusSample(v, ok)
      /\ ~ok /\ VbusSample(v, ok) => v >= VbusMin
      /\ ok /\ ~VbusSample(v, ok) => v < b
      /\ ~(v >= VbusMin /\ v < b)
  BY <1>1, <1>3, <1>5
<1>8. /\ MostlyAbove(VbusMin, s) => VbusSample(v, ok)
      /\ MostlyBelow(b, s) => ~VbusSample(v, ok)
      /\ ~ok /\ VbusSample(v, ok) => MostlyAbove(VbusMin, s)
      /\ ok /\ ~VbusSample(v, ok) => MostlyBelow(b, s)
      /\ ~(MostlyAbove(VbusMin, s) /\ MostlyBelow(b, s))
  BY <1>2, <1>7
<1> QED BY <1>4, <1>6, <1>8 DEF v, b

LEMMA FilterStarts == TpsInit => FilterInv
<1> SUFFICES ASSUME NEW s \in Samples, samples = <<s>>,
                    monitor = [vbus |-> Undecided(Mv(s) >= VbusMin), t2p |-> Undecided(s.t2p)]
             PROVE  FilterInv
  BY DEF TpsInit
<1>1. samples \in Seq(Samples) /\ Len(samples) = 1 /\ samples[1] = s  OBVIOUS
<1>2. (Mv(s) >= VbusMin) \in BOOLEAN /\ s.t2p \in BOOLEAN
  BY TpsAssumption DEF TpsAssumption
<1>3. /\ AtMin \subseteq {1} /\ UnderBand \subseteq {1} /\ Active \subseteq {1} /\ Clear \subseteq {1}
      /\ 1 \in AtMin <=> MostlyAbove(VbusMin, s)
      /\ 1 \in UnderBand <=> MostlyBelow(VbusMin - VbusHysteresis, s)
      /\ 1 \in Active <=> s.t2p
      /\ 1 \in Clear <=> ~s.t2p
  BY <1>1 DEF AtMin, UnderBand, Active, Clear
<1>4. /\ MostlyAbove(VbusMin, s) <=> Mv(s) >= VbusMin
      /\ MostlyBelow(VbusMin - VbusHysteresis, s) => ~(Mv(s) >= VbusMin)
  BY SampleSays, Thresholds, MedianIsMajority
<1>5. AtMin \cap UnderBand = {} /\ Active \cap Clear = {}
  BY <1>3, <1>4
<1>6. DebounceOK(Undecided(Mv(s) >= VbusMin), AtMin, UnderBand, 1)
  BY <1>2, <1>3, <1>4, <1>5, DebounceStarts
<1>7. DebounceOK(Undecided(s.t2p), Active, Clear, 1)
  BY <1>2, <1>3, <1>5, DebounceStarts
<1> QED BY <1>1, <1>6, <1>7 DEF FilterInv

LEMMA FilterSteps ==
    ASSUME FilterInv, NEW s \in Samples, Turn(s)
    PROVE  FilterInv'
<1> DEFINE n == Len(samples)
<1>1. /\ samples \in Seq(Samples) /\ n \in Nat \ {0}
      /\ DebounceOK(monitor.vbus, AtMin, UnderBand, n)
      /\ DebounceOK(monitor.t2p, Active, Clear, n)
  BY DEF FilterInv
<1>2. /\ samples' \in Seq(Samples) /\ Len(samples') = n + 1 /\ samples'[n + 1] = s
      /\ \A j \in 1..n : samples'[j] = samples[j]
  BY <1>1 DEF Turn
<1>3. /\ monitor'.vbus = DebounceUpdate(monitor.vbus, VbusSample(Mv(s), monitor.vbus.confirmed))
      /\ monitor'.t2p = DebounceUpdate(monitor.t2p, s.t2p)
  BY DEF Turn
<1> HIDE DEF n
<1>4. /\ AtMin' \subseteq 1..(n + 1) /\ UnderBand' \subseteq 1..(n + 1)
      /\ Active' \subseteq 1..(n + 1) /\ Clear' \subseteq 1..(n + 1)
  BY <1>2 DEF AtMin, UnderBand, Active, Clear
<1>5. \A j \in 1..n : /\ j \in AtMin' <=> j \in AtMin
                      /\ j \in UnderBand' <=> j \in UnderBand
                      /\ j \in Active' <=> j \in Active
                      /\ j \in Clear' <=> j \in Clear
  BY <1>1, <1>2 DEF AtMin, UnderBand, Active, Clear, n
<1>6. /\ n + 1 \in AtMin' <=> MostlyAbove(VbusMin, s)
      /\ n + 1 \in UnderBand' <=> MostlyBelow(VbusMin - VbusHysteresis, s)
      /\ n + 1 \in Active' <=> s.t2p
      /\ n + 1 \in Clear' <=> ~s.t2p
  BY <1>1, <1>2 DEF AtMin, UnderBand, Active, Clear
<1>7. AtMin' \cap UnderBand' = {} /\ Active' \cap Clear' = {}
  <2>1. \A j \in 1..(n + 1) : j \in 1..n \/ j = n + 1  BY <1>1
  <2>2. AtMin \cap UnderBand = {} /\ Active \cap Clear = {}  BY <1>1 DEF DebounceOK
  <2>3. ~(n + 1 \in AtMin' /\ n + 1 \in UnderBand')  BY <1>6, SampleSays
  <2> QED BY <1>4, <1>5, <1>6, <2>1, <2>2, <2>3
<1>8. monitor.vbus.confirmed \in BOOLEAN /\ monitor.t2p.confirmed \in BOOLEAN
  BY <1>1 DEF DebounceOK
<1>9. DebounceOK(monitor'.vbus, AtMin', UnderBand', n + 1)
  <2> DEFINE raw == VbusSample(Mv(s), monitor.vbus.confirmed)
  <2>1. /\ raw \in BOOLEAN
        /\ n + 1 \in AtMin' => raw
        /\ n + 1 \in UnderBand' => ~raw
        /\ ~monitor.vbus.confirmed /\ raw => n + 1 \in AtMin'
        /\ monitor.vbus.confirmed /\ ~raw => n + 1 \in UnderBand'
    BY <1>6, <1>8, SampleSays
  <2>2. monitor'.vbus = DebounceUpdate(monitor.vbus, raw)  BY <1>3
  <2>3. \A j \in 1..n : (j \in AtMin' <=> j \in AtMin) /\ (j \in UnderBand' <=> j \in UnderBand)
    BY <1>5
  <2> DEFINE d == monitor.vbus
             y == AtMin'
             o == UnderBand'
  <2>4. y \in SUBSET (1..(n + 1)) /\ o \in SUBSET (1..(n + 1)) /\ y \cap o = {}
    BY <1>4, <1>7
  <2>5. DebounceOK(d, AtMin, UnderBand, n)  BY <1>1
  <2> HIDE DEF raw, d, y, o
  <2>6. DebounceOK(DebounceUpdate(d, raw), y, o, n + 1)
    BY <1>1, <2>1, <2>3, <2>4, <2>5, DebounceSteps DEF d, y, o
  <2> QED BY <2>2, <2>6 DEF d, y, o
<1>10. DebounceOK(monitor'.t2p, Active', Clear', n + 1)
  <2>1. s.t2p \in BOOLEAN  BY SampleSays
  <2>3. \A j \in 1..n : (j \in Active' <=> j \in Active) /\ (j \in Clear' <=> j \in Clear)
    BY <1>5
  <2> QED BY <1>1, <1>3, <1>4, <1>6, <1>7, <2>1, <2>3, DebounceSteps
<1> QED BY <1>1, <1>2, <1>3, <1>9, <1>10 DEF FilterInv

LEMMA FilterSettled == TpsSpec => []FilterInv
<1>1. FilterInv /\ [TpsNext]_tpsVars => FilterInv'
  <2> SUFFICES ASSUME FilterInv, [TpsNext]_tpsVars PROVE FilterInv'
    OBVIOUS
  <2>1. CASE TpsNext  BY <2>1, FilterSteps DEF TpsNext
  <2>2. CASE UNCHANGED tpsVars
    BY <2>2 DEF tpsVars, FilterInv, AtMin, UnderBand, Active, Clear
  <2> QED BY <2>1, <2>2
<1> QED BY <1>1, FilterStarts, PTL DEF TpsSpec

\* For any depth and any band: ready and the source class are what the latest
\* steady stretch of the samples read so far says.
THEOREM PowerIsFiltered == TpsSpec => []PowerFollowsSteadyInput
<1>1. FilterInv => PowerFollowsSteadyInput
  BY DEF FilterInv, DebounceOK, PowerFollowsSteadyInput, Ready, SourceClass
<1> QED BY <1>1, FilterSettled, PTL

-----------------------------------------------------------------------------
(***************************************************************************)
(* The rate limiter.                                                       *)
(***************************************************************************)

LEMMA RateConstants ==
    /\ RateTableSize \in Nat \ {0} /\ Window \in Nat /\ MaxPerWindow \in Nat \ {0}
    /\ \A ip \in Senders : ip \in Nat /\ ip # NoSource
    /\ \A gap \in Gaps : gap \in Nat
BY RateAssumption DEF RateAssumption

LEMMA SmallestOf ==
    ASSUME NEW S \in SUBSET Nat, S # {}
    PROVE  \E n \in S : \A m \in S : n <= m
<1>1. PICK n \in S : \A m \in S : ~(<<m, n>> \in OpToRel(<, Nat))
  BY NatLessThanWellFounded, WFMin
<1>2. \A m \in S : ~(m < n)  BY <1>1 DEF OpToRel
<1> QED BY <1>2

\* The packets of a source since some time.
Since(L, ip, t) == {j \in 1..Len(L) : L[j].ip = ip /\ L[j].at >= t}

RateType ==
    /\ rates \in [RateSlots -> [ip : Nat, count : Nat, start : Nat]]
    /\ log \in Seq([ip : Nat, at : Nat, ok : BOOLEAN])
    /\ \A j \in 1..Len(log) : log[j].ip # NoSource /\ log[j].at <= Clock
    /\ \A i \in RateSlots : rates[i].start <= Clock

\* No slot counts a packet that did not arrive in its window.
Counted ==
    \A i \in RateSlots : rates[i].ip # NoSource =>
       rates[i].count <= Cardinality(Since(log, rates[i].ip, rates[i].start))

\* What either branch does: one more packet in the log.
Arrives(ip, now, ok) ==
    /\ log' = Append(log, [ip |-> ip, at |-> now, ok |-> ok])
    /\ ip \in Nat /\ ip # NoSource /\ now \in Nat /\ now >= Clock /\ ok \in BOOLEAN

LEMMA SinceFinite ==
    ASSUME RateType, NEW ip, NEW t
    PROVE  IsFiniteSet(Since(log, ip, t)) /\ Cardinality(Since(log, ip, t)) \in Nat
<1>1. IsFiniteSet(1..Len(log))  BY FS_Interval DEF RateType
<1>2. Since(log, ip, t) \in SUBSET (1..Len(log))  BY DEF Since
<1>3. IsFiniteSet(Since(log, ip, t))  BY <1>1, <1>2, FS_Subset
<1> QED BY <1>3, FS_CardinalityType

LEMMA FirstSlotOf ==
    ASSUME NEW S \in SUBSET RateSlots, S # {}
    PROVE  FirstSlot(S) \in S /\ FirstSlot(S) \in RateSlots
<1>1. S \in SUBSET Nat  BY RateConstants DEF RateSlots
<1>2. \E i \in S : \A j \in S : i <= j  BY <1>1, SmallestOf
<1> QED BY <1>2 DEF FirstSlot

LEMMA LogEntry ==
    ASSUME RateType, NEW j \in 1..Len(log)
    PROVE  log[j].ip \in Nat /\ log[j].at \in Nat /\ log[j].ok \in BOOLEAN
<1> DEFINE Packets == [ip : Nat, at : Nat, ok : BOOLEAN]
<1>1. log \in Seq(Packets)  BY DEF RateType
<1>2. log[j] \in Packets
  <2> HIDE DEF Packets
  <2> QED BY <1>1
<1> QED BY <1>2

LEMMA ClockType == RateType => Clock \in Nat
<1> SUFFICES ASSUME RateType, log # <<>> PROVE log[Len(log)].at \in Nat
  BY DEF Clock
<1>1. Len(log) \in 1..Len(log)  BY DEF RateType
<1> QED BY <1>1, LogEntry

LEMMA LogGrows ==
    ASSUME RateType, NEW ip, NEW now, NEW ok, Arrives(ip, now, ok)
    PROVE  /\ Len(log) \in Nat /\ Len(log') = Len(log) + 1
           /\ log' \in Seq([ip : Nat, at : Nat, ok : BOOLEAN])
           /\ log'[Len(log) + 1] = [ip |-> ip, at |-> now, ok |-> ok]
           /\ \A j \in 1..Len(log) : log'[j] = log[j]
           /\ Clock' = now
<1>1. log' = Append(log, [ip |-> ip, at |-> now, ok |-> ok])
      /\ [ip |-> ip, at |-> now, ok |-> ok] \in [ip : Nat, at : Nat, ok : BOOLEAN]
  BY DEF Arrives
<1>2. log \in Seq([ip : Nat, at : Nat, ok : BOOLEAN]) /\ Len(log) \in Nat
  BY DEF RateType
<1>3. /\ Len(log') = Len(log) + 1
      /\ log' \in Seq([ip : Nat, at : Nat, ok : BOOLEAN])
      /\ log'[Len(log) + 1] = [ip |-> ip, at |-> now, ok |-> ok]
      /\ \A j \in 1..Len(log) : log'[j] = log[j]
  BY <1>1, <1>2
<1>4. Clock' = now
  <2>1. log' # <<>>  BY <1>2, <1>3
  <2> QED BY <1>3, <2>1 DEF Clock
<1> QED BY <1>2, <1>3, <1>4

\* A packet counts for its source from its time on, and for nobody else.
LEMMA SinceGrows ==
    ASSUME RateType, NEW ip, NEW now, NEW ok, Arrives(ip, now, ok), RateType', NEW x, NEW t
    PROVE  /\ IsFiniteSet(Since(log', x, t)) /\ Cardinality(Since(log', x, t)) \in Nat
           /\ Cardinality(Since(log', x, t)) >= Cardinality(Since(log, x, t))
           /\ x = ip /\ now >= t => Cardinality(Since(log', x, t)) = Cardinality(Since(log, x, t)) + 1
           /\ x = ip /\ now >= t => Since(log', x, t) = Since(log, x, t) \cup {Len(log) + 1}
<1> DEFINE n == Len(log)
           A == Since(log, x, t)
           B == Since(log', x, t)
<1>1. /\ n \in Nat /\ Len(log') = n + 1
      /\ log'[n + 1] = [ip |-> ip, at |-> now, ok |-> ok]
      /\ \A j \in 1..n : log'[j] = log[j]
  BY LogGrows
<1>2. B = {j \in 1..(n + 1) : log'[j].ip = x /\ log'[j].at >= t}  BY <1>1 DEF Since
<1>3. A = {j \in 1..n : log[j].ip = x /\ log[j].at >= t}  BY DEF Since
<1>4. A \subseteq B  BY <1>1, <1>2, <1>3
<1>5. x = ip /\ now >= t => B = A \cup {n + 1}
  BY <1>1, <1>2, <1>3
<1>6. n + 1 \notin A  BY <1>1, <1>3
<1>7. IsFiniteSet(A) /\ Cardinality(A) \in Nat  BY SinceFinite
<1>8. IsFiniteSet(B) /\ Cardinality(B) \in Nat
  <2>1. IsFiniteSet(1..(n + 1))  BY <1>1, FS_Interval
  <2>2. B \in SUBSET (1..(n + 1))  BY <1>2
  <2>3. IsFiniteSet(B)  BY <2>1, <2>2, FS_Subset
  <2> QED BY <2>3, FS_CardinalityType
<1>9. x = ip /\ now >= t => B = Since(log, x, t) \cup {Len(log) + 1}  BY <1>5
<1> HIDE DEF A, B, n
<1>10. Cardinality(A) <= Cardinality(B)  BY <1>4, <1>8, FS_Subset
<1>11. x = ip /\ now >= t => Cardinality(B) = Cardinality(A) + 1
  BY <1>5, <1>6, <1>7, FS_AddElement
<1> QED BY <1>7, <1>8, <1>9, <1>10, <1>11 DEF A, B, n

\* A slot as one packet leaves it: as it was, or holding the packet's source.
LEMMA KnownSlot ==
    ASSUME RateType, NEW ip \in Senders, NEW gap \in Gaps, Known(ip, Clock + gap)
    PROVE  \E i \in RateSlots :
             /\ rates[i].ip = ip
             /\ rates' = [rates EXCEPT ![i] = Seen(rates[i], Clock + gap)]
             /\ Arrives(ip, Clock + gap, Seen(rates[i], Clock + gap).count <= MaxPerWindow)
<1> DEFINE i == FirstSlot(SlotsOf(ip))
<1>1. SlotsOf(ip) \in SUBSET RateSlots /\ SlotsOf(ip) # {}  BY DEF SlotsOf, Known
<1>2. i \in SlotsOf(ip) /\ i \in RateSlots  BY <1>1, FirstSlotOf
<1>3. rates[i].ip = ip  BY <1>2 DEF SlotsOf
<1>4. rates' = [rates EXCEPT ![i] = Seen(rates[i], Clock + gap)]
      /\ Judged(ip, Clock + gap, Seen(rates[i], Clock + gap).count <= MaxPerWindow)
  BY DEF Known
<1> HIDE DEF i
<1>5. Clock + gap \in Nat /\ Clock + gap >= Clock /\ ip \in Nat /\ ip # NoSource
  BY ClockType, RateConstants
<1>6. Arrives(ip, Clock + gap, Seen(rates[i], Clock + gap).count <= MaxPerWindow)
  BY <1>4, <1>5 DEF Arrives, Judged
<1> QED BY <1>2, <1>3, <1>4, <1>6

LEMMA NewSlotOf ==
    ASSUME RateType, NEW ip \in Senders, NEW gap \in Gaps, New(ip, Clock + gap)
    PROVE  /\ NewSlot \in RateSlots /\ SlotsOf(ip) = {}
           /\ SlotsOf(NoSource) # {} => rates[NewSlot].ip = NoSource
           /\ rates' = [rates EXCEPT ![NewSlot] = Entry(ip, 1, Clock + gap)]
           /\ Arrives(ip, Clock + gap, TRUE)
<1>1. Clock + gap \in Nat /\ Clock + gap >= Clock /\ ip \in Nat /\ ip # NoSource
  BY ClockType, RateConstants
<1>2. 1 \in RateSlots  BY RateConstants DEF RateSlots
<1>3. SlotsOf(NoSource) # {} => NewSlot \in SlotsOf(NoSource)
  BY FirstSlotOf DEF NewSlot, SlotsOf
<1>4. NewSlot \in RateSlots  BY <1>2, <1>3 DEF NewSlot, SlotsOf
<1>5. SlotsOf(NoSource) # {} => rates[NewSlot].ip = NoSource  BY <1>3 DEF SlotsOf
<1> QED BY <1>1, <1>4, <1>5 DEF New, Arrives, Judged

\* The packet's entry in its slot.
LEMMA SeenEntry ==
    ASSUME NEW e \in [ip : Nat, count : Nat, start : Nat], NEW now \in Nat, e.start <= now
    PROVE  /\ Seen(e, now) \in [ip : Nat, count : Nat, start : Nat]
           /\ Seen(e, now).ip = e.ip /\ Seen(e, now).start <= now
           /\ now - e.start > Window => Seen(e, now).count = 1 /\ Seen(e, now).start = now
           /\ ~(now - e.start > Window) => /\ Seen(e, now).count = e.count + 1
                                           /\ Seen(e, now).start = e.start
BY DEF Seen, Entry

LEMMA TypeAfter ==
    ASSUME RateType, NEW ip, NEW now, NEW ok, Arrives(ip, now, ok),
           NEW i \in RateSlots, NEW e \in [ip : Nat, count : Nat, start : Nat],
           e.start <= now, rates' = [rates EXCEPT ![i] = e]
    PROVE  RateType'
<1>1. /\ log' \in Seq([ip : Nat, at : Nat, ok : BOOLEAN])
      /\ Len(log) \in Nat /\ Len(log') = Len(log) + 1 /\ Clock' = now
      /\ log'[Len(log) + 1] = [ip |-> ip, at |-> now, ok |-> ok]
      /\ \A j \in 1..Len(log) : log'[j] = log[j]
  BY LogGrows
<1>2. rates' \in [RateSlots -> [ip : Nat, count : Nat, start : Nat]]
  BY DEF RateType
<1>3. Clock \in Nat /\ now \in Nat /\ Clock <= now /\ ip # NoSource
  BY ClockType DEF Arrives
<1>4. \A j \in 1..Len(log') : log'[j].ip # NoSource /\ log'[j].at <= now
  <2> SUFFICES ASSUME NEW j \in 1..(Len(log) + 1)
               PROVE  log'[j].ip # NoSource /\ log'[j].at <= now
    BY <1>1
  <2>1. CASE j = Len(log) + 1  BY <1>1, <1>3, <2>1
  <2>2. CASE j # Len(log) + 1
    <3>1. j \in 1..Len(log)  BY <1>1, <2>2
    <3>2. log[j].at \in Nat /\ log[j].at <= Clock /\ log[j].ip # NoSource
      BY <3>1, LogEntry DEF RateType
    <3>3. log'[j] = log[j]  BY <1>1, <3>1
    <3> QED BY <1>3, <3>2, <3>3, ClockType
  <2> QED BY <2>1, <2>2
<1>5. \A k \in RateSlots : rates'[k].start <= now
  <2> SUFFICES ASSUME NEW k \in RateSlots PROVE rates'[k].start <= now
    OBVIOUS
  <2>1. rates[k].start \in Nat /\ rates[k].start <= Clock  BY DEF RateType
  <2>2. rates'[k] = IF k = i THEN e ELSE rates[k]  BY DEF RateType
  <2> QED BY <1>3, <2>1, <2>2
<1> QED BY <1>1, <1>2, <1>4, <1>5 DEF RateType

\* One packet more leaves every slot's count within what arrived.
LEMMA CountedAfter ==
    ASSUME RateType, Counted, NEW ip, NEW now, NEW ok, Arrives(ip, now, ok),
           NEW i \in RateSlots, NEW e \in [ip : Nat, count : Nat, start : Nat],
           e.ip = ip, e.start <= now, rates' = [rates EXCEPT ![i] = e],
           \/ e.count = 1
           \/ rates[i].ip = ip /\ e.start = rates[i].start /\ e.count = rates[i].count + 1
    PROVE  Counted' /\ e.count <= Cardinality(Since(log', ip, e.start))
<1>1. RateType'  BY TypeAfter
<1>2. \A x, t : /\ Cardinality(Since(log, x, t)) \in Nat
                /\ Cardinality(Since(log', x, t)) \in Nat
                /\ Cardinality(Since(log', x, t)) >= Cardinality(Since(log, x, t))
                /\ x = ip /\ now >= t => Cardinality(Since(log', x, t)) = Cardinality(Since(log, x, t)) + 1
  BY <1>1, SinceGrows, SinceFinite
<1>3. now \in Nat /\ ip # NoSource /\ now >= e.start  BY DEF Arrives
<1>4. e.count <= Cardinality(Since(log', ip, e.start))
  <2>0. /\ Cardinality(Since(log, ip, e.start)) \in Nat
        /\ Cardinality(Since(log', ip, e.start)) = Cardinality(Since(log, ip, e.start)) + 1
    BY <1>2, <1>3
  <2>1. CASE e.count = 1  BY <2>0, <2>1
  <2>2. CASE rates[i].ip = ip /\ e.start = rates[i].start /\ e.count = rates[i].count + 1
    <3>1. rates[i].count <= Cardinality(Since(log, ip, e.start))  BY <1>3, <2>2 DEF Counted
    <3>2. rates[i].count \in Nat  BY DEF RateType
    <3> QED BY <2>0, <2>2, <3>1, <3>2
  <2> QED BY <2>1, <2>2
<1>5. ASSUME NEW k \in RateSlots, rates'[k].ip # NoSource
      PROVE  rates'[k].count <= Cardinality(Since(log', rates'[k].ip, rates'[k].start))
  <2>1. rates'[k] = IF k = i THEN e ELSE rates[k]  BY DEF RateType
  <2>2. CASE k = i  BY <1>4, <2>1, <2>2
  <2>3. CASE k # i
    <3>1. rates'[k] = rates[k]  BY <2>1, <2>3
    <3>2. rates[k].count \in Nat  BY DEF RateType
    <3>3. rates[k].count <= Cardinality(Since(log, rates[k].ip, rates[k].start))
      BY <1>5, <3>1 DEF Counted
    <3>4. /\ Cardinality(Since(log', rates[k].ip, rates[k].start)) \in Nat
          /\ Cardinality(Since(log', rates[k].ip, rates[k].start)) >= Cardinality(Since(log, rates[k].ip, rates[k].start))
          /\ Cardinality(Since(log, rates[k].ip, rates[k].start)) \in Nat
      BY <1>2
    <3> QED BY <3>1, <3>2, <3>3, <3>4
  <2> QED BY <2>2, <2>3
<1> QED BY <1>4, <1>5 DEF Counted

\* The recent packets of one that is in the log stay what they are.
LEMMA RecentKept ==
    ASSUME RateType, NEW ip, NEW now, NEW ok, Arrives(ip, now, ok), NEW k \in 1..Len(log)
    PROVE  Recent(k)' = Recent(k)
<1>1. /\ Len(log) \in Nat /\ \A j \in 1..Len(log) : log'[j] = log[j]
  BY LogGrows
<1>2. \A j \in 1..k : j \in 1..Len(log)  BY <1>1
<1> QED BY <1>1, <1>2 DEF Recent

\* A packet turned away ends a window that holds too many.
LEMMA ModestAfter ==
    ASSUME RateType, Counted, ModestServed, NEW ip, NEW now, NEW ok, Arrives(ip, now, ok),
           RateType', NEW t, now - t <= Window, t \in Nat,
           ~ok => Cardinality(Since(log', ip, t)) > MaxPerWindow
    PROVE  ModestServed'
<1>1. /\ Len(log) \in Nat /\ Len(log') = Len(log) + 1
      /\ log'[Len(log) + 1] = [ip |-> ip, at |-> now, ok |-> ok]
      /\ \A j \in 1..Len(log) : log'[j] = log[j]
  BY LogGrows
<1> SUFFICES ASSUME NEW k \in 1..(Len(log) + 1), ~log'[k].ok
             PROVE  Cardinality(Recent(k)') > MaxPerWindow
  BY <1>1 DEF ModestServed
<1>2. CASE k \in 1..Len(log)
  <2>1. ~log[k].ok  BY <1>1, <1>2
  <2>2. Cardinality(Recent(k)) > MaxPerWindow  BY <1>2, <2>1 DEF ModestServed
  <2>3. Recent(k)' = Recent(k)  BY <1>2, RecentKept
  <2> QED BY <2>2, <2>3
<1>3. CASE k = Len(log) + 1
  <2>1. ~ok  BY <1>1, <1>3
  <2>2. Recent(k)' = {j \in 1..k : log'[j].ip = ip /\ now - log'[j].at <= Window}
    BY <1>1, <1>3 DEF Recent
  <2>3. Since(log', ip, t) = {j \in 1..k : log'[j].ip = ip /\ log'[j].at >= t}
    BY <1>1, <1>3 DEF Since
  <2>4. \A j \in 1..k : log'[j].at \in Nat
    <3> SUFFICES ASSUME NEW j \in 1..k PROVE log'[j].at \in Nat
      OBVIOUS
    <3>1. j \in 1..Len(log) => log'[j].at \in Nat  BY <1>1, LogEntry
    <3>2. j = Len(log) + 1 => log'[j].at \in Nat  BY <1>1 DEF Arrives
    <3> QED BY <1>1, <1>3, <3>1, <3>2
  <2>5. now \in Nat /\ Window \in Nat /\ MaxPerWindow \in Nat  BY RateConstants DEF Arrives
  <2>6. Since(log', ip, t) \in SUBSET Recent(k)'  BY <2>2, <2>3, <2>4, <2>5
  <2>7. IsFiniteSet(Recent(k)') /\ Cardinality(Recent(k)') \in Nat
    <3>1. IsFiniteSet(1..k)  BY <1>1, FS_Interval
    <3>2. Recent(k)' \in SUBSET (1..k)  BY <2>2
    <3>3. IsFiniteSet(Recent(k)')  BY <3>1, <3>2, FS_Subset
    <3> QED BY <3>3, FS_CardinalityType
  <2>8. Cardinality(Since(log', ip, t)) <= Cardinality(Recent(k)')
        /\ Cardinality(Since(log', ip, t)) \in Nat
    <3> DEFINE A == Since(log', ip, t)
               B == Recent(k)'
    <3>1. IsFiniteSet(B) /\ A \in SUBSET B  BY <2>6, <2>7
    <3> HIDE DEF A, B
    <3>2. IsFiniteSet(A) /\ Cardinality(A) <= Cardinality(B)  BY <3>1, FS_Subset
    <3> QED BY <3>2, FS_CardinalityType DEF A, B
  <2> QED BY <2>1, <2>5, <2>7, <2>8
<1> QED BY <1>1, <1>2, <1>3

RateModest == RateType /\ Counted /\ ModestServed

LEMMA ModestStarts == RateInit => RateModest
<1> SUFFICES ASSUME RateInit PROVE RateModest
  OBVIOUS
<1>1. rates = [i \in RateSlots |-> Entry(NoSource, 0, 0)] /\ log = <<>>  BY DEF RateInit
<1>2. Len(log) = 0 /\ Clock = 0  BY <1>1 DEF Clock
<1>3. RateType  BY <1>1, <1>2 DEF RateType, Entry, NoSource
<1>4. Counted  BY <1>1 DEF Counted, Entry
<1>5. ModestServed  BY <1>2 DEF ModestServed
<1> QED BY <1>3, <1>4, <1>5 DEF RateModest

LEMMA ModestKnown ==
    ASSUME RateModest, NEW ip \in Senders, NEW gap \in Gaps, Known(ip, Clock + gap)
    PROVE  RateModest'
<1> DEFINE now == Clock + gap
<1>1. RateType /\ Counted /\ ModestServed  BY DEF RateModest
<1>2. PICK i \in RateSlots : /\ rates[i].ip = ip
                             /\ rates' = [rates EXCEPT ![i] = Seen(rates[i], now)]
                             /\ Arrives(ip, now, Seen(rates[i], now).count <= MaxPerWindow)
  BY <1>1, KnownSlot
<1> DEFINE e == Seen(rates[i], now)
           ok == e.count <= MaxPerWindow
<1>3. rates[i] \in [ip : Nat, count : Nat, start : Nat] /\ rates[i].start <= Clock /\ Clock \in Nat
  BY <1>1, ClockType DEF RateType
<1>4. now \in Nat /\ now >= Clock  BY <1>2 DEF Arrives
<1>5. rates[i].start <= now  BY <1>3, <1>4
<1>6. /\ e \in [ip : Nat, count : Nat, start : Nat]
      /\ e.ip = ip /\ e.start <= now
      /\ now - rates[i].start > Window => e.count = 1 /\ e.start = now
      /\ ~(now - rates[i].start > Window) => e.count = rates[i].count + 1 /\ e.start = rates[i].start
  <2> HIDE DEF now
  <2> QED BY <1>2, <1>3, <1>4, <1>5, SeenEntry
<1>7. rates' = [rates EXCEPT ![i] = e] /\ Arrives(ip, now, ok)  BY <1>2
<1> HIDE DEF now, e
<1>8. RateType'  BY <1>1, <1>6, <1>7, TypeAfter
<1>9. Counted' /\ e.count <= Cardinality(Since(log', ip, e.start))
  BY <1>1, <1>2, <1>6, <1>7, CountedAfter
<1>10. now - e.start <= Window /\ e.start \in Nat /\ now - e.start \in Int
  BY <1>3, <1>4, <1>6, RateConstants
<1>11. ~ok => Cardinality(Since(log', ip, e.start)) > MaxPerWindow
  <2>1. Cardinality(Since(log', ip, e.start)) \in Nat  BY <1>1, <1>7, <1>8, SinceGrows
  <2> QED BY <1>6, <1>9, <2>1, RateConstants
<1>12. ModestServed'
  <2> HIDE DEF ok
  <2> QED BY <1>1, <1>7, <1>8, <1>10, <1>11, ModestAfter
<1> QED BY <1>8, <1>9, <1>12 DEF RateModest

LEMMA ModestNew ==
    ASSUME RateModest, NEW ip \in Senders, NEW gap \in Gaps, New(ip, Clock + gap)
    PROVE  RateModest'
<1> DEFINE now == Clock + gap
           e == Entry(ip, 1, now)
<1>1. RateType /\ Counted /\ ModestServed  BY DEF RateModest
<1>2. NewSlot \in RateSlots /\ rates' = [rates EXCEPT ![NewSlot] = e] /\ Arrives(ip, now, TRUE)
  BY <1>1, NewSlotOf
<1>3. /\ e \in [ip : Nat, count : Nat, start : Nat] /\ now \in Nat
      /\ e.ip = ip /\ e.start = now /\ e.start <= now /\ e.count = 1
  BY <1>2 DEF Arrives, Entry
<1> HIDE DEF now, e
<1>4. RateType'  BY <1>1, <1>2, <1>3, TypeAfter
<1>5. Counted'  BY <1>1, <1>2, <1>3, CountedAfter
<1>6. now - now <= Window  BY <1>3, RateConstants
<1>7. ModestServed'  BY <1>1, <1>2, <1>3, <1>4, <1>6, ModestAfter
<1> QED BY <1>4, <1>5, <1>7 DEF RateModest

LEMMA ModestSettled == RateSpec => []RateModest
<1>1. RateModest /\ [RateNext]_rateVars => RateModest'
  <2> SUFFICES ASSUME RateModest, [RateNext]_rateVars PROVE RateModest'
    OBVIOUS
  <2>1. CASE RateNext  BY <2>1, ModestKnown, ModestNew DEF RateNext
  <2>2. CASE UNCHANGED rateVars
    <3>1. rates' = rates /\ log' = log  BY <2>2 DEF rateVars
    <3> QED BY <3>1 DEF RateModest, RateType, Counted, ModestServed, Since, Recent, Clock
  <2> QED BY <2>1, <2>2
<1> QED BY <1>1, ModestStarts, PTL DEF RateSpec

\* For any table and any sequence of packets, only a source that sent more than
\* MaxPerWindow packets within the last window is turned away.
THEOREM ModestAreServed == RateSpec => []ModestServed
<1>1. RateModest => ModestServed  BY DEF RateModest
<1> QED BY <1>1, ModestSettled, PTL

\* What was let through of a source since some time, and the window before it.
Through(L, ip, t) ==
    {j \in 1..Len(L) : L[j].ip = ip /\ L[j].ok /\ L[j].at >= t}
Earlier(L, ip, t) ==
    {j \in 1..Len(L) : L[j].ip = ip /\ L[j].ok /\ L[j].at < t /\ t - L[j].at <= Window}

\* A source's entry accounts for what was let through of it: no more than it
\* counts in its window, no more than MaxPerWindow in it and before it, and
\* nothing after it.
Fits(L, entry, ip) ==
    /\ entry.ip = ip
    /\ Cardinality(Through(L, ip, entry.start)) <= entry.count
    /\ Cardinality(Through(L, ip, entry.start)) <= MaxPerWindow
    /\ Cardinality(Earlier(L, ip, entry.start)) <= MaxPerWindow
    /\ \A j \in 1..Len(L) : L[j].ip = ip => L[j].at <= entry.start + Window

\* Slots are of sources that were heard; with room for all of these, each has
\* one slot of its own.
RateGreedy ==
    /\ RateType
    /\ \A i \in RateSlots : rates[i].ip # NoSource => rates[i].ip \in Heard
    /\ Cardinality(Heard) <= RateTableSize =>
         \A ip \in Heard : \E i \in RateSlots : SlotsOf(ip) = {i} /\ Fits(log, rates[i], ip)
    /\ GreedyHeldBack

LEMMA UpToFinite ==
    ASSUME NEW n \in Nat, NEW S \in SUBSET (1..n)
    PROVE  IsFiniteSet(S) /\ Cardinality(S) \in Nat
<1>1. IsFiniteSet(1..n)  BY FS_Interval
<1>2. IsFiniteSet(S)  BY <1>1, FS_Subset
<1> QED BY <1>2, FS_CardinalityType

LEMMA HeardGrows ==
    ASSUME RateType, NEW ip, NEW now, NEW ok, Arrives(ip, now, ok)
    PROVE  /\ Heard' = Heard \cup {ip}
           /\ Cardinality(Heard) \in Nat /\ IsFiniteSet(Heard)
           /\ Cardinality(Heard') = IF ip \in Heard THEN Cardinality(Heard) ELSE Cardinality(Heard) + 1
<1>1. /\ Len(log) \in Nat /\ Len(log') = Len(log) + 1
      /\ log'[Len(log) + 1] = [ip |-> ip, at |-> now, ok |-> ok]
      /\ \A j \in 1..Len(log) : log'[j] = log[j]
  BY LogGrows
<1>2. Heard' = Heard \cup {ip}
  <2>1. Heard' = {log'[k].ip : k \in 1..(Len(log) + 1)}  BY <1>1 DEF Heard
  <2>2. ip \in Heard'  BY <1>1, <2>1
  <2>3. \A k \in 1..(Len(log) + 1) : k \in 1..Len(log) \/ k = Len(log) + 1  BY <1>1
  <2> QED BY <1>1, <2>1, <2>2, <2>3 DEF Heard
<1>3. IsFiniteSet(Heard)
  <2> DEFINE f == [k \in 1..Len(log) |-> log[k].ip]
  <2>1. f \in Surjection(1..Len(log), Heard)  BY DEF Surjection, Heard
  <2>2. IsFiniteSet(1..Len(log))  BY <1>1, FS_Interval
  <2> HIDE DEF f
  <2> QED BY <2>1, <2>2, FS_Surjection
<1>4. Cardinality(Heard) \in Nat  BY <1>3, FS_CardinalityType
<1>5. Cardinality(Heard \cup {ip}) = IF ip \in Heard THEN Cardinality(Heard) ELSE Cardinality(Heard) + 1
  BY <1>3, FS_AddElement
<1> QED BY <1>2, <1>3, <1>4, <1>5

\* Another source's packet changes nothing for an entry.
LEMMA FitsKept ==
    ASSUME RateType, NEW ip, NEW now, NEW ok, Arrives(ip, now, ok),
           NEW e, NEW x, x # ip, Fits(log, e, x)
    PROVE  Fits(log', e, x)
<1> DEFINE n == Len(log)
<1>1. /\ n \in Nat /\ Len(log') = n + 1
      /\ log'[n + 1] = [ip |-> ip, at |-> now, ok |-> ok]
      /\ \A j \in 1..n : log'[j] = log[j]
  BY LogGrows
<1>2. log'[n + 1].ip # x  BY <1>1
<1>3. \A j \in 1..(n + 1) : j \in 1..n \/ j = n + 1  BY <1>1
<1>4. Through(log', x, e.start) = Through(log, x, e.start)
  BY <1>1, <1>2, <1>3 DEF Through
<1>5. Earlier(log', x, e.start) = Earlier(log, x, e.start)
  BY <1>1, <1>2, <1>3 DEF Earlier
<1>6. \A j \in 1..(n + 1) : log'[j].ip = x => log'[j].at <= e.start + Window
  BY <1>1, <1>2, <1>3 DEF Fits
<1> QED BY <1>1, <1>4, <1>5, <1>6 DEF Fits

\* A source's first entry accounts for its first packet.
LEMMA FitsFirst ==
    ASSUME RateType, NEW ip, NEW now, Arrives(ip, now, TRUE), ip \notin Heard
    PROVE  Fits(log', Entry(ip, 1, now), ip)
<1> DEFINE n == Len(log)
<1>1. /\ n \in Nat /\ Len(log') = n + 1
      /\ log'[n + 1] = [ip |-> ip, at |-> now, ok |-> TRUE]
      /\ \A j \in 1..n : log'[j] = log[j]
  BY LogGrows
<1>2. \A j \in 1..(n + 1) : log'[j].ip = ip <=> j = n + 1
  <2>1. \A j \in 1..n : log[j].ip # ip  BY DEF Heard
  <2>2. \A j \in 1..(n + 1) : j \in 1..n \/ j = n + 1  BY <1>1
  <2> QED BY <1>1, <2>1, <2>2
<1>3. now \in Nat  BY DEF Arrives
<1>4. Through(log', ip, now) = {n + 1}  BY <1>1, <1>2, <1>3 DEF Through
<1>5. Earlier(log', ip, now) = {}  BY <1>1, <1>2, <1>3 DEF Earlier
<1>6. Cardinality({n + 1}) = 1 /\ Cardinality({}) = 0  BY FS_Singleton, FS_EmptySet
<1>7. Entry(ip, 1, now).ip = ip /\ Entry(ip, 1, now).count = 1 /\ Entry(ip, 1, now).start = now
  BY DEF Entry
<1>8. \A j \in 1..(n + 1) : log'[j].ip = ip => log'[j].at <= now + Window
  BY <1>1, <1>2, <1>3, RateConstants
<1> DEFINE f == Entry(ip, 1, now)
<1> HIDE DEF f, n
<1>9. /\ Cardinality(Through(log', ip, f.start)) = 1
      /\ Cardinality(Earlier(log', ip, f.start)) = 0
  BY <1>4, <1>5, <1>6, <1>7 DEF f
<1>10. f.ip = ip /\ f.count = 1 /\ f.start = now  BY <1>7 DEF f
<1>11. Fits(log', f, ip)
  BY <1>1, <1>8, <1>9, <1>10, RateConstants DEF Fits
<1> QED BY <1>11 DEF f

\* A known source's entry goes on to account for it: in the same window it
\* counts one more, and a new window has the old one right before it.
LEMMA FitsSeen ==
    ASSUME RateType, NEW e \in [ip : Nat, count : Nat, start : Nat], e.start <= Clock,
           NEW ip, NEW now, Fits(log, e, ip),
           NEW ok \in BOOLEAN, ok <=> Seen(e, now).count <= MaxPerWindow, Arrives(ip, now, ok)
    PROVE  Fits(log', Seen(e, now), ip)
<1> DEFINE n == Len(log)
           f == Seen(e, now)
           s == e.start
<1>1. /\ n \in Nat /\ Len(log') = n + 1
      /\ log'[n + 1] = [ip |-> ip, at |-> now, ok |-> ok]
      /\ \A j \in 1..n : log'[j] = log[j]
  BY LogGrows
<1>2. now \in Nat /\ now >= Clock /\ Clock \in Nat /\ s \in Nat /\ s <= now
      /\ Window \in Nat /\ MaxPerWindow \in Nat /\ MaxPerWindow >= 1
  BY ClockType, RateConstants DEF Arrives
<1>3. /\ Seen(e, now).ip = ip
      /\ now - s > Window => Seen(e, now).count = 1 /\ Seen(e, now).start = now
      /\ ~(now - s > Window) => Seen(e, now).count = e.count + 1 /\ Seen(e, now).start = s
  BY <1>2, SeenEntry DEF Fits
<1>4. /\ Cardinality(Through(log, ip, s)) <= e.count
      /\ Cardinality(Through(log, ip, s)) <= MaxPerWindow
      /\ Cardinality(Earlier(log, ip, s)) <= MaxPerWindow
      /\ \A j \in 1..n : log[j].ip = ip => log[j].at <= s + Window
  BY DEF Fits
<1>5. \A j \in 1..n : log[j].at \in Nat /\ log[j].at <= Clock  BY LogEntry DEF RateType
<1>6. \A j \in 1..(n + 1) : j \in 1..n \/ j = n + 1  BY <1>1
<1>7. /\ IsFiniteSet(Through(log, ip, s)) /\ Cardinality(Through(log, ip, s)) \in Nat
      /\ n + 1 \notin Through(log, ip, s)
  <2>1. Through(log, ip, s) \in SUBSET (1..n) /\ n + 1 \notin 1..n  BY <1>1 DEF Through
  <2> QED BY <1>1, <2>1, UpToFinite
<1>8. CASE now - s > Window
  <2>1. ok  BY <1>2, <1>3, <1>8
  <2>2. \A j \in 1..n : log[j].ip = ip => log[j].at < now
    BY <1>2, <1>4, <1>5, <1>8
  <2>3. Through(log', ip, now) = {n + 1}
    <3>1. n + 1 \in Through(log', ip, now)  BY <1>1, <1>2, <2>1 DEF Through
    <3>2. \A j \in 1..n : j \notin Through(log', ip, now)
      <4> SUFFICES ASSUME NEW j \in 1..n, log[j].ip = ip, log[j].at >= now PROVE FALSE
        BY <1>1 DEF Through
      <4> QED BY <1>2, <1>5, <2>2
    <3>3. \A j \in Through(log', ip, now) : j \in 1..(n + 1)  BY <1>1 DEF Through
    <3> QED BY <1>6, <3>1, <3>2, <3>3
  <2>4. Cardinality({n + 1}) = 1  BY FS_Singleton
  <2>5. Earlier(log', ip, now) \in SUBSET Through(log, ip, s)
    <3> SUFFICES ASSUME NEW j \in Earlier(log', ip, now) PROVE j \in Through(log, ip, s)
      OBVIOUS
    <3>1. j \in 1..(n + 1) /\ log'[j].ip = ip /\ log'[j].ok /\ log'[j].at < now
          /\ now - log'[j].at <= Window
      BY <1>1 DEF Earlier
    <3>2. j # n + 1  BY <1>1, <1>2, <3>1
    <3>3. j \in 1..n /\ log'[j] = log[j] /\ log[j].at \in Nat  BY <1>1, <1>5, <1>6, <3>1, <3>2
    <3>4. log[j].at >= s
      <4>1. now - log[j].at <= Window  BY <3>1, <3>3
      <4> QED BY <1>2, <1>8, <3>3, <4>1
    <3>5. log[j].ip = ip /\ log[j].ok  BY <3>1, <3>3
    <3> QED BY <3>3, <3>4, <3>5 DEF Through
  <2>6. Cardinality(Earlier(log', ip, now)) <= Cardinality(Through(log, ip, s))
        /\ Cardinality(Earlier(log', ip, now)) \in Nat
    <3>1. Earlier(log', ip, now) \in SUBSET (1..(n + 1))  BY <1>1 DEF Earlier
    <3>2. Cardinality(Earlier(log', ip, now)) \in Nat  BY <1>1, <3>1, UpToFinite
    <3> QED BY <1>7, <2>5, <3>2, FS_Subset
  <2>7. \A j \in 1..(n + 1) : log'[j].ip = ip => log'[j].at <= now + Window
    <3> SUFFICES ASSUME NEW j \in 1..(n + 1), log'[j].ip = ip PROVE log'[j].at <= now + Window
      OBVIOUS
    <3>1. CASE j \in 1..n
      <4>1. log'[j].at = log[j].at /\ log[j].at \in Nat /\ log[j].at <= Clock  BY <1>1, <1>5, <3>1
      <4> QED BY <1>2, <4>1
    <3>2. CASE j = n + 1
      <4>1. log'[j].at = now  BY <1>1, <3>2
      <4> QED BY <1>2, <4>1
    <3> QED BY <1>6, <3>1, <3>2
  <2>8. Seen(e, now).start = now /\ Seen(e, now).count = 1  BY <1>3, <1>8
  <2>9. Cardinality(Earlier(log', ip, now)) <= MaxPerWindow  BY <1>2, <1>4, <1>7, <2>6
  <2> HIDE DEF f
  <2>10. /\ f.ip = ip /\ f.count = 1 /\ f.start = now
         /\ Cardinality(Through(log', ip, f.start)) = 1
         /\ Cardinality(Earlier(log', ip, f.start)) <= MaxPerWindow
    BY <1>3, <2>3, <2>4, <2>8, <2>9 DEF f
  <2>11. Fits(log', f, ip)  BY <1>1, <1>2, <2>7, <2>10 DEF Fits
  <2> QED BY <2>11 DEF f
<1>9. CASE ~(now - s > Window)
  <2>0. Seen(e, now).start = s /\ Seen(e, now).count = e.count + 1  BY <1>3, <1>9
  <2>1. Earlier(log', ip, s) = Earlier(log, ip, s)
    <3>1. n + 1 \notin Earlier(log', ip, s)
      <4>1. ~(log'[n + 1].at < s)  BY <1>1, <1>2
      <4> QED BY <4>1 DEF Earlier
    <3>2. \A j \in 1..n : j \in Earlier(log', ip, s) <=> j \in Earlier(log, ip, s)
      BY <1>1 DEF Earlier
    <3>3. Earlier(log', ip, s) \subseteq 1..(n + 1) /\ Earlier(log, ip, s) \subseteq 1..n
      BY <1>1 DEF Earlier
    <3> QED BY <1>1, <1>6, <3>1, <3>2, <3>3
  <2>2. Through(log', ip, s) = IF ok THEN Through(log, ip, s) \cup {n + 1} ELSE Through(log, ip, s)
    <3>1. n + 1 \in Through(log', ip, s) <=> ok
      <4>1. log'[n + 1].ip = ip /\ log'[n + 1].at >= s /\ n + 1 \in 1..(n + 1)  BY <1>1, <1>2
      <4>2. log'[n + 1].ok <=> ok  BY <1>1
      <4> QED BY <1>1, <4>1, <4>2 DEF Through
    <3>2. \A j \in 1..n : j \in Through(log', ip, s) <=> j \in Through(log, ip, s)
      BY <1>1 DEF Through
    <3>3. Through(log', ip, s) \subseteq 1..(n + 1) /\ Through(log, ip, s) \subseteq 1..n
      BY <1>1 DEF Through
    <3> HIDE DEF n
    <3> QED BY <1>1, <1>6, <3>1, <3>2, <3>3
  <2>3. Cardinality(Through(log', ip, s)) = IF ok THEN Cardinality(Through(log, ip, s)) + 1
                                            ELSE Cardinality(Through(log, ip, s))
    BY <1>7, <2>2, FS_AddElement
  <2>4. Cardinality(Through(log', ip, s)) <= e.count + 1
        /\ Cardinality(Through(log', ip, s)) <= MaxPerWindow
    <3>1. e.count \in Nat  OBVIOUS
    <3>2. CASE ok
      <4>1. e.count + 1 <= MaxPerWindow  BY <2>0, <3>2
      <4> QED BY <1>2, <1>4, <1>7, <2>3, <3>1, <3>2, <4>1
    <3>3. CASE ~ok
      BY <1>2, <1>4, <1>7, <2>3, <3>1, <3>3
    <3> QED BY <3>2, <3>3
  <2>5. \A j \in 1..(n + 1) : log'[j].ip = ip => log'[j].at <= s + Window
    <3> SUFFICES ASSUME NEW j \in 1..(n + 1), log'[j].ip = ip PROVE log'[j].at <= s + Window
      OBVIOUS
    <3>1. CASE j \in 1..n  BY <1>1, <1>4, <3>1
    <3>2. CASE j = n + 1
      <4>1. log'[j].at = now  BY <1>1, <3>2
      <4> QED BY <1>2, <1>9, <4>1
    <3> QED BY <1>6, <3>1, <3>2
  <2> HIDE DEF f
  <2>6. /\ f.ip = ip /\ f.count = e.count + 1 /\ f.start = s
        /\ Cardinality(Through(log', ip, f.start)) <= f.count
        /\ Cardinality(Through(log', ip, f.start)) <= MaxPerWindow
        /\ Cardinality(Earlier(log', ip, f.start)) <= MaxPerWindow
    BY <1>3, <1>4, <2>0, <2>1, <2>4 DEF f
  <2>7. Fits(log', f, ip)  BY <1>1, <2>5, <2>6 DEF Fits
  <2> QED BY <2>7 DEF f
<1> QED BY <1>8, <1>9

\* The latest packet's window reaches back no further than its entry accounts for.
LEMMA LatestHeldBack ==
    ASSUME RateType, NEW ip, NEW now, NEW ok, Arrives(ip, now, ok), RateType',
           NEW e \in [ip : Nat, count : Nat, start : Nat], e.start <= now, Fits(log', e, ip)
    PROVE  Cardinality({j \in 1..(Len(log) + 1) : /\ log'[j].ip = ip /\ log'[j].ok
                                                  /\ now - log'[j].at <= Window})
             <= 2 * MaxPerWindow
<1> DEFINE n == Len(log)
           A == Through(log', ip, e.start)
           B == Earlier(log', ip, e.start)
           R == {j \in 1..(n + 1) : /\ log'[j].ip = ip /\ log'[j].ok
                                    /\ now - log'[j].at <= Window}
<1>1. /\ n \in Nat /\ Len(log') = n + 1
      /\ log'[n + 1] = [ip |-> ip, at |-> now, ok |-> ok]
      /\ \A j \in 1..n : log'[j] = log[j]
  BY LogGrows
<1>2. \A j \in 1..(n + 1) : log'[j].at \in Nat
  <2>1. \A j \in 1..n : log'[j].at \in Nat  BY <1>1, LogEntry
  <2>2. log'[n + 1].at \in Nat  BY <1>1 DEF Arrives
  <2> QED BY <1>1, <2>1, <2>2
<1>3. A \in SUBSET (1..(n + 1)) /\ B \in SUBSET (1..(n + 1)) /\ R \in SUBSET (1..(n + 1))
  BY <1>1 DEF Through, Earlier
<1>4. R \subseteq A \cup B
  <2> SUFFICES ASSUME NEW j \in R, j \notin A PROVE j \in B
    OBVIOUS
  <2>1. /\ j \in 1..(n + 1) /\ log'[j].at \in Nat
        /\ log'[j].ip = ip /\ log'[j].ok /\ now - log'[j].at <= Window
    BY <1>2
  <2>2. ~(log'[j].at >= e.start)  BY <1>1, <2>1 DEF Through
  <2>3. log'[j].at < e.start /\ e.start - log'[j].at <= Window
    BY <2>1, <2>2, RateConstants DEF Arrives
  <2> QED BY <1>1, <2>1, <2>3 DEF Earlier
<1>5. /\ IsFiniteSet(A) /\ Cardinality(A) \in Nat /\ Cardinality(A) <= MaxPerWindow
      /\ IsFiniteSet(B) /\ Cardinality(B) \in Nat /\ Cardinality(B) <= MaxPerWindow
  <2>1. Cardinality(A) <= MaxPerWindow /\ Cardinality(B) <= MaxPerWindow  BY DEF Fits
  <2>2. n + 1 \in Nat  BY <1>1
  <2> HIDE DEF n, A, B, R
  <2> QED BY <1>3, <2>1, <2>2, UpToFinite
<1> HIDE DEF n, A, B, R
<1>6. IsFiniteSet(A \cup B) /\ IsFiniteSet(A \cap B)
      /\ Cardinality(A \cup B) = Cardinality(A) + Cardinality(B) - Cardinality(A \cap B)
  BY <1>5, FS_Union, FS_Intersection
<1>7. Cardinality(A \cap B) \in Nat /\ Cardinality(A \cup B) \in Nat
  BY <1>6, FS_CardinalityType
<1>8. IsFiniteSet(R) /\ Cardinality(R) <= Cardinality(A \cup B)
  BY <1>4, <1>6, FS_Subset
<1>9. Cardinality(R) \in Nat  BY <1>8, FS_CardinalityType
<1>10. Cardinality(R) <= 2 * MaxPerWindow  BY <1>5, <1>6, <1>7, <1>8, <1>9, RateConstants
<1> QED BY <1>10 DEF R, n

\* One packet more, its source's entry in the one slot that may hold it.
LEMMA GreedyAfter ==
    ASSUME RateGreedy, NEW ip, NEW now, NEW ok, Arrives(ip, now, ok), RateType',
           NEW i \in RateSlots, NEW e \in [ip : Nat, count : Nat, start : Nat],
           e.ip = ip, e.start <= now, rates' = [rates EXCEPT ![i] = e],
           Cardinality(Heard') <= RateTableSize =>
             Fits(log', e, ip) /\ SlotsOf(ip) \subseteq {i} /\ rates[i].ip \in {ip, NoSource}
    PROVE  RateGreedy'
<1>1. /\ Len(log) \in Nat /\ Len(log') = Len(log) + 1
      /\ log'[Len(log) + 1] = [ip |-> ip, at |-> now, ok |-> ok]
      /\ \A j \in 1..Len(log) : log'[j] = log[j]
  BY LogGrows DEF RateGreedy
<1>2. /\ Heard' = Heard \cup {ip}
      /\ Cardinality(Heard) \in Nat
      /\ Cardinality(Heard') = IF ip \in Heard THEN Cardinality(Heard) ELSE Cardinality(Heard) + 1
  BY HeardGrows DEF RateGreedy
<1>3. Cardinality(Heard') <= RateTableSize => Cardinality(Heard) <= RateTableSize
  BY <1>2, RateConstants
<1>4. rates' = [rates EXCEPT ![i] = e] /\ rates \in [RateSlots -> [ip : Nat, count : Nat, start : Nat]]
  BY DEF RateGreedy, RateType
<1>5. \A k \in RateSlots : rates'[k] = IF k = i THEN e ELSE rates[k]  BY <1>4
<1>6. ip # NoSource  BY DEF Arrives
<1>7. \A k \in RateSlots : rates'[k].ip # NoSource => rates'[k].ip \in Heard'
  BY <1>2, <1>5 DEF RateGreedy
<1>8. ASSUME Cardinality(Heard') <= RateTableSize, NEW x \in Heard'
      PROVE  \E k \in RateSlots : SlotsOf(x)' = {k} /\ Fits(log', rates'[k], x)
  <2>1. Fits(log', e, ip) /\ SlotsOf(ip) \subseteq {i} /\ rates[i].ip \in {ip, NoSource}
    BY <1>8
  <2>2. CASE x = ip
    <3>1. SlotsOf(x)' = {i}  BY <1>5, <2>1, <2>2 DEF SlotsOf
    <3>2. rates'[i] = e  BY <1>5
    <3> QED BY <2>1, <2>2, <3>1, <3>2
  <2>3. CASE x # ip
    <3>1. x \in Heard  BY <1>2, <2>3
    <3>2. PICK k \in RateSlots : SlotsOf(x) = {k} /\ Fits(log, rates[k], x)
      BY <1>3, <1>8, <3>1 DEF RateGreedy
    <3>3. Fits(log', rates[k], x)  BY <2>3, <3>2, FitsKept DEF RateGreedy
    <3>4. rates[k].ip = x  BY <3>2 DEF SlotsOf
    <3>5. x # NoSource
      <4>1. PICK j \in 1..Len(log) : x = log[j].ip  BY <3>1 DEF Heard
      <4> QED BY <4>1 DEF RateGreedy, RateType
    <3>6. k # i  BY <2>1, <2>3, <3>4, <3>5
    <3>7. rates'[k] = rates[k]  BY <1>5, <3>6
    <3>8. SlotsOf(x)' = SlotsOf(x)
      <4>1. \A j \in RateSlots : rates'[j].ip = x <=> rates[j].ip = x
        BY <1>5, <2>1, <2>3, <3>5
      <4> QED BY <4>1 DEF SlotsOf
    <3> QED BY <3>2, <3>3, <3>7, <3>8
  <2> QED BY <2>2, <2>3
<1>9. GreedyHeldBack'
  <2> SUFFICES ASSUME Cardinality(Heard') <= RateTableSize, NEW k \in 1..(Len(log) + 1)
               PROVE  Cardinality({j \in Recent(k)' : log'[j].ok}) <= 2 * MaxPerWindow
    BY <1>1 DEF GreedyHeldBack
  <2>1. CASE k \in 1..Len(log)
    <3>1. Recent(k)' = Recent(k)  BY <2>1, RecentKept DEF RateGreedy
    <3>2. \A j \in Recent(k) : log'[j] = log[j]
      <4>1. \A j \in 1..k : j \in 1..Len(log)  BY <1>1, <2>1
      <4> QED BY <1>1, <4>1 DEF Recent
    <3>3. {j \in Recent(k)' : log'[j].ok} = {j \in Recent(k) : log[j].ok}
      BY <3>1, <3>2
    <3>4. Cardinality({j \in Recent(k) : log[j].ok}) <= 2 * MaxPerWindow
      BY <1>3, <2>1 DEF RateGreedy, GreedyHeldBack
    <3> QED BY <3>3, <3>4
  <2>2. CASE k = Len(log) + 1
    <3>1. Fits(log', e, ip)  OBVIOUS
    <3>2. {j \in Recent(k)' : log'[j].ok} =
            {j \in 1..(Len(log) + 1) : /\ log'[j].ip = ip /\ log'[j].ok
                                       /\ now - log'[j].at <= Window}
      BY <1>1, <2>2 DEF Recent
    <3> QED BY <3>1, <3>2, LatestHeldBack DEF RateGreedy
  <2> QED BY <1>1, <2>1, <2>2
<1> QED BY <1>7, <1>8, <1>9 DEF RateGreedy

LEMMA GreedyStarts == RateInit => RateGreedy
<1> SUFFICES ASSUME RateInit PROVE RateGreedy
  OBVIOUS
<1>1. RateType /\ \A i \in RateSlots : rates[i].ip = NoSource
  BY ModestStarts DEF RateModest, RateInit, Entry
<1>2. Len(log) = 0  BY DEF RateInit
<1>3. Heard = {}  BY <1>2 DEF Heard
<1>4. GreedyHeldBack  BY <1>2 DEF GreedyHeldBack
<1> QED BY <1>1, <1>3, <1>4 DEF RateGreedy

LEMMA GreedyKnown ==
    ASSUME RateGreedy, NEW ip \in Senders, NEW gap \in Gaps, Known(ip, Clock + gap)
    PROVE  RateGreedy'
<1> DEFINE now == Clock + gap
<1>1. RateType  BY DEF RateGreedy
<1>2. PICK i \in RateSlots : /\ rates[i].ip = ip
                             /\ rates' = [rates EXCEPT ![i] = Seen(rates[i], now)]
                             /\ Arrives(ip, now, Seen(rates[i], now).count <= MaxPerWindow)
  BY <1>1, KnownSlot
<1>3. rates[i] \in [ip : Nat, count : Nat, start : Nat] /\ rates[i].start <= Clock /\ Clock \in Nat
  BY <1>1, ClockType DEF RateType
<1>4. now \in Nat /\ now >= Clock /\ ip # NoSource  BY <1>2 DEF Arrives
<1>5. rates[i].start <= now  BY <1>3, <1>4
<1> DEFINE e == Seen(rates[i], now)
<1> HIDE DEF now
<1>6. e \in [ip : Nat, count : Nat, start : Nat] /\ e.ip = ip /\ e.start <= now
  BY <1>2, <1>3, <1>4, <1>5, SeenEntry
<1>7. PICK ok \in BOOLEAN : (ok <=> e.count <= MaxPerWindow) /\ Arrives(ip, now, ok)
  BY <1>2 DEF Arrives
<1>8. RateType'  BY <1>1, <1>2, <1>6, <1>7, TypeAfter
<1>9. ASSUME Cardinality(Heard') <= RateTableSize
      PROVE  Fits(log', e, ip) /\ SlotsOf(ip) \subseteq {i} /\ rates[i].ip \in {ip, NoSource}
  <2>1. ip \in Heard  BY <1>2, <1>4 DEF RateGreedy
  <2>2. Cardinality(Heard) <= RateTableSize  BY <1>1, <1>7, <1>9, <2>1, HeardGrows
  <2>3. PICK k \in RateSlots : SlotsOf(ip) = {k} /\ Fits(log, rates[k], ip)
    BY <2>1, <2>2 DEF RateGreedy
  <2>4. k = i  BY <1>2, <2>3 DEF SlotsOf
  <2>5. Fits(log, rates[i], ip)  BY <2>3, <2>4
  <2>6. Fits(log', e, ip)  BY <1>1, <1>3, <1>7, <2>5, FitsSeen
  <2> QED BY <1>2, <2>3, <2>4, <2>6
<1> HIDE DEF e
<1> QED BY <1>2, <1>6, <1>7, <1>8, <1>9, GreedyAfter DEF e

\* A new source finds a free slot while there is room for all: otherwise more
\* slots than sources would be taken, one source's twice.
LEMMA GreedyNew ==
    ASSUME RateGreedy, NEW ip \in Senders, NEW gap \in Gaps, New(ip, Clock + gap)
    PROVE  RateGreedy'
<1> DEFINE now == Clock + gap
           e == Entry(ip, 1, now)
<1>1. RateType  BY DEF RateGreedy
<1>2. /\ NewSlot \in RateSlots /\ SlotsOf(ip) = {}
      /\ SlotsOf(NoSource) # {} => rates[NewSlot].ip = NoSource
      /\ rates' = [rates EXCEPT ![NewSlot] = e] /\ Arrives(ip, now, TRUE)
  BY <1>1, NewSlotOf
<1>3. /\ e \in [ip : Nat, count : Nat, start : Nat] /\ now \in Nat
      /\ e.ip = ip /\ e.start = now /\ e.start <= now
  BY <1>2 DEF Arrives, Entry
<1>4. RateType'
  <2> HIDE DEF now, e
  <2> QED BY <1>1, <1>2, <1>3, TypeAfter
<1>5. ASSUME Cardinality(Heard') <= RateTableSize
      PROVE  Fits(log', e, ip) /\ SlotsOf(ip) \subseteq {NewSlot} /\ rates[NewSlot].ip \in {ip, NoSource}
  <2>1. /\ IsFiniteSet(Heard) /\ Cardinality(Heard) \in Nat
        /\ Cardinality(Heard') = IF ip \in Heard THEN Cardinality(Heard) ELSE Cardinality(Heard) + 1
    <3> HIDE DEF now
    <3> QED BY <1>1, <1>2, HeardGrows
  <2>2. Cardinality(Heard) <= RateTableSize  BY <1>5, <2>1, RateConstants
  <2>3. \A x \in Heard : \E k \in RateSlots : SlotsOf(x) = {k} /\ Fits(log, rates[k], x)
    BY <2>2 DEF RateGreedy
  <2>4. ip \notin Heard  BY <1>2, <2>3
  <2>5. Cardinality(Heard) < RateTableSize  BY <1>5, <2>1, <2>4, RateConstants
  <2>6. SlotsOf(NoSource) # {}
    <3> SUFFICES ASSUME SlotsOf(NoSource) = {} PROVE FALSE
      OBVIOUS
    <3> DEFINE f == [k \in RateSlots |-> rates[k].ip]
    <3>1. f \in [RateSlots -> Heard]  BY DEF RateGreedy, SlotsOf
    <3>2. IsFiniteSet(RateSlots) /\ Cardinality(RateSlots) = RateTableSize
      <4>1. 1 \in Int /\ RateTableSize \in Int /\ RateTableSize >= 1  BY RateConstants
      <4>2. IsFiniteSet(1..RateTableSize)
            /\ Cardinality(1..RateTableSize) = IF 1 > RateTableSize THEN 0 ELSE RateTableSize - 1 + 1
        BY <4>1, FS_Interval
      <4> QED BY <4>1, <4>2 DEF RateSlots
    <3> HIDE DEF f
    <3>3. \E x, y \in RateSlots : x # y /\ f[x] = f[y]
      BY <2>1, <2>5, <3>1, <3>2, FS_PigeonHole
    <3>4. PICK x \in RateSlots, y \in RateSlots : x # y /\ rates[x].ip = rates[y].ip
      BY <3>3 DEF f
    <3>5. rates[x].ip \in Heard  BY <3>1 DEF f
    <3>6. PICK k \in RateSlots : SlotsOf(rates[x].ip) = {k}  BY <2>3, <3>5
    <3>7. x \in SlotsOf(rates[x].ip) /\ y \in SlotsOf(rates[x].ip)  BY <3>4 DEF SlotsOf
    <3> QED BY <3>4, <3>6, <3>7
  <2>7. Fits(log', e, ip)
    <3> HIDE DEF now
    <3> QED BY <1>1, <1>2, <2>4, FitsFirst
  <2> QED BY <1>2, <2>6, <2>7
<1> HIDE DEF now, e
<1> QED BY <1>2, <1>3, <1>4, <1>5, GreedyAfter

LEMMA GreedySettled == RateSpec => []RateGreedy
<1>1. RateGreedy /\ [RateNext]_rateVars => RateGreedy'
  <2> SUFFICES ASSUME RateGreedy, [RateNext]_rateVars PROVE RateGreedy'
    OBVIOUS
  <2>1. CASE RateNext  BY <2>1, GreedyKnown, GreedyNew DEF RateNext
  <2>2. CASE UNCHANGED rateVars
    <3>1. rates' = rates /\ log' = log  BY <2>2 DEF rateVars
    <3>2. Heard' = Heard /\ \A ip : SlotsOf(ip)' = SlotsOf(ip)  BY <3>1 DEF Heard, SlotsOf
    <3> QED BY <3>1, <3>2 DEF RateGreedy, RateType, GreedyHeldBack, Recent, Clock
  <2> QED BY <2>1, <2>2
<1> QED BY <1>1, GreedyStarts, PTL DEF RateSpec

\* For any table and any sequence of packets from no more sources than it has
\* slots, none gets more than twice MaxPerWindow through in a window's length.
THEOREM GreedyAreHeldBack == RateSpec => []GreedyHeldBack
<1>1. RateGreedy => GreedyHeldBack  BY DEF RateGreedy
<1> QED BY <1>1, GreedySettled, PTL
=============================================================================
