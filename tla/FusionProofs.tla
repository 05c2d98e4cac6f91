---------------------------- MODULE FusionProofs ----------------------------
(***************************************************************************)
(* The two filters of Fusion are complementary, and the attitude is off by *)
(* no more than their error and full turns, for all angles, rates, periods *)
(* and time constants, the accelerometer wrapping round at half a turn.    *)
(***************************************************************************)
EXTENDS Fusion, TLAPS

(***************************************************************************)
(* Division.                                                               *)
(***************************************************************************)
LEMMA RoundedDown ==
    ASSUME NEW n \in Int, NEW q \in Nat \ {0}
    PROVE  /\ n \div q \in Int
           /\ n - q < q * (n \div q)
           /\ q * (n \div q) <= n
OBVIOUS

LEMMA Remainder ==
    ASSUME NEW n \in Int, NEW q \in Nat \ {0}
    PROVE  /\ n % q \in 0 .. q - 1
           /\ n \div q \in Int
           /\ n = q * (n \div q) + (n % q)
OBVIOUS

LEMMA MultipleDivides ==
    ASSUME NEW m \in Int, NEW q \in Nat \ {0}
    PROVE  (q * m) % q = 0
<1> DEFINE n == q * m
           d == n \div q
           r == n % q
<1>1. n \in Int
  OBVIOUS
<1>2. r \in 0 .. q - 1 /\ d \in Int /\ n = q * d + r
  BY <1>1, Remainder
<1> HIDE DEF d, r
<1>3. q * (m - d) = r
  BY <1>2
<1>4. m - d >= 1 => q * (m - d) >= q
  BY <1>2
<1>5. m - d <= -1 => q * (m - d) < 0
  BY <1>2
<1>6. m - d = 0
  BY <1>2, <1>3, <1>4, <1>5
<1>7. r = 0
  BY <1>2, <1>3, <1>6
<1> QED BY <1>7 DEF r

LEMMA WholePositive ==
    /\ HalfTurn \in Nat \ {0}
    /\ Whole \in Nat \ {0}
    /\ Whole = 2 * HalfTurn
BY HalfTurnAssumption DEF Whole

\* The accelerometer's reading of an angle is the angle, but for full turns.
LEMMA ReadingRight ==
    ASSUME NEW a \in Int
    PROVE  /\ Reading(a) \in Int
           /\ \E m \in Int : a = Reading(a) + Whole * m
<1> DEFINE n == a + HalfTurn - 1
           r == n % Whole
           d == n \div Whole
<1>1. n \in Int
  BY WholePositive
<1>2. r \in 0 .. Whole - 1 /\ d \in Int /\ n = Whole * d + r
  BY <1>1, WholePositive, Remainder
<1>3. Reading(a) = r - HalfTurn + 1
  BY DEF Reading
<1> HIDE DEF d, r
<1>4. Reading(a) \in Int
  BY <1>2, <1>3, WholePositive
<1>5. a = Reading(a) + Whole * d
  <2>1. Whole * d \in Int
    BY <1>2, WholePositive
  <2> QED BY <1>2, <1>3, <2>1, WholePositive
<1> QED BY <1>2, <1>4, <1>5

(***************************************************************************)
(* Types.                                                                  *)
(***************************************************************************)
LEMMA TurnedTyped == ASSUME NEW p \in Int, NEW q \in Int, NEW dt \in Int
                     PROVE  Turned(p, q, dt) \in Int
BY DEF Turned

LEMMA RatesInt == Rates \subseteq Int
BY RatesAssumption

LEMMA SmoothedTyped ==
    ASSUME T \in Nat, NEW v \in Int, NEW x \in Int, NEW dt \in Nat
    PROVE  Smoothed(v, x, dt) \in Int
<1>1. CASE T = 0
  BY <1>1 DEF Smoothed
<1>2. CASE T # 0
  <2> DEFINE sum == (10 * T - Gain(dt)) * v + Gain(dt) * x
  <2>1. sum \in Int /\ 10 * T \in Nat \ {0}
    BY <1>2 DEF Gain
  <2>2. sum \div (10 * T) \in Int
    <3> HIDE DEF sum
    <3> QED BY <2>1
  <2> QED BY <1>2, <2>2 DEF Smoothed
<1> QED BY <1>1, <1>2

LEMMA LimitedTyped == ASSUME NEW v \in Int PROVE Limited(v) \in Int
<1>1. HalfTurn \in Nat \ {0} /\ Whole \in Nat \ {0}
  BY HalfTurnAssumption DEF Whole
<1> HIDE DEF Whole
<1> QED BY <1>1 DEF Limited

LEMMA MeasureTyped ==
    ASSUME TypeOK, NEW a \in Angles, NEW r \in Rates, NEW dt \in Nat,
           Measure(a, r, dt)
    PROVE  TypeOK'
<1>1. T \in Nat /\ a \in Int /\ r \in Int /\ accel_lowpass \in Int
      /\ gyro_lowpass \in Int
  BY ConstantsAssumption, AnglesAssumption, RatesInt DEF TypeOK
<1>2. gyro' \in [value : Int, prev : Rates \cup {NaN}]
  <2>1. gyro.prev # NaN => gyro.value + Turned(gyro.prev, r, dt) \in Int
    <3>1. gyro.value \in Int /\ gyro.prev \in Rates \cup {NaN}
      BY DEF TypeOK
    <3>2. ASSUME gyro.prev # NaN PROVE Turned(gyro.prev, r, dt) \in Int
      <4>1. gyro.prev \in Int
        BY <3>1, <3>2, RatesInt
      <4>2. r \in Int /\ dt \in Int
        BY <1>1
      <4> QED BY <4>1, <4>2, TurnedTyped
    <3> QED BY <3>1, <3>2
  <2>2. gyro' = Integrated(gyro, r, dt)
    BY DEF Measure
  <2> QED BY <2>1, <2>2 DEF TypeOK, Integrated
<1>3. accel_lowpass' \in Int /\ gyro_lowpass' \in Int
  BY <1>1, <1>2, SmoothedTyped, ReadingRight DEF Measure
<1>4. roll' \in Int
  <2> DEFINE sum == HighPassed(gyro'.value, gyro_lowpass') + accel_lowpass'
  <2>1. sum \in Int
    BY <1>2, <1>3 DEF HighPassed
  <2>2. roll' = IF apply_modulo THEN Limited(sum) ELSE sum
    BY DEF Measure
  <2> HIDE DEF sum
  <2> QED BY <2>1, <2>2, LimitedTyped
<1> QED BY <1>2, <1>3, <1>4 DEF Measure, TypeOK

\* Every variable keeps its type.
THEOREM FusionTyped == Spec => []TypeOK
<1>1. Init => TypeOK
  <2> SUFFICES ASSUME Init PROVE TypeOK
    OBVIOUS
  <2>1. gyro \in [value : Int, prev : Rates \cup {NaN}]
    <3>1. gyro = [value |-> 0, prev |-> NaN]
      BY DEF Init
    <3> QED BY <3>1
  <2> QED BY <2>1 DEF Init, TypeOK
<1>2. TypeOK /\ [Next]_vars => TypeOK'
  <2> SUFFICES ASSUME TypeOK, [Next]_vars PROVE TypeOK'
    OBVIOUS
  <2>1. ASSUME NEW uptime \in Uptimes, FirstSample(uptime) PROVE TypeOK'
    BY <2>1, MeasureTyped, UptimesAssumption DEF FirstSample, TypeOK
  <2>2. ASSUME NEW r \in Rates, NEW dt \in Periods, Sample(r, dt)
        PROVE  TypeOK'
    BY <2>2, MeasureTyped, PeriodsAssumption DEF Sample
  <2>3. ASSUME NEW t \in Constants, NEW m \in BOOLEAN, SetConfig(t, m)
        PROVE  TypeOK'
    BY <2>3 DEF SetConfig, TypeOK, motion, filters
  <2>4. CASE Reset
    BY <2>4 DEF Reset, TypeOK, motion
  <2>5. CASE UNCHANGED vars
    BY <2>5 DEF vars, TypeOK
  <2> QED BY <2>1, <2>2, <2>3, <2>4, <2>5 DEF Next, Run
<1> QED BY <1>1, <1>2, PTL DEF Spec

(***************************************************************************)
(* The error of the fusion.                                                *)
(***************************************************************************)
\* w is a weight out of q, e an error that is multiplied by it and rounded twice,
\* once up and once down, by less than one.
LEMMA Multiplied ==
    ASSUME NEW q \in Nat \ {0}, NEW w \in Int, NEW e \in Int, NEW f \in Int,
           NEW d \in Int, -q < d, d < q, q * f = w * e + d
    PROVE  q * Magnitude(f) < Magnitude(w) * Magnitude(e) + q
<1> DEFINE m == Magnitude(e)
           n == Magnitude(f)
           u == Magnitude(w)
<1>1. q * n = q * f \/ q * n = -(q * f)
  BY DEF Magnitude
<1>2. /\ w * e \in Int
      /\ u * m \in Int
      /\ u * m = w * e \/ u * m = -(w * e)
      /\ u * m >= 0
  <2>1. CASE w >= 0 /\ e >= 0
    <3>1. u = w /\ m = e
      BY <2>1 DEF Magnitude
    <3> HIDE DEF u, m
    <3> QED BY <2>1, <3>1
  <2>2. CASE w >= 0 /\ e < 0
    <3>1. u = w /\ m = -e
      BY <2>2 DEF Magnitude
    <3> HIDE DEF u, m
    <3> QED BY <2>2, <3>1
  <2>3. CASE w < 0 /\ e >= 0
    <3>1. u = -w /\ m = e
      BY <2>3 DEF Magnitude
    <3> HIDE DEF u, m
    <3> QED BY <2>3, <3>1
  <2>4. CASE w < 0 /\ e < 0
    <3>1. u = -w /\ m = -e
      BY <2>4 DEF Magnitude
    <3> HIDE DEF u, m
    <3> QED BY <2>4, <3>1
  <2> QED BY <2>1, <2>2, <2>3, <2>4
<1>3. q * f \in Int
  OBVIOUS
<1> HIDE DEF m, n, u
<1>4. q * n < u * m + q
  BY <1>1, <1>2, <1>3
<1> QED BY <1>4 DEF m, n, u

\* One sample of the two filters with the same weight, at angles g and g + c.
LEMMA Complementary ==
    ASSUME T \in Nat \ {0}, NEW dt \in Nat \ {0},
           NEW p \in Int, NEW l \in Int, NEW g \in Int, NEW c \in Int,
           NEW f \in Int, f = Smoothed(p, g + c, dt) - Smoothed(l, g, dt) - c
    PROVE  10 * T * Magnitude(f)
             < Magnitude(10 * T - Gain(dt)) * Magnitude(p - l - c) + 10 * T
<1> DEFINE q == 10 * T
           k == Gain(dt)
           e == p - l - c
           u == (q - k) * p + k * (g + c)
           v == (q - k) * l + k * g
           d == (q * (u \div q) - u) - (q * (v \div q) - v)
<1>1. q \in Nat \ {0} /\ k \in Nat
  BY DEF Gain
<1>2. Smoothed(p, g + c, dt) = u \div q /\ Smoothed(l, g, dt) = v \div q
  BY <1>1 DEF Smoothed
<1> HIDE DEF q, k
<1>3. u \in Int /\ v \in Int /\ e \in Int
  BY <1>1
<1>4. u - v = (q - k) * e + q * c
  <2>1. u - v = (q - k) * p - (q - k) * l + k * c
    BY <1>1
  <2>2. (q - k) * e = (q - k) * p - (q - k) * l - (q - k) * c
    BY <1>1
  <2>3. (q - k) * c = q * c - k * c
    BY <1>1
  <2> QED BY <1>1, <1>3, <2>1, <2>2, <2>3
<1> HIDE DEF u, v, e
<1>5. d \in Int /\ -q < d /\ d < q
  <2> DEFINE a == u \div q
             b == v \div q
  <2>1. a \in Int /\ u - q < q * a /\ q * a <= u
    BY <1>1, <1>3, RoundedDown
  <2>2. b \in Int /\ v - q < q * b /\ q * b <= v
    BY <1>1, <1>3, RoundedDown
  <2> HIDE DEF a, b
  <2>3. q * a \in Int /\ q * b \in Int
    BY <1>1, <2>1, <2>2
  <2>4. d = (q * a - u) - (q * b - v)
    BY DEF a, b
  <2> QED BY <1>1, <1>3, <2>1, <2>2, <2>3, <2>4
<1>6. q * f = q * (u \div q) - q * (v \div q) - q * c
  <2>1. f = (u \div q) - (v \div q) - c
    BY <1>2
  <2>2. u \div q \in Int /\ v \div q \in Int
    BY <1>1, <1>3, RoundedDown
  <2> QED BY <1>1, <2>1, <2>2
<1>7. q * f = (q - k) * e + d
  <2>1. q * (u \div q) \in Int /\ q * (v \div q) \in Int /\ q * c \in Int
        /\ (q - k) * e \in Int
    BY <1>1, <1>3, RoundedDown
  <2> QED BY <1>1, <1>3, <1>4, <1>6, <2>1
<1> HIDE DEF d
<1>8. q * Magnitude(f) < Magnitude(q - k) * Magnitude(e) + q
  <2>1. q - k \in Int
    BY <1>1
  <2> QED BY <1>1, <1>3, <1>5, <1>7, <2>1, Multiplied
<1> QED BY <1>8 DEF e, k, q

\* The gyroscope's last sample is the rate at which the vehicle turns, and the
\* first sample of all is not added.
PrevIsRate == gyro.prev # NaN => sampled /\ gyro.prev = rate

LEMMA PrevIsRateNext == PrevIsRate /\ [Next]_vars => PrevIsRate'
BY DEF PrevIsRate, Next, Run, FirstSample, Sample, SetConfig, Reset, Measure,
       Integrated, vars, motion, filters

\* Whatever a sample does to the angles, it multiplies the error that it leaves
\* between them.
LEMMA MeasureScaled ==
    ASSUME TypeOK, NEW a \in Angles, NEW r \in Rates, NEW dt \in Nat \ {0},
           Measure(a, r, dt)
    PROVE  Scaled(Error + Offset - Offset', dt)
<1> DEFINE g == gyro'.value
           c == Offset'
           f == Error'
<1>1. T \in Nat /\ accel_lowpass \in Int /\ gyro_lowpass \in Int
  BY ConstantsAssumption DEF TypeOK
<1>2. g \in Int /\ angle' \in Int
  BY MeasureTyped, AnglesAssumption DEF TypeOK
<1>3. c \in Int /\ Reading(angle') = g + c
  <2>1. Reading(angle') \in Int
    BY <1>2, ReadingRight
  <2>2. c = Reading(angle') - g
    BY DEF Offset
  <2> HIDE DEF c, g
  <2> QED BY <1>2, <2>1, <2>2
<1>4. f = Smoothed(accel_lowpass, g + c, dt) - Smoothed(gyro_lowpass, g, dt) - c
  <2>1. accel_lowpass' = Smoothed(accel_lowpass, Reading(angle'), dt)
    BY DEF Measure
  <2>2. gyro_lowpass' = Smoothed(gyro_lowpass, g, dt)
    BY DEF Measure
  <2>3. f = accel_lowpass' - gyro_lowpass' - c
    BY DEF Error
  <2> HIDE DEF c, g, f
  <2> QED BY <1>3, <2>1, <2>2, <2>3
<1>5. Error + Offset - Offset' = accel_lowpass - gyro_lowpass - c
  <2>1. Offset \in Int
    <3>1. Reading(angle) \in Int
      BY AnglesAssumption, ReadingRight DEF TypeOK
    <3> QED BY <3>1 DEF TypeOK, Offset
  <2>2. Error = accel_lowpass - gyro_lowpass - Offset
    BY DEF Error
  <2> DEFINE o == Offset
  <2> HIDE DEF c, o
  <2>3. (accel_lowpass - gyro_lowpass - o) + o - c = accel_lowpass - gyro_lowpass - c
    BY <1>1, <1>3, <2>1 DEF o
  <2> QED BY <2>2, <2>3 DEF c, o
<1>6. f \in Int
  <2>1. Smoothed(accel_lowpass, g + c, dt) \in Int
    <3> HIDE DEF c, g
    <3> QED BY <1>1, <1>2, <1>3, SmoothedTyped
  <2>2. Smoothed(gyro_lowpass, g, dt) \in Int
    <3> HIDE DEF c, g
    <3> QED BY <1>1, <1>2, <1>3, SmoothedTyped
  <2> HIDE DEF c, g, f
  <2> QED BY <1>3, <1>4, <2>1, <2>2
<1>7. CASE T = 0
  <2>1. f = (g + c) - g - c
    BY <1>4, <1>7 DEF Smoothed
  <2>2. f = 0
    <3> HIDE DEF c, g, f
    <3> QED BY <1>2, <1>3, <2>1
  <2> QED BY <1>7, <2>2 DEF Scaled
<1>8. CASE T # 0
  <2>1. 10 * T * Magnitude(f)
          < Magnitude(10 * T - Gain(dt))
              * Magnitude(accel_lowpass - gyro_lowpass - c) + 10 * T
    <3>1. T \in Nat \ {0}
      BY <1>1, <1>8
    <3> HIDE DEF c, g, f
    <3> QED BY <1>1, <1>2, <1>3, <1>4, <1>6, <3>1, Complementary
  <2> HIDE DEF c
  <2> QED BY <1>5, <1>8, <2>1 DEF Scaled
<1> QED BY <1>7, <1>8

\* The gyroscope adds the turn to the angle it has: the sensors part by full
\* turns only.
LEMMA SampleParted ==
    ASSUME TypeOK, PrevIsRate, NEW r \in Rates, NEW dt \in Periods,
           Sample(r, dt)
    PROVE  Offset - Offset' = Parted
<1> DEFINE t == Turned(rate, r, dt)
           x == Reading(angle)
           y == Reading(angle')
<1>1. dt \in Nat \ {0} /\ rate \in Int /\ r \in Int
  BY PeriodsAssumption, RatesInt DEF TypeOK
<1>2. t \in Int
  BY <1>1, TurnedTyped
<1>3. angle \in Int /\ gyro.value \in Int
  BY AnglesAssumption DEF TypeOK
<1>4. angle' = angle + t
  BY DEF Sample, Measure
<1>5. x \in Int /\ y \in Int
  <2>1. angle' \in Int
    BY <1>2, <1>3, <1>4
  <2> QED BY <1>3, <2>1, ReadingRight
<1>6. Offset = x - gyro.value /\ Offset' = y - gyro'.value
  BY DEF Offset
<1>7. CASE gyro.prev = NaN
  <2>1. gyro'.value = gyro.value
    BY <1>7 DEF Sample, Measure, Integrated
  <2>2. Parted = x - y
    BY <1>7 DEF Parted
  <2> HIDE DEF x, y
  <2> QED BY <1>3, <1>5, <1>6, <2>1, <2>2
<1>8. CASE gyro.prev # NaN
  <2>1. gyro'.value = gyro.value + t
    BY <1>8 DEF Sample, Measure, Integrated, PrevIsRate
  <2>2. Parted = (angle' - y) - (angle - x)
    BY <1>8 DEF Parted, Unseen
  <2> HIDE DEF x, y, t
  <2> QED BY <1>2, <1>3, <1>4, <1>5, <1>6, <2>1, <2>2
<1> QED BY <1>7, <1>8

LEMMA OffsetsTyped ==
    ASSUME TypeOK
    PROVE  Offset \in Int /\ Error \in Int
<1>1. Reading(angle) \in Int
  BY AnglesAssumption, ReadingRight DEF TypeOK
<1>2. Offset \in Int
  BY <1>1 DEF TypeOK, Offset
<1> QED BY <1>2 DEF TypeOK, Error

LEMMA SampleScaled ==
    ASSUME TypeOK, PrevIsRate, NEW r \in Rates, NEW dt \in Periods,
           Sample(r, dt)
    PROVE  Scaled(Error + Parted, dt)
<1>1. Measure(angle + Turned(rate, r, dt), r, dt)
      /\ angle + Turned(rate, r, dt) \in Angles
  BY DEF Sample
<1>2. Scaled(Error + Offset - Offset', dt)
  BY <1>1, MeasureScaled, PeriodsAssumption
<1>3. TypeOK'
  BY <1>1, MeasureTyped, PeriodsAssumption
<1>4. Error + Offset - Offset' = Error + Parted
  <2> DEFINE e == Error
             o == Offset
             p == Offset'
  <2>1. e \in Int /\ o \in Int
    BY OffsetsTyped
  <2>2. p \in Int
    <3>1. Reading(angle') \in Int
      BY <1>3, AnglesAssumption, ReadingRight DEF TypeOK
    <3> QED BY <1>3, <3>1 DEF TypeOK, Offset
  <2>3. Parted = o - p
    BY SampleParted
  <2> HIDE DEF e, o, p
  <2>4. e + o - p = e + (o - p)
    BY <2>1, <2>2
  <2> QED BY <2>3, <2>4 DEF e, o, p
<1> QED BY <1>2, <1>4

LEMMA FirstSampleScaled ==
    ASSUME TypeOK, PrevIsRate, NEW uptime \in Uptimes, FirstSample(uptime)
    PROVE  Scaled(Error, uptime)
<1>1. Measure(angle, rate, uptime) /\ angle \in Angles /\ rate \in Rates
  BY DEF FirstSample, TypeOK
<1>2. Scaled(Error + Offset - Offset', uptime)
  BY <1>1, MeasureScaled, UptimesAssumption
<1>3. Offset' = Offset
  <2>1. gyro.prev = NaN
    BY DEF FirstSample, PrevIsRate
  <2>2. gyro'.value = gyro.value /\ angle' = angle
    BY <1>1, <2>1 DEF Measure, Integrated
  <2> QED BY <2>2 DEF Offset
<1>4. Error + Offset - Offset' = Error
  <2> DEFINE e == Error
             o == Offset
  <2>1. e \in Int /\ o \in Int
    BY OffsetsTyped
  <2> HIDE DEF e, o
  <2>2. e + o - o = e
    BY <2>1
  <2> QED BY <1>3, <2>2 DEF e, o
<1> QED BY <1>2, <1>4

\* Whatever the vehicle does, and however late a sample is, it multiplies the
\* error of the attitude by 1 - K, after a full turn at half a turn, or after the
\* turn that the gyroscope could not add.
THEOREM FiltersComplementary == Spec => ErrorScaled
<1>1. Init => PrevIsRate
  BY DEF Init, PrevIsRate
<1>2. TypeOK /\ PrevIsRate /\ [Next]_vars
      => [/\ \A uptime \in Uptimes : FirstSample(uptime) => Scaled(Error, uptime)
          /\ \A r \in Rates, dt \in Periods :
               Sample(r, dt) => Scaled(Error + Parted, dt)]_vars
  BY SampleScaled, FirstSampleScaled
<1> QED BY <1>1, <1>2, FusionTyped, PrevIsRateNext, PTL DEF Spec, ErrorScaled

\* n is what a sample of weight w out of q makes of m, with rounding.
LEMMA Shrinks ==
    ASSUME NEW q \in Nat, NEW w \in Nat, NEW m \in Nat, NEW n \in Nat,
           q * n < w * m + q
    PROVE  n < m \/ n * (q - w) < q
<1> SUFFICES ASSUME m <= n PROVE n * (q - w) < q
  OBVIOUS
<1>1. w * m <= w * n
  OBVIOUS
<1>2. n * (q - w) = q * n - w * n
  OBVIOUS
<1> QED BY <1>1, <1>2

\* Within the band, whatever the vehicle does short of passing half a turn, a
\* sample brings the attitude closer to the vehicle's, unless it is as close
\* already as the rounding lets it come.
THEOREM FusionConverges ==
    Spec => [][\A r \in Rates, dt \in Periods :
                 Sample(r, dt) /\ InBand(dt) =>
                   \/ Magnitude(Error') < Magnitude(Error)
                   \/ Magnitude(Error') * (10 * T - Magnitude(10 * T - Gain(dt)))
                        < 10 * T]_vars
<1>1. ASSUME TypeOK, TypeOK', NEW r \in Rates, NEW dt \in Periods,
             Sample(r, dt), InBand(dt), Scaled(Error + Parted, dt)
      PROVE  \/ Magnitude(Error') < Magnitude(Error)
             \/ Magnitude(Error') * (10 * T - Magnitude(10 * T - Gain(dt))) < 10 * T
  <2> DEFINE e == Error
             f == Error'
             q == 10 * T
             w == Magnitude(10 * T - Gain(dt))
  <2>1. T \in Nat \ {0} /\ dt \in Nat
    BY <1>1, ConstantsAssumption, PeriodsAssumption DEF InBand, TypeOK
  <2>2. Error + Parted = Error
    <3>1. Unseen' \in Int
      <4>1. angle' \in Int
        BY <1>1, AnglesAssumption DEF TypeOK
      <4>2. Reading(angle') \in Int
        BY <4>1, ReadingRight
      <4> QED BY <4>1, <4>2 DEF Unseen
    <3>2. Parted = Unseen' - Unseen /\ Unseen' = Unseen
      BY <1>1 DEF Parted, InBand
    <3>3. Parted = 0
      <4> DEFINE u == Unseen'
      <4>1. Parted = u - u /\ u \in Int
        BY <3>1, <3>2
      <4> HIDE DEF u
      <4> QED BY <4>1
    <3>4. e \in Int
      BY <1>1, OffsetsTyped
    <3> HIDE DEF e
    <3>5. e + 0 = e
      BY <3>4
    <3> QED BY <3>3, <3>5 DEF e
  <2>3. q * Magnitude(f) < w * Magnitude(e) + q
    BY <1>1, <2>1, <2>2 DEF Scaled
  <2>4. Magnitude(e) \in Nat
    BY <1>1, OffsetsTyped DEF Magnitude
  <2>5. Magnitude(f) \in Nat
    <3>1. Reading(angle') \in Int
      BY <1>1, AnglesAssumption, ReadingRight DEF TypeOK
    <3>2. Offset' \in Int
      BY <1>1, <3>1 DEF TypeOK, Offset
    <3>3. f \in Int
      BY <1>1, <3>2 DEF TypeOK, Error
    <3> HIDE DEF f
    <3> QED BY <3>3 DEF Magnitude
  <2>6. q \in Nat /\ w \in Nat
    BY <2>1 DEF Gain, Magnitude
  <2> HIDE DEF e, f, q, w
  <2>7. Magnitude(f) < Magnitude(e) \/ Magnitude(f) * (q - w) < q
    BY <2>3, <2>4, <2>5, <2>6, Shrinks
  <2> QED BY <2>7 DEF e, f, q, w
<1>2. /\ TypeOK
      /\ TypeOK'
      /\ [/\ \A uptime \in Uptimes : FirstSample(uptime) => Scaled(Error, uptime)
          /\ \A r \in Rates, dt \in Periods :
               Sample(r, dt) => Scaled(Error + Parted, dt)]_vars
      => [\A r \in Rates, dt \in Periods :
            Sample(r, dt) /\ InBand(dt) =>
              \/ Magnitude(Error') < Magnitude(Error)
              \/ Magnitude(Error') * (10 * T - Magnitude(10 * T - Gain(dt)))
                   < 10 * T]_vars
  BY <1>1
<1> QED BY <1>2, FusionTyped, FiltersComplementary, PTL DEF ErrorScaled

(***************************************************************************)
(* The limit of the angle.                                                 *)
(***************************************************************************)
LEMMA LimitedRight ==
    ASSUME NEW v \in Int
    PROVE  Limited(v) \in -HalfTurn .. HalfTurn /\ (Limited(v) - v) % Whole = 0
<1>1. HalfTurn \in Nat \ {0} /\ Whole \in Nat \ {0} /\ Whole = 2 * HalfTurn
  BY HalfTurnAssumption DEF Whole
<1> HIDE DEF Whole
<1>2. CASE v > HalfTurn
  <2> DEFINE n == v - HalfTurn - 1
             r == n % Whole
             d == n \div Whole
  <2>1. n \in Int
    BY <1>1
  <2>2. r \in 0 .. Whole - 1 /\ d \in Int /\ n = Whole * d + r
    BY <1>1, <2>1, Remainder
  <2>3. ~(v < -HalfTurn)
    BY <1>1, <1>2
  <2>4. Limited(v) = r - HalfTurn + 1
    BY <1>2, <2>3, Zenon DEF Limited
  <2> HIDE DEF d, r
  <2>5. Limited(v) \in -HalfTurn .. HalfTurn
    BY <1>1, <2>2, <2>4
  <2>6. Limited(v) - v = Whole * (-d - 1)
    BY <1>1, <2>2, <2>4
  <2>7. (Whole * (-d - 1)) % Whole = 0
    <3>1. -d - 1 \in Int
      BY <2>2
    <3> QED BY <1>1, <3>1, MultipleDivides
  <2> QED BY <2>5, <2>6, <2>7
<1>3. CASE v < -HalfTurn
  <2> DEFINE n == v + HalfTurn
             r == n % Whole
             d == n \div Whole
  <2>1. n \in Int
    BY <1>1
  <2>2. r \in 0 .. Whole - 1 /\ d \in Int /\ n = Whole * d + r
    BY <1>1, <2>1, Remainder
  <2>3. ~(v > HalfTurn)
    BY <1>1, <1>3
  <2>4. Limited(v) = r - HalfTurn
    BY <1>3, <2>3, Zenon DEF Limited
  <2> HIDE DEF d, r
  <2>5. Limited(v) \in -HalfTurn .. HalfTurn
    BY <1>1, <2>2, <2>4
  <2>6. Limited(v) - v = Whole * (-d)
    BY <1>1, <2>2, <2>4
  <2>7. (Whole * (-d)) % Whole = 0
    <3>1. -d \in Int
      BY <2>2
    <3> QED BY <1>1, <3>1, MultipleDivides
  <2> QED BY <2>5, <2>6, <2>7
<1>4. CASE ~(v > HalfTurn) /\ ~(v < -HalfTurn)
  <2>1. Limited(v) = v
    BY <1>4 DEF Limited
  <2>2. 0 % Whole = 0
    BY <1>1
  <2> QED BY <1>1, <1>4, <2>1, <2>2
<1> QED BY <1>2, <1>3, <1>4

\* What a sample makes of the roll angle.
RollRight ==
    IF apply_modulo
    THEN /\ roll' \in -HalfTurn .. HalfTurn
         /\ (roll' - angle' - Error') % Whole = 0
    ELSE roll' = Reading(angle') + Error'

LEMMA MeasureLimited ==
    ASSUME TypeOK, NEW a \in Angles, NEW r \in Rates, NEW dt \in Nat,
           Measure(a, r, dt)
    PROVE  RollRight
<1> DEFINE sum == HighPassed(gyro'.value, gyro_lowpass') + accel_lowpass'
           e == Error'
           x == Reading(angle')
           b == angle'
<1>1. /\ b \in Int /\ gyro'.value \in Int
      /\ accel_lowpass' \in Int /\ gyro_lowpass' \in Int
  BY MeasureTyped, AnglesAssumption DEF TypeOK
<1>2. x \in Int
  <2> HIDE DEF b
  <2> QED BY <1>1, ReadingRight DEF b
<1>3. sum \in Int /\ e \in Int /\ sum = x + e
  <2>1. e = accel_lowpass' - gyro_lowpass' - (x - gyro'.value)
    BY DEF Error, Offset
  <2> HIDE DEF e, x
  <2> QED BY <1>1, <1>2, <2>1 DEF HighPassed
<1>4. roll' = IF apply_modulo THEN Limited(sum) ELSE sum
  BY DEF Measure
<1> HIDE DEF sum
<1>5. CASE apply_modulo
  <2> DEFINE o == roll'
  <2>1. o \in -HalfTurn .. HalfTurn /\ (o - sum) % Whole = 0
    BY <1>3, <1>4, <1>5, LimitedRight
  <2>2. PICK m \in Int : b = x + Whole * m
    <3> HIDE DEF b
    <3>1. \E m \in Int : b = Reading(b) + Whole * m
      BY <1>1, ReadingRight
    <3> QED BY <3>1 DEF b
  <2>3. o \in Int
    BY <2>1, WholePositive
  <2>4. (o - b - e) % Whole = 0
    <3> DEFINE n == (o - sum) \div Whole
    <3> HIDE DEF b, x, e, o
    <3>1. o - sum \in Int
      BY <1>3, <2>3
    <3>2. n \in Int /\ o - sum = Whole * n + ((o - sum) % Whole)
      BY <3>1, WholePositive, Remainder
    <3> HIDE DEF n
    <3>3. o - sum = Whole * n
      <4>1. Whole * n \in Int
        BY <3>2, WholePositive
      <4> QED BY <2>1, <3>2, <4>1
    <3>4. o - b - e = Whole * (n - m)
      <4>1. Whole * n \in Int /\ Whole * m \in Int
        BY <2>2, <3>2, WholePositive
      <4>2. Whole * (n - m) = Whole * n - Whole * m
        BY <2>2, <3>2, WholePositive
      <4> QED BY <1>1, <1>2, <1>3, <2>2, <2>3, <3>3, <4>1, <4>2
    <3>5. n - m \in Int
      BY <2>2, <3>2
    <3>6. (Whole * (n - m)) % Whole = 0
      BY <3>5, WholePositive, MultipleDivides
    <3> QED BY <3>4, <3>6
  <2> QED BY <1>5, <2>1, <2>4 DEF RollRight
<1>6. CASE ~apply_modulo
  <2>1. roll' = x + e
    BY <1>3, <1>4, <1>6
  <2> QED BY <1>6, <2>1 DEF RollRight
<1> QED BY <1>5, <1>6

\* With `Limit the angles between -PI and PI' the controller gets an angle
\* within half a turn that is off by the filters' error and full turns; without
\* it, the accelerometer's angle and that error.
THEOREM RollWithinLimits == Spec => RollLimited
<1>1. TypeOK /\ [Next]_vars => [Run => RollRight]_vars
  <2> SUFFICES ASSUME TypeOK, Run PROVE RollRight
    OBVIOUS
  <2>1. ASSUME NEW uptime \in Uptimes, FirstSample(uptime) PROVE RollRight
    BY <2>1, MeasureLimited, UptimesAssumption DEF FirstSample, TypeOK
  <2>2. ASSUME NEW r \in Rates, NEW dt \in Periods, Sample(r, dt)
        PROVE  RollRight
    BY <2>2, MeasureLimited, PeriodsAssumption DEF Sample
  <2> QED BY <2>1, <2>2 DEF Run
<1> QED BY <1>1, FusionTyped, PTL DEF Spec, RollLimited, RollRight
=============================================================================
