--------------------------- MODULE PidChannelProofs ---------------------------
(***************************************************************************)
(* The PID's integral and filter stay within their bounds, for all gains,  *)
(* errors, time constants and gaps between samples.                        *)
(***************************************************************************)
EXTENDS PidChannel, TLAPS

(***************************************************************************)
(* Arithmetic.                                                             *)
(***************************************************************************)
\* A product with a natural number is monotone.
LEMMA Monotone == ASSUME NEW a \in Int, NEW b \in Int, a <= b, NEW n \in Nat
                  PROVE  a * n <= b * n
OBVIOUS

\* A mean with the weights t - s and s lies where its terms lie.
LEMMA MeanInRange ==
    ASSUME NEW e \in Nat, NEW f \in -e .. e, NEW v \in -e .. e,
           NEW t \in Nat \ {0}, NEW s \in 0 .. t
    PROVE  ((t - s) * f + s * v) \div t \in -e .. e
<1> DEFINE sum == (t - s) * f + s * v
<1>1. /\ f * (t - s) <= e * (t - s) /\ (-e) * (t - s) <= f * (t - s)
      /\ v * s <= e * s /\ (-e) * s <= v * s
  BY Monotone
<1>2. sum \in Int /\ sum <= e * t /\ (-e) * t <= sum
  <2>1. (t - s) * f = f * (t - s) /\ s * v = v * s
    OBVIOUS
  <2>2. e * (t - s) + e * s = e * t /\ (-e) * (t - s) + (-e) * s = (-e) * t
    OBVIOUS
  <2> DEFINE a == f * (t - s)  b == v * s  c == e * (t - s)  d == e * s
             g == (-e) * (t - s)  h == (-e) * s
  <2>3. a \in Int /\ b \in Int /\ c \in Int /\ d \in Int /\ g \in Int /\ h \in Int
    OBVIOUS
  <2>4. sum = a + b /\ a <= c /\ b <= d /\ g <= a /\ h <= b
        /\ c + d = e * t /\ g + h = (-e) * t
    BY <1>1, <2>1, <2>2
  <2> HIDE DEF a, b, c, d, g, h, sum
  <2> QED BY <2>3, <2>4
<1> DEFINE q == sum \div t
<1>3. q \in Int /\ t * q <= sum /\ sum < t * q + t
  <2> HIDE DEF sum
  <2> QED BY <1>2
<1> HIDE DEF sum, q
<1>4. q <= e
  <2> SUFFICES ASSUME e + 1 <= q PROVE FALSE
    BY <1>3
  <2>1. (e + 1) * t <= q * t
    BY <1>3, Monotone
  <2>2. (e + 1) * t = e * t + t /\ q * t = t * q
    BY <1>3
  <2> DEFINE et == e * t  tq == t * q
  <2>3. et \in Int /\ tq \in Int
    BY <1>3
  <2>4. et + t <= tq /\ tq <= sum /\ sum <= et
    BY <1>2, <1>3, <2>1, <2>2
  <2> HIDE DEF et, tq
  <2> QED BY <1>2, <2>3, <2>4
<1>5. -e <= q
  <2> SUFFICES ASSUME q + 1 <= -e PROVE FALSE
    BY <1>3
  <2>1. (q + 1) * t <= (-e) * t
    BY <1>3, Monotone
  <2>2. (q + 1) * t = t * q + t
    BY <1>3
  <2> DEFINE et == (-e) * t  tq == t * q
  <2>3. et \in Int /\ tq \in Int
    BY <1>3
  <2>4. tq + t <= et /\ et <= sum /\ sum < tq + t
    BY <1>2, <1>3, <2>1, <2>2
  <2> HIDE DEF et, tq
  <2> QED BY <1>2, <2>3, <2>4
<1>6. q \in -e .. e
  BY <1>3, <1>4, <1>5
<1> QED BY <1>6 DEF q, sum

\* What a sample adds to the integral is worth its period.
LEMMA ProductBound ==
    ASSUME NEW m \in Nat, NEW a \in -m .. m, NEW b \in -m .. m, NEW s \in Nat
    PROVE  (a + b) * s \in Int /\ Magnitude((a + b) * s) <= 2 * m * s
<1> DEFINE p == (a + b) * s  w == 2 * m * s
<1>1. (a + b) * s <= (2 * m) * s /\ (-(2 * m)) * s <= (a + b) * s
  BY Monotone
<1>2. p \in Int /\ w \in Int /\ p <= w /\ -w <= p
  BY <1>1
<1> HIDE DEF p, w
<1> QED BY <1>2 DEF Magnitude

(***************************************************************************)
(* One computation of the PID.                                             *)
(***************************************************************************)
LEMMA LimitTyped == ASSUME NEW i \in Limits PROVE i \in Int /\ i # 0 /\ i # None
BY LimitsAssumption, NoneAssumption

LEMMA AddedTyped ==
    ASSUME TypeOK, NEW v \in Errors
    PROVE  /\ Added(v) \in Int
           /\ Magnitude(Added(v)) <= 2 * MaxError * since
           /\ integ.prev = NaN => Added(v) = 0
<1>1. MaxError \in Nat /\ v \in -MaxError .. MaxError /\ since \in Nat
  BY ErrorsAssumption, BoundsAssumption DEF TypeOK
<1>2. CASE integ.prev = NaN
  BY <1>1, <1>2 DEF Added, Magnitude
<1>3. CASE integ.prev # NaN
  <2>1. integ.prev \in -MaxError .. MaxError
    BY <1>3, ErrorsAssumption DEF TypeOK
  <2> QED BY <1>1, <1>3, <2>1, ProductBound DEF Added
<1> QED BY <1>2, <1>3

\* The limit keeps an integral that is within it, and else puts it there.
LEMMA KeptTyped ==
    ASSUME TypeOK, params # None, NEW sum \in Int
    PROVE  /\ Kept(sum) \in Int
           /\ params.limit # None
                => Magnitude(Kept(sum)) <= Magnitude(params.limit)
           /\ params.limit = None \/ params.limit > 0
                => Magnitude(Kept(sum)) <= Magnitude(sum)
<1>1. params.limit \in Limits \cup {None}
  BY DEF TypeOK, Params
<1>2. CASE params.limit = None
  BY <1>2 DEF Kept, Magnitude
<1>3. CASE params.limit # None
  BY <1>1, <1>3, LimitTyped DEF Kept, Limited, Magnitude
<1> QED BY <1>2, <1>3

LEMMA ParamsTyped ==
    ASSUME TypeOK, params # None
    PROVE  /\ params \in Params /\ params.limit \in Limits \cup {None}
           /\ params.T \in Nat /\ since \in Nat
<1>1. params \in Params
  BY DEF TypeOK
<1>2. params.T \in Constants /\ params.limit \in Limits \cup {None}
  BY <1>1 DEF Params
<1>3. since \in Nat
  BY BoundsAssumption DEF TypeOK
<1> QED BY <1>1, <1>2, <1>3, ConstantsAssumption

LEMMA FilterTyped ==
    ASSUME TypeOK, params # None, NEW v \in Errors
    PROVE  /\ Smoothed(v) \in Int
           /\ params.T = 0 => Smoothed(v) \in -MaxError .. MaxError
           /\ params.T # 0 /\ since <= params.T
                /\ low_pass \in -MaxError .. MaxError
                => Smoothed(v) \in -MaxError .. MaxError
<1>1. /\ params.T \in Nat /\ low_pass \in Int /\ since \in Nat
      /\ MaxError \in Nat /\ v \in -MaxError .. MaxError
  BY ErrorsAssumption, ParamsTyped DEF TypeOK
<1>2. CASE params.T = 0
  BY <1>1, <1>2 DEF Smoothed
<1>3. CASE params.T # 0
  <2> DEFINE sum == (params.T - since) * low_pass + since * v
  <2>1. sum \in Int /\ Smoothed(v) = sum \div params.T
    BY <1>1, <1>3 DEF Smoothed
  <2>2. sum \div params.T \in Int
    <3> HIDE DEF sum
    <3> QED BY <1>1, <1>3, <2>1
  <2>3. ASSUME since <= params.T, low_pass \in -MaxError .. MaxError
        PROVE  sum \div params.T \in -MaxError .. MaxError
    <3>1. params.T \in Nat \ {0} /\ since \in 0 .. params.T
      BY <1>1, <1>3, <2>3
    <3> QED BY <1>1, <2>3, <3>1, MeanInRange
  <2> HIDE DEF sum
  <2>4. since <= params.T /\ low_pass \in -MaxError .. MaxError
          => Smoothed(v) \in -MaxError .. MaxError
    BY <2>1, <2>3
  <2>5. Smoothed(v) \in Int
    BY <2>1, <2>2
  <2> HIDE DEF sum
  <2> QED BY <1>3, <2>4, <2>5
<1> QED BY <1>2, <1>3
(***************************************************************************)
(* The inductive invariant: the integral has a previous sample exactly if  *)
(* it is integrating, and is then what the share was taken of.             *)
(***************************************************************************)
PidInv ==
    /\ TypeOK
    /\ ShareBounded
    /\ IntegralEarned
    /\ FilterInRange
    /\ integ.prev = NaN <=> earned = None
    /\ integ.prev # NaN => integ.value = share.value

LEMMA PidInit == Init => PidInv
<1> SUFFICES ASSUME Init PROVE PidInv
  OBVIOUS
<1>1. MaxGap \in 1 .. MaxGap /\ MaxError \in Nat \ {0}
  BY BoundsAssumption, ErrorsAssumption
<1>2. TypeOK
  <2>1. integ \in [value : Int, prev : Errors \cup {NaN}]
        /\ share \in [value : Int, limit : Limits \cup {None}]
    BY DEF Init
  <2> QED BY <1>1, <2>1 DEF Init, TypeOK
<1>3. ShareBounded /\ FilterInRange
  BY <1>1 DEF Init, ShareBounded, FilterInRange
<1>4. IntegralEarned
  BY <1>1 DEF Init, IntegralEarned, Integrating, Magnitude
<1> QED BY <1>2, <1>3, <1>4 DEF Init, PidInv

\* What the computation of the PID does to each part of the invariant.
LEMMA PidTyped ==
    ASSUME TypeOK, NEW v \in Errors, Pid(v)
    PROVE  TypeOK'
<1>1. params \in Params /\ params # None /\ NaN \notin Int
  BY NoneAssumption DEF TypeOK, Pid
<1>2. integ' \in [value : Int, prev : Errors \cup {NaN}]
  <2>1. Added(v) \in Int
    BY AddedTyped
  <2>2. integ.value + Added(v) \in Int
    BY <2>1 DEF TypeOK
  <2>3. Kept(integ.value + Added(v)) \in Int
    BY <1>1, <2>2, KeptTyped
  <2> QED BY <2>3 DEF Pid, Integrated
<1>3. low_pass' \in Int
  BY <1>1, FilterTyped DEF Pid
<1>4. since' \in 1 .. MaxGap
  BY BoundsAssumption DEF Pid
<1>5. share' \in [value : Int, limit : Limits \cup {None}]
  BY <1>1, <1>2 DEF Pid, Params
<1>6. earned' \in (0 .. MaxSum) \cup {None}
  BY BoundsAssumption, NoneAssumption DEF Pid, TypeOK
<1>7. params' \in Params \cup {None} /\ inverted' \in BOOLEAN /\ overdue' \in BOOLEAN
  BY <1>1 DEF Pid, TypeOK
<1> QED BY <1>2, <1>3, <1>4, <1>5, <1>6, <1>7 DEF TypeOK

LEMMA PidShare ==
    ASSUME TypeOK, NEW v \in Errors, Pid(v)
    PROVE  ShareBounded'
<1>1. params # None /\ integ.value + Added(v) \in Int
  BY AddedTyped DEF TypeOK, Pid
<1>2. share' = [value |-> Kept(integ.value + Added(v)), limit |-> params.limit]
  BY DEF Pid, Integrated
<1>3. params.limit # None
        => Magnitude(Kept(integ.value + Added(v))) <= Magnitude(params.limit)
  BY <1>1, KeptTyped
<1> QED BY <1>2, <1>3 DEF ShareBounded

LEMMA PidEarned ==
    ASSUME PidInv, NEW v \in Errors, Pid(v)
    PROVE  IntegralEarned'
<1> SUFFICES ASSUME ~inverted'
             PROVE  Magnitude(integ'.value) <= 2 * MaxError * Integrating'
  BY DEF IntegralEarned
<1>1. TypeOK /\ params # None /\ MaxError \in Nat \ {0} /\ MaxSum \in Nat
      /\ since \in Nat /\ integ.value \in Int
  BY ErrorsAssumption, BoundsAssumption DEF PidInv, Pid, TypeOK
<1>2. ~inverted /\ (params.limit = None \/ params.limit > 0)
  <2>1. params.limit \in Limits \cup {None}
    BY <1>1 DEF TypeOK, Params
  <2>2. ~inverted /\ (params.limit # None => ~(params.limit < 0))
    BY DEF Pid
  <2> QED BY <2>1, <2>2, LimitTyped
<1> DEFINE sum == integ.value + Added(v)
<1>3. /\ Added(v) \in Int /\ sum \in Int
      /\ Magnitude(Added(v)) <= 2 * MaxError * since
      /\ integ.prev = NaN => Added(v) = 0
  BY <1>1, AddedTyped
<1>4. /\ integ'.value = Kept(sum) /\ Kept(sum) \in Int
      /\ Magnitude(Kept(sum)) <= Magnitude(sum)
      /\ Kept(sum) \in -MaxSum .. MaxSum
  <2>1. integ'.value = Kept(sum)
    BY DEF Pid, Integrated
  <2>2. integ'.value \in -MaxSum .. MaxSum
    BY DEF Pid
  <2> HIDE DEF sum
  <2> QED BY <1>1, <1>2, <1>3, <2>1, <2>2, KeptTyped
<1>5. Magnitude(integ.value) <= 2 * MaxError * Integrating
  BY <1>2 DEF PidInv, IntegralEarned
<1>6. CASE earned = None
  <2>1. Added(v) = 0 /\ sum = integ.value
    BY <1>1, <1>3, <1>6 DEF PidInv
  <2>2. Integrating = 0 /\ Integrating' = 0
    BY <1>6, NoneAssumption DEF Integrating, Pid
  <2>3. Magnitude(Kept(sum)) <= 2 * MaxError * 0
    <3> DEFINE k == Magnitude(Kept(sum))  z == Magnitude(integ.value)
    <3>1. k \in Int /\ z \in Int /\ k <= z
      BY <1>1, <1>4, <2>1 DEF Magnitude
    <3>2. z <= 0 /\ 2 * MaxError * 0 = 0
      BY <1>1, <1>5, <2>2
    <3>3. k <= 0
      <4> HIDE DEF k, z
      <4> QED BY <3>1, <3>2
    <3> QED BY <3>2, <3>3
  <2> QED BY <1>4, <2>2, <2>3
<1>7. CASE earned # None
  <2>1. earned \in Nat /\ Integrating = earned
    BY <1>1, <1>7 DEF TypeOK, Integrating
  <2> DEFINE e == 2 * MaxError * earned  s == 2 * MaxError * since
  <2>2. e \in Int /\ s \in Int /\ 2 * MaxError * (earned + since) = e + s
    BY <1>1, <2>1
  <2>3. Magnitude(sum) <= e + s
    <3>1. Magnitude(integ.value) <= e /\ Magnitude(Added(v)) <= s
      BY <1>3, <1>5, <2>1
    <3> HIDE DEF e, s
    <3> QED BY <1>1, <1>3, <2>2, <3>1 DEF Magnitude
  <2>4. Integrating' = IF earned + since > MaxSum THEN MaxSum ELSE earned + since
    BY <1>1, <1>7, <2>1, NoneAssumption DEF Pid, Integrating
  <2>5. CASE earned + since > MaxSum
    <3>1. Magnitude(Kept(sum)) <= MaxSum
      BY <1>1, <1>4 DEF Magnitude
    <3>2. 1 * MaxSum <= (2 * MaxError) * MaxSum
      BY <1>1, Monotone
    <3> DEFINE w == 2 * MaxError * MaxSum  k == Magnitude(Kept(sum))
    <3>3. w \in Int /\ k \in Int /\ k <= MaxSum /\ MaxSum <= w
      BY <1>1, <1>4, <3>1, <3>2 DEF Magnitude
    <3>4. k <= w
      <4> HIDE DEF w, k
      <4> QED BY <1>1, <3>3
    <3> QED BY <1>4, <2>4, <2>5, <3>4
  <2>6. CASE ~(earned + since > MaxSum)
    <3> DEFINE w == e + s  k == Magnitude(Kept(sum))  m == Magnitude(sum)
    <3>1. k \in Int /\ m \in Int /\ w \in Int /\ k <= m /\ m <= w
      BY <1>3, <1>4, <2>2, <2>3 DEF Magnitude
    <3>2. k <= w
      <4> HIDE DEF w, k, m
      <4> QED BY <3>1
    <3>3. 2 * MaxError * Integrating' = w
      BY <2>2, <2>4, <2>6
    <3> QED BY <1>4, <3>2, <3>3
  <2> QED BY <2>5, <2>6
<1> QED BY <1>6, <1>7

LEMMA PidFilter ==
    ASSUME TypeOK, FilterInRange, NEW v \in Errors, Pid(v)
    PROVE  FilterInRange'
<1> SUFFICES ASSUME ~overdue' PROVE low_pass' \in -MaxError .. MaxError
  BY DEF FilterInRange
<1>1. params # None /\ low_pass' = Smoothed(v)
  BY DEF Pid
<1>2. params.T = 0 \/ (~overdue /\ ~(since > params.T))
  BY DEF Pid
<1>3. params.T \in Nat /\ since \in Nat
  BY <1>1, ParamsTyped
<1> QED BY <1>1, <1>2, <1>3, FilterTyped DEF FilterInRange

LEMMA PidNext == PidInv /\ [Next]_vars => PidInv'
<1> SUFFICES ASSUME PidInv, [Next]_vars PROVE PidInv'
  OBVIOUS
<1>1. ASSUME NEW p \in Params, SetParams(p) PROVE PidInv'
  BY <1>1 DEF SetParams, PidInv, TypeOK, ShareBounded, IntegralEarned, Integrating,
              FilterInRange
<1>2. CASE Reset
  <2>1. MaxError \in Nat
    BY ErrorsAssumption
  <2>2. TypeOK'
    <3>1. integ' \in [value : Int, prev : Errors \cup {NaN}]
      BY <1>2 DEF Reset, ResetInteg
    <3> QED BY <1>2, <3>1 DEF Reset, PidInv, TypeOK
  <2>4. ShareBounded' /\ FilterInRange'
    BY <1>2 DEF Reset, PidInv, ShareBounded, FilterInRange
  <2>3. IntegralEarned'
    BY <1>2, <2>1
       DEF Reset, ResetInteg, IntegralEarned, Integrating, Magnitude
  <2> QED BY <1>2, <2>2, <2>3, <2>4 DEF Reset, ResetInteg, PidInv
<1>3. CASE Skip
  BY <1>3, BoundsAssumption
     DEF Skip, PidInv, TypeOK, ShareBounded, IntegralEarned, Integrating, FilterInRange
<1>4. ASSUME NEW v \in Errors, Pid(v) PROVE PidInv'
  <2>1. TypeOK /\ FilterInRange
    BY DEF PidInv
  <2>2. integ'.prev # NaN /\ earned' # None
    <3>1. v # NaN /\ 0 # None /\ MaxSum # None
      BY ErrorsAssumption, BoundsAssumption, NoneAssumption
    <3>2. earned # None => earned + since # None
      BY <2>1, NoneAssumption, BoundsAssumption DEF TypeOK
    <3> QED BY <1>4, <3>1, <3>2 DEF Pid, Integrated
  <2>3. integ'.value = share'.value
    BY <1>4 DEF Pid
  <2> QED BY <1>4, <2>1, <2>2, <2>3, PidTyped, PidShare, PidEarned, PidFilter DEF PidInv
<1>5. CASE UNCHANGED vars
  BY <1>5 DEF vars, PidInv, TypeOK, ShareBounded, IntegralEarned, Integrating,
              FilterInRange
<1> QED BY <1>1, <1>2, <1>3, <1>4, <1>5 DEF Next

LEMMA PidLeavesBound ==
    ASSUME PidInv, NEW v \in Errors, Pid(v),
           Saturated, params.limit = share.limit, integ.prev # NaN,
           integ.prev + v < 0
    PROVE  ~Saturated'
<1> DEFINE L == params.limit  sum == integ.value + Added(v)
<1>1. TypeOK /\ params # None /\ integ.value = share.value
  BY DEF PidInv, Pid
<1>2. L \in Nat \ {0} /\ L # None /\ integ.value \in Int /\ share.value >= L
  <2>1. L \in Limits \cup {None} /\ L # None /\ L > 0
    BY <1>1, ParamsTyped DEF Saturated
  <2> QED BY <1>1, <2>1, LimitTyped DEF Saturated, TypeOK
<1>3. integ.value = L
  <2>1. Magnitude(share.value) <= Magnitude(L)
    BY <1>2 DEF PidInv, ShareBounded
  <2> HIDE DEF L
  <2> QED BY <1>1, <1>2, <2>1 DEF Magnitude
<1>4. Added(v) \in Int /\ Added(v) < 0
  <2>1. v \in Int /\ integ.prev \in Int /\ since \in Nat \ {0}
    <3>1. integ.prev \in Errors
      BY <1>1 DEF TypeOK
    <3>2. v \in Int /\ integ.prev \in Int
      BY <3>1, ErrorsAssumption
    <3>3. since \in Nat \ {0}
      BY <1>1, BoundsAssumption DEF TypeOK
    <3> QED BY <3>2, <3>3
  <2>2. (v + integ.prev) * since <= (-1) * since
    <3> DEFINE a == v + integ.prev
    <3>1. a \in Int /\ a <= -1
      BY <2>1
    <3> HIDE DEF a
    <3>2. a * since <= (-1) * since
      BY <2>1, <3>1, Monotone
    <3> QED BY <3>2 DEF a
  <2> DEFINE p == (v + integ.prev) * since
  <2>3. p \in Int /\ p <= -since
    BY <2>1, <2>2
  <2>4. Added(v) = p
    BY DEF Added
  <2> HIDE DEF p
  <2> QED BY <2>1, <2>3, <2>4
<1>5. Kept(sum) < L
  <2>1. sum \in Int /\ sum < L
    <3> HIDE DEF L
    <3> QED BY <1>2, <1>3, <1>4
  <2>2. Kept(sum) = Limited(sum, -L, L)
    BY <1>2 DEF Kept
  <2> HIDE DEF L, sum
  <2> QED BY <1>2, <2>1, <2>2 DEF Limited
<1>6. share' = [value |-> Kept(sum), limit |-> L]
  BY DEF Pid, Integrated
<1>7. Kept(sum) \in Int
  <2>1. sum \in Int
    BY <1>2, <1>4
  <2> HIDE DEF sum
  <2> QED BY <1>1, <2>1, KeptTyped
<1> DEFINE k == Kept(sum)
<1>8. share'.value = k /\ share'.limit = L /\ k < L /\ k \in Int
  BY <1>5, <1>6, <1>7
<1> HIDE DEF L, k
<1> QED BY <1>2, <1>8 DEF Saturated

LEMMA PidInvariant == Spec => []PidInv
BY PidInit, PidNext, PTL DEF Spec

(***************************************************************************)
(* Theorems.                                                               *)
(***************************************************************************)
\* Every variable keeps its type, for all errors, gains and time constants.
THEOREM PidChannelTyped == Spec => []TypeOK
<1>1. PidInv => TypeOK
  BY DEF PidInv
<1> QED BY <1>1, PidInvariant, PTL

\* PID::pid: the integral's share of the output is never above one, for all
\* gains of either sign and however they change in flight.
THEOREM SharesBounded == Spec => []ShareBounded
<1>1. PidInv => ShareBounded
  BY DEF PidInv
<1> QED BY <1>1, PidInvariant, PTL

\* PID::pid: a saturated share is left at once, for all gains and gaps.
THEOREM SharesDesaturate == Spec => DesaturatesAtOnce
<1>1. PidInv /\ [Next]_vars
        => [\A v \in Errors :
              (/\ Pid(v)
               /\ Saturated /\ params.limit = share.limit
               /\ integ.prev # NaN /\ integ.prev + v < 0) => ~Saturated']_vars
  BY PidLeavesBound
<1> QED BY <1>1, PidInvariant, PTL DEF Spec, DesaturatesAtOnce

\* PID::reset: the integral is worth no more than the time integrated since.
THEOREM IntegralsEarned == Spec => []IntegralEarned
<1>1. PidInv => IntegralEarned
  BY DEF PidInv
<1> QED BY <1>1, PidInvariant, PTL

\* LowPass::lowpass: unless a sample is overdue, the filter stays in the range
\* of the errors, for all time constants.
THEOREM FiltersInRange == Spec => []FilterInRange
<1>1. PidInv => FilterInRange
  BY DEF PidInv
<1> QED BY <1>1, PidInvariant, PTL
=============================================================================
