---------------------------- MODULE MotorsProofs ----------------------------
(***************************************************************************)
(* scale computes what its one-line definition says, however often its     *)
(* macros evaluate their arguments, unless setConfig comes in between; one  *)
(* setConfig in between gives no motor more than a range allows, unless it *)
(* raises the floor of an armed one; and the mixing is balanced.           *)
(***************************************************************************)
EXTENDS Motors, TLAPS

USE DEF Motor, FrontLeft, FrontRight, BackRight, BackLeft, Last

(***************************************************************************)
(* Types.                                                                  *)
(***************************************************************************)
LEMMA MixTyped == ASSUME NEW c \in Control
                  PROVE  Mix(c) \in [Motor -> Int \cup {NaN}]
<1>1. CASE NaN \in {c.throttle, c.roll, c.pitch, c.yaw}
  BY <1>1 DEF Mix
<1>2. CASE NaN \notin {c.throttle, c.roll, c.pitch, c.yaw}
  <2>1. c.throttle \in Int /\ c.roll \in Int /\ c.pitch \in Int /\ c.yaw \in Int
    BY <1>2 DEF Control
  <2> QED BY <1>2, <2>1 DEF Mix, Mixed
<1> QED BY <1>1, <1>2

LEMMA EvaluatedTyped ==
    ASSUME TypeOK, NEW v \in Int \cup {NaN}, Evaluated(v)
    PROVE  step' \in Step /\ nth' \in [max : {1, 2}, min : {1, 2}]
           /\ x' \in Int \cup {NaN}
BY DEF Evaluated, TypeOK, Step

\* Every variable keeps its type, whatever the configurations and controls are.
THEOREM MotorsTyped == Spec => []TypeOK
<1>1. Init => TypeOK
  BY DEF Init, TypeOK, Unarmed, Config, Step, First
<1>2. TypeOK /\ [Next]_vars => TypeOK'
  <2> SUFFICES ASSUME TypeOK, [Next]_vars PROVE TypeOK'
    OBVIOUS
  <2>1. CASE LoadHi
    BY <2>1 DEF LoadHi, TypeOK, Config, Step
  <2>2. CASE LoadLo
    BY <2>2 DEF LoadLo, TypeOK, Config, Step
  <2>3. CASE LoadBase
    <3> DEFINE v == IF x = NaN THEN NaN ELSE x + Unit * range.min
    <3>1. v \in Int \cup {NaN}
      BY UnitAssumption DEF TypeOK, Config
    <3>2. CASE nth.min = 1
      BY <2>3, <3>1, <3>2 DEF LoadBase, TypeOK, Step
    <3>3. CASE nth.min # 1
      <4>1. Evaluated(v)
        BY <2>3, <3>3 DEF LoadBase
      <4> QED BY <2>3, <3>1, <4>1, EvaluatedTyped DEF LoadBase, TypeOK
    <3> QED BY <3>2, <3>3
  <2>4. CASE LoadLimit
    BY <2>4 DEF LoadLimit, TypeOK, Step
  <2>5. CASE LoadMax
    <3>1. Unit * range.max \in Int
      BY UnitAssumption DEF TypeOK, Config
    <3> QED BY <2>5, <3>1, EvaluatedTyped DEF LoadMax, TypeOK
  <2>6. CASE Write
    BY <2>6 DEF Write, TypeOK, Step, First, Spinning, Pending
  <2>7. ASSUME NEW c \in Controls, SetControl(c) PROVE TypeOK'
    BY <2>7, MixTyped, ControlsAssumption
       DEF SetControl, TypeOK, Step, First, Pending
  <2>8. ASSUME NEW c \in Configs, SetConfig(c) PROVE TypeOK'
    BY <2>8, ConfigsAssumption DEF SetConfig, FirstStore, TypeOK, Config
  <2>9. CASE FinishConfig
    BY <2>9 DEF FinishConfig, TypeOK
  <2>10. CASE UNCHANGED vars
    BY <2>10 DEF vars, TypeOK
  <2> QED
    BY <2>1, <2>2, <2>3, <2>4, <2>5, <2>6, <2>7, <2>8, <2>9, <2>10
       DEF Next, Main, Scale, Receiver
<1> QED BY <1>1, <1>2, PTL DEF Spec

(***************************************************************************)
(* scale.                                                                  *)
(***************************************************************************)
Product == IF mix[motor] = NaN THEN NaN ELSE (range.max - range.min) * mix[motor]
Want == Asked(range, mix[motor])
Full == Unit * range.max
InLimit == Less(Want, Full)

\* The registers hold what the loads so far make of the range, and the choices
\* that MAX and MIN took still stand.
Registers ==
    /\ step = "lo" => hi = range.max
    /\ step = "base" => x = Product
    /\ step = "limit" => x = Want /\ nth.min = 1
    /\ step = "max" => ~InLimit
    /\ step # "write" /\ nth.min = 2 => InLimit
    /\ step # "write" /\ nth.max = 2 => Limited(range, mix[motor]) > 0
    /\ step = "write" => x = Clamped(range, mix[motor])

ScaleInv ==
    /\ storing # None => overlaps # 0
    /\ step # "idle" /\ overlaps = 0 => Registers

\* MIN's value v, compared or taken by MAX, is the limited one.
LEMMA EvaluatedRight ==
    ASSUME TypeOK, NEW v \in Int, Evaluated(v), Registers,
           v = Limited(range, mix[motor]), step # "write",
           UNCHANGED <<range, mix, motor>>
    PROVE  Registers'
<1> DEFINE l == Limited(range, mix[motor])
<1>1. l' = l
  BY DEF Limited, Asked, Less
<1>2. CASE nth.max = 1 /\ Less(0, v)
  <2>1. step' = "hi" /\ nth' = [max |-> 2, min |-> 1]
    BY <1>2 DEF Evaluated
  <2>2. l > 0
    BY <1>2 DEF Less
  <2> HIDE DEF l
  <2> QED BY <1>1, <2>1, <2>2 DEF Registers, l
<1>3. CASE ~(nth.max = 1 /\ Less(0, v))
  <2>1. step' = "write" /\ x' = (IF nth.max = 1 THEN 0 ELSE v)
    BY <1>3 DEF Evaluated
  <2>2. nth.max # 1 => l > 0
    BY DEF Registers, TypeOK
  <2>3. nth.max = 1 => ~(l > 0)
    BY <1>3, NaNAssumption DEF Less
  <2>4. x' = Clamped(range, mix[motor])
    BY <2>1, <2>2, <2>3 DEF Clamped
  <2>5. Clamped(range, mix[motor])' = Clamped(range, mix[motor])
    BY DEF Clamped, Limited, Asked, Less
  <2> QED BY <2>1, <2>4, <2>5 DEF Registers
<1> QED BY <1>2, <1>3

LEMMA ScaleNext == TypeOK /\ ScaleInv /\ [Next]_vars => ScaleInv'
<1> SUFFICES ASSUME TypeOK, ScaleInv, [Next]_vars PROVE ScaleInv'
  OBVIOUS
<1> USE DEF ScaleInv
\* A load of scale that no setConfig has met.
<1> DEFINE Undisturbed == step # "idle" /\ overlaps = 0
           Frame == UNCHANGED <<range, storing, mix, motor, overlaps>>
<1>0. ASSUME Frame PROVE /\ Want' = Want /\ Full' = Full /\ Product' = Product
                         /\ InLimit' = InLimit
                         /\ Limited(range, mix[motor])' = Limited(range, mix[motor])
                         /\ Clamped(range, mix[motor])' = Clamped(range, mix[motor])
  BY <1>0 DEF Want, Full, Product, InLimit, Limited, Clamped, Asked, Less
<1>1. CASE LoadHi
  BY <1>1, <1>0 DEF LoadHi, Registers
<1>2. CASE LoadLo
  <2>1. Frame /\ step' = "base" /\ nth' = nth /\ step = "lo"
    BY <1>2 DEF LoadLo
  <2>2. overlaps = 0 => x' = Product
    BY <1>2 DEF LoadLo, Registers, Product
  <2> QED BY <2>1, <2>2, <1>0 DEF Registers
<1>3. CASE LoadBase
  <2> DEFINE v == IF x = NaN THEN NaN ELSE x + Unit * range.min
  <2>1. Frame /\ step = "base"
    BY <1>3 DEF LoadBase
  <2>2. ASSUME overlaps = 0 PROVE v = Want
    <3>1. x = Product
      BY <2>1, <2>2 DEF Registers
    <3>2. CASE mix[motor] = NaN
      BY <3>1, <3>2 DEF Product, Want, Asked
    <3>3. CASE mix[motor] # NaN
      <4>1. mix[motor] \in Int /\ range.max \in Int /\ range.min \in Int
        BY <3>3 DEF TypeOK, Config
      <4>2. Product \in Int /\ Product = (range.max - range.min) * mix[motor]
        BY <3>3, <4>1 DEF Product
      <4>3. x # NaN
        BY <3>1, <4>2, NaNAssumption
      <4> QED BY <3>1, <3>3, <4>2, <4>3 DEF Want, Asked
    <3> QED BY <3>2, <3>3
  <2>3. CASE nth.min = 1
    <3>1. step' = "limit" /\ x' = v /\ nth' = nth
      BY <1>3, <2>3 DEF LoadBase
    <3> HIDE DEF v
    <3> QED BY <2>1, <2>2, <2>3, <3>1, <1>0 DEF Registers
  <2>4. CASE nth.min # 1
    <3>1. Evaluated(v)
      BY <1>3, <2>4 DEF LoadBase
    <3>2. ASSUME overlaps = 0 PROVE Registers'
      <4>1. InLimit
        BY <2>1, <2>4, <3>2 DEF Registers, TypeOK
      <4>2. Want \in Int /\ Want = Limited(range, mix[motor])
        <5>1. Want # NaN
          BY <4>1 DEF InLimit, Less
        <5>2. Want \in Int
          BY <5>1, UnitAssumption DEF Want, Asked, TypeOK, Config
        <5> QED BY <4>1, <5>2 DEF InLimit, Want, Full, Limited
      <4> HIDE DEF v
      <4> QED BY <2>1, <2>2, <3>1, <3>2, <4>2, EvaluatedRight
    <3> HIDE DEF v
    <3> QED BY <2>1, <3>2
  <2> QED BY <2>3, <2>4
<1>4. CASE LoadLimit
  <2>1. Frame /\ step = "limit" /\ x' = x
    BY <1>4 DEF LoadLimit
  <2>2. overlaps = 0 => x = Want
    BY <2>1 DEF Registers
  <2>3. CASE Less(x, Unit * range.max)
    <3>1. step' = "hi" /\ nth' = [nth EXCEPT !.min = 2]
      BY <1>4, <2>3 DEF LoadLimit, Below
    <3>2. overlaps = 0 => InLimit
      BY <2>2, <2>3 DEF InLimit, Full
    <3> QED BY <2>1, <3>1, <3>2, <1>0 DEF Registers, TypeOK
  <2>4. CASE ~Less(x, Unit * range.max)
    <3>1. step' = "max" /\ nth' = nth
      BY <1>4, <2>4 DEF LoadLimit, Below
    <3>2. overlaps = 0 => ~InLimit
      BY <2>2, <2>4 DEF InLimit, Full
    <3> QED BY <2>1, <3>1, <3>2, <1>0 DEF Registers
  <2> QED BY <2>3, <2>4
<1>5. CASE LoadMax
  <2>1. Frame /\ step = "max" /\ Evaluated(Unit * range.max)
    BY <1>5 DEF LoadMax
  <2>2. ASSUME overlaps = 0 PROVE Registers'
    <3>1. ~InLimit
      BY <2>1, <2>2 DEF Registers
    <3>2. Unit * range.max = Limited(range, mix[motor])
      BY <3>1 DEF InLimit, Want, Full, Limited
    <3>3. Unit * range.max \in Int
      BY UnitAssumption DEF TypeOK, Config
    <3> QED BY <2>1, <2>2, <3>2, <3>3, EvaluatedRight
  <2> QED BY <2>1, <2>2
<1>6. CASE Write
  BY <1>6 DEF Write, Pending, Registers, First
<1>7. ASSUME NEW c \in Controls, SetControl(c) PROVE ScaleInv'
  BY <1>7 DEF SetControl, Pending, Registers, First
<1>8. ASSUME NEW c \in Configs, SetConfig(c) PROVE ScaleInv'
  BY <1>8 DEF SetConfig
<1>9. CASE FinishConfig
  BY <1>9 DEF FinishConfig
<1>10. CASE UNCHANGED vars
  BY <1>10, <1>0 DEF vars, Registers
<1> QED
  BY <1>1, <1>2, <1>3, <1>4, <1>5, <1>6, <1>7, <1>8, <1>9, <1>10
     DEF Next, Main, Scale, Receiver

\* Unless setConfig comes in between, a motor is given its share of the range
\* within 0 and max_pwm, whatever the range and the throttle are.
THEOREM ScaleCorrect == Spec => []ScaleClamps
<1>1. Init => ScaleInv
  BY DEF Init, ScaleInv
<1>2. ScaleInv => ScaleClamps
  BY DEF ScaleInv, Registers, ScaleClamps
<1> QED BY <1>1, <1>2, ScaleNext, MotorsTyped, PTL DEF Spec

(***************************************************************************)
(* scale, with one setConfig in between.                                   *)
(***************************************************************************)
Allowed(v) == \E c \in Ranges : v \in 0 .. Unit * c.max

\* Each end of the range in force is of a configuration that was given; half a
\* store later, they may be of two.
RangeInv ==
    /\ storing = None => range \in Ranges
    /\ storing # None => storing \in Configs /\ range.min = storing.min
    /\ \E c \in Ranges : range.max = c.max
    /\ step = "lo" => \E c \in Ranges : hi = c.max

\* min_pwm, once a setConfig has stored it, is final.  What remains of scale adds
\* it to the share loaded before.
ShareInv ==
    overlaps <= 1 /\ mix[motor] \in 0 .. Unit =>
        /\ step = "base" => x # NaN /\ Allowed(x + Unit * range.min)
        /\ step = "write" => Allowed(x)

OverdriveInv == TypeOK /\ ScaleInv /\ RangeInv /\ ShareInv
LEMMA RangesValid ==
    ASSUME FloorKept, NEW c \in Ranges
    PROVE  /\ c.min \in Int /\ c.max \in Int
           /\ 0 <= c.min /\ c.min <= c.max
BY ConfigsAssumption DEF FloorKept, Ranges, Unarmed, Config

\* A share of the way from l to h lies between them, whichever is the higher.
LEMMA ShareBetween ==
    ASSUME NEW h \in Nat, NEW l \in Nat, NEW m \in 0 .. Unit
    PROVE  /\ (h - l) * m + Unit * l \in Nat
           /\ l <= h => (h - l) * m + Unit * l <= Unit * h
           /\ h <= l => (h - l) * m + Unit * l <= Unit * l
<1> DEFINE n == Unit - m
<1>1. m \in Nat /\ n \in Nat /\ Unit = n + m
  BY UnitAssumption
<1>2. /\ (h - l) * m = h * m - l * m
      /\ Unit * l = n * l + l * m
      /\ Unit * h = n * h + h * m
  BY <1>1
<1>3. h * m \in Nat /\ l * m \in Nat /\ n * l \in Nat /\ n * h \in Nat
  BY <1>1
<1>4. l <= h => n * l <= n * h
  BY <1>1
<1>5. h <= l => h * m <= l * m
  BY <1>1
<1> HIDE DEF n
<1> QED BY <1>2, <1>3, <1>4, <1>5

\* Between the ends of two ranges, or at them, is what a range allows.
LEMMA ShareAllowed ==
    ASSUME FloorKept, NEW c \in Ranges, NEW d \in Ranges, NEW m \in 0 .. Unit
    PROVE  Allowed((c.max - d.min) * m + Unit * d.min)
<1> DEFINE v == (c.max - d.min) * m + Unit * d.min
<1>1. c.max \in Nat /\ d.min \in Nat /\ d.max \in Nat /\ d.min <= d.max
  BY RangesValid
<1>2. v \in Nat
  BY <1>1, ShareBetween
<1>3. CASE d.min <= c.max
  <2>1. v <= Unit * c.max
    BY <1>1, <1>3, ShareBetween
  <2>2. Unit * c.max \in Nat
    BY <1>1, UnitAssumption
  <2> HIDE DEF v
  <2>3. v \in 0 .. Unit * c.max
    BY <1>2, <2>1, <2>2
  <2> QED BY <2>3 DEF Allowed, v
<1>4. CASE c.max <= d.min
  <2>1. v <= Unit * d.min
    BY <1>1, <1>4, ShareBetween
  <2>2. Unit * d.min <= Unit * d.max /\ Unit * d.min \in Nat /\ Unit * d.max \in Nat
    BY <1>1, UnitAssumption
  <2> HIDE DEF v
  <2>3. v \in 0 .. Unit * d.max
    BY <1>2, <2>1, <2>2
  <2> QED BY <2>3 DEF Allowed, v
<1> QED BY <1>1, <1>3, <1>4

LEMMA EndAllowed ==
    ASSUME FloorKept, NEW c \in Ranges
    PROVE  Allowed(0) /\ Allowed(Unit * c.max)
<1>1. c.max \in Nat
  BY RangesValid
<1>2. Unit * c.max \in Nat
  BY <1>1, UnitAssumption
<1>3. 0 \in 0 .. Unit * c.max /\ Unit * c.max \in 0 .. Unit * c.max
  BY <1>2
<1> QED BY <1>3 DEF Allowed

\* The step that needs the floor kept: setConfig comes after the share of the
\* old range has been loaded, and before its min_pwm is added.
LEMMA FloorAllowed ==
    ASSUME FloorKept, NEW old \in Ranges, NEW new \in Ranges, NEW m \in 0 .. Unit
    PROVE  Allowed((old.max - old.min) * m + Unit * new.min)
<1> DEFINE s == (old.max - old.min) * m
<1>1. /\ old.max \in Nat /\ old.min \in Nat /\ old.min <= old.max
      /\ new.min \in Nat /\ new.max \in Nat /\ new.min <= new.max
  BY RangesValid
<1>2. CASE Armed(old)
  <2>1. new.min <= old.min
    BY <1>2 DEF FloorKept
  <2>2. s + Unit * old.min <= Unit * old.max
    BY <1>1, ShareBetween
  <2>3. s \in Nat
    <3>1. old.max - old.min \in Nat /\ m \in Nat
      BY <1>1
    <3> QED BY <3>1
  <2>4. /\ Unit * new.min \in Nat /\ Unit * old.min \in Nat /\ Unit * old.max \in Nat
        /\ Unit * new.min <= Unit * old.min
    BY <1>1, <2>1, UnitAssumption
  <2> HIDE DEF s
  <2>5. s + Unit * new.min \in 0 .. Unit * old.max
    BY <2>2, <2>3, <2>4
  <2> QED BY <2>5 DEF Allowed, s
<1>3. CASE ~Armed(old)
  <2>1. s = 0
    BY <1>1, <1>3 DEF Armed
  <2>2. /\ Unit * new.min \in Nat /\ Unit * new.max \in Nat
        /\ Unit * new.min <= Unit * new.max
    BY <1>1, UnitAssumption
  <2> HIDE DEF s
  <2>3. s + Unit * new.min \in 0 .. Unit * new.max
    BY <2>1, <2>2
  <2> QED BY <2>3 DEF Allowed, s
<1> QED BY <1>2, <1>3

LEMMA RangeNext ==
    ASSUME TypeOK, ScaleInv, RangeInv, FloorKept, [Next]_vars
    PROVE  RangeInv'
<1> USE DEF RangeInv
<1>1. CASE LoadHi
  BY <1>1 DEF LoadHi
<1>2. CASE LoadLo
  BY <1>2 DEF LoadLo
<1>3. CASE LoadBase
  BY <1>3 DEF LoadBase, Evaluated
<1>4. CASE LoadLimit
  BY <1>4 DEF LoadLimit
<1>5. CASE LoadMax
  BY <1>5 DEF LoadMax, Evaluated
<1>6. CASE Write
  BY <1>6 DEF Write
<1>7. ASSUME NEW c \in Controls, SetControl(c) PROVE RangeInv'
  BY <1>7 DEF SetControl
<1>8. ASSUME NEW c \in Configs, SetConfig(c) PROVE RangeInv'
  <2>1. range'.min = c.min /\ range'.max = range.max /\ storing' = c
    BY <1>8 DEF SetConfig, FirstStore, TypeOK, Config
  <2>2. c # None
    BY ConfigsAssumption, NoneAssumption
  <2> QED BY <1>8, <2>1, <2>2 DEF SetConfig
<1>9. CASE FinishConfig
  BY <1>9 DEF FinishConfig, Ranges
<1>10. CASE UNCHANGED vars
  BY <1>10 DEF vars
<1> QED
  BY <1>1, <1>2, <1>3, <1>4, <1>5, <1>6, <1>7, <1>8, <1>9, <1>10
     DEF Next, Main, Scale, Receiver

LEMMA ShareNext ==
    ASSUME OverdriveInv, FloorKept, [Next]_vars
    PROVE  ShareInv'
<1> USE DEF OverdriveInv
\* A step of one scale: nothing that Allowed is about changes.
<1> DEFINE Frame == UNCHANGED <<range, storing, mix, motor, overlaps>>
           Asking == overlaps <= 1 /\ mix[motor] \in 0 .. Unit
<1>0. ASSUME Frame, step' \notin {"base", "write"} PROVE ShareInv'
  BY <1>0 DEF ShareInv
<1>11. ASSUME NEW v, Evaluated(v), Frame, Asking => Allowed(v) PROVE ShareInv'
  <2>1. CASE nth.max = 1 /\ Less(0, v)
    <3>1. step' = "hi"
      BY <1>11, <2>1 DEF Evaluated
    <3> QED BY <1>0, <1>11, <3>1
  <2>2. CASE ~(nth.max = 1 /\ Less(0, v))
    <3>1. step' = "write" /\ x' \in {0, v}
      BY <1>11, <2>2 DEF Evaluated
    <3>2. Allowed(0)
      BY EndAllowed DEF Ranges
    <3>3. Asking => Allowed(x')
      BY <1>11, <3>1, <3>2
    <3> QED BY <1>11, <3>1, <3>3 DEF ShareInv, Allowed
  <2> QED BY <2>1, <2>2
<1>1. CASE LoadHi
  BY <1>0, <1>1 DEF LoadHi
<1>2. CASE LoadLo
  <2>1. Frame /\ step = "lo" /\ step' = "base"
    BY <1>2 DEF LoadLo
  <2>2. ASSUME Asking PROVE x' # NaN /\ Allowed(x' + Unit * range.min)
    <3>1. x' = (hi - range.min) * mix[motor]
      BY <1>2, <2>2, NaNAssumption DEF LoadLo
    <3>2. PICK c \in Ranges : hi = c.max
      BY <2>1 DEF RangeInv
    <3>3. PICK d \in Ranges : range.min = d.min
      BY DEF RangeInv, Ranges
    <3>4. x' \in Int
      BY <2>2, <3>1 DEF TypeOK, Config
    <3> QED BY <2>2, <3>1, <3>2, <3>3, <3>4, ShareAllowed, NaNAssumption
  <2> QED BY <2>1, <2>2 DEF ShareInv, Allowed
<1>3. CASE LoadBase
  <2> DEFINE v == IF x = NaN THEN NaN ELSE x + Unit * range.min
  <2>1. Frame /\ step = "base"
    BY <1>3 DEF LoadBase
  <2>2. CASE nth.min = 1
    <3>1. step' = "limit"
      BY <1>3, <2>2 DEF LoadBase
    <3> QED BY <1>0, <2>1, <3>1
  <2>3. CASE nth.min # 1
    <3>1. Evaluated(v)
      BY <1>3, <2>3 DEF LoadBase
    <3>2. ASSUME Asking PROVE Allowed(v)
      <4>1. x # NaN /\ Allowed(x + Unit * range.min)
        BY <2>1, <3>2 DEF ShareInv
      <4> QED BY <4>1
    <3> HIDE DEF v
    <3> QED BY <1>11, <2>1, <3>1, <3>2
  <2> QED BY <2>2, <2>3
<1>4. CASE LoadLimit
  BY <1>0, <1>4 DEF LoadLimit
<1>5. CASE LoadMax
  <2>1. Evaluated(Unit * range.max) /\ Frame
    BY <1>5 DEF LoadMax
  <2>2. Allowed(Unit * range.max)
    BY EndAllowed DEF RangeInv
  <2> QED BY <1>11, <2>1, <2>2
<1>6. CASE Write
  BY <1>6 DEF Write, ShareInv
<1>7. ASSUME NEW c \in Controls, SetControl(c) PROVE ShareInv'
  BY <1>7 DEF SetControl, ShareInv
<1>8. ASSUME NEW c \in Configs, SetConfig(c) PROVE ShareInv'
  <2>1. /\ storing = None /\ range'.min = c.min
        /\ UNCHANGED <<mix, motor, step, x>>
        /\ overlaps' = IF overlaps = 0 THEN 1 ELSE 2
    BY <1>8 DEF SetConfig, FirstStore, TypeOK, Config
  <2>2. ASSUME overlaps' <= 1, mix[motor] \in 0 .. Unit, step = "base"
        PROVE  x # NaN /\ Allowed(x + Unit * c.min)
    <3>1. overlaps = 0
      BY <2>1, <2>2
    <3>2. x = (range.max - range.min) * mix[motor]
      BY <2>2, <3>1, NaNAssumption DEF ScaleInv, Registers, Product
    <3>3. range \in Ranges /\ c \in Ranges
      BY <2>1 DEF RangeInv, Ranges
    <3>4. x \in Int
      BY <2>2, <3>2 DEF TypeOK, Config
    <3> QED BY <2>2, <3>2, <3>3, <3>4, FloorAllowed, NaNAssumption
  <2>3. ASSUME overlaps' <= 1, mix[motor] \in 0 .. Unit, step = "write"
        PROVE  Allowed(x)
    <3>1. overlaps <= 1
      BY <2>1, <2>3
    <3> QED BY <2>3, <3>1 DEF ShareInv
  <2> QED BY <2>1, <2>2, <2>3 DEF ShareInv, Allowed
<1>9. CASE FinishConfig
  <2>1. /\ range'.min = range.min
        /\ UNCHANGED <<mix, motor, step, x, overlaps>>
    BY <1>9 DEF FinishConfig, RangeInv
  <2> QED BY <2>1 DEF ShareInv, Allowed
<1>10. CASE UNCHANGED vars
  BY <1>10 DEF vars, ShareInv, Allowed
<1> QED
  BY <1>1, <1>2, <1>3, <1>4, <1>5, <1>6, <1>7, <1>8, <1>9, <1>10
     DEF Next, Main, Scale, Receiver

\* Arming and disarming, wherever the two stores of one setConfig fall in scale,
\* never gives a motor less than nothing or more than a range allows, for every
\* set of ranges whose armed ones are not replaced by one that begins higher.
THEOREM NeverOverdriven == FloorKept => (Spec => []NoOverdrive)
<1> SUFFICES ASSUME FloorKept PROVE Spec => []NoOverdrive
  OBVIOUS
<1>1. Init => RangeInv /\ ShareInv
  BY DEF Init, RangeInv, ShareInv, Ranges
<1>2. Init => ScaleInv
  BY DEF Init, ScaleInv
<1>3. TypeOK /\ ScaleInv /\ RangeInv /\ ShareInv /\ [Next]_vars
        => RangeInv' /\ ShareInv'
  BY RangeNext, ShareNext DEF OverdriveInv
<1>4. ShareInv => NoOverdrive
  BY DEF ShareInv, NoOverdrive, Allowed, Ranges
<1> QED BY <1>1, <1>2, <1>3, <1>4, ScaleNext, MotorsTyped, PTL DEF Spec

(***************************************************************************)
(* Mixing.                                                                 *)
(***************************************************************************)
LEMMA MixIsBalanced ==
    ASSUME NEW c \in Control, NaN \notin {c.throttle, c.roll, c.pitch, c.yaw}
    PROVE  Balanced(c)
<1>1. c.throttle \in Int /\ c.roll \in Int /\ c.pitch \in Int /\ c.yaw \in Int
  BY DEF Control
<1> QED BY <1>1 DEF Balanced, Mix, Mixed

\* Every control is shared out to the four motors without a loss, and the three
\* turns act on the sides, the ends and the diagonals only.
THEOREM MixingCorrect == Spec => MixingBalanced
<1>1. [Next]_vars => [\A c \in Controls :
                        SetControl(c)
                          /\ NaN \notin {c.throttle, c.roll, c.pitch, c.yaw}
                        => Balanced(c)]_vars
  BY MixIsBalanced, ControlsAssumption
<1> QED BY <1>1, PTL DEF Spec, MixingBalanced
=============================================================================
