------------------------------- MODULE Motors -------------------------------
(***************************************************************************)
(* Motors::setControl, which the main thread runs, against                 *)
(* Motors::setConfig, which the receiver runs without any mutex.  The      *)
(* macros MIN and MAX of Motors.h evaluate their arguments twice, so that  *)
(* one call of scale loads min_pwm and max_pwm up to sixteen times, with   *)
(* the receiver's two stores anywhere in between.  FlightProgram takes all *)
(* of Motors::setControl as one step.                                      *)
(***************************************************************************)
EXTENDS Integers

CONSTANTS
    NaN,       \* the floating-point value that compares false to everything
    None,      \* no configuration is half stored
    Unit,      \* throttles and duty cycles are counted in 1/Unit
    Configs,   \* the configurations the ground station may send
    Controls   \* the controls the controller may compute

Config == [min : Int, max : Int]
Control == [throttle : Int \cup {NaN}, roll : Int \cup {NaN},
            pitch : Int \cup {NaN}, yaw : Int \cup {NaN}]

ASSUME UnitAssumption == Unit \in Nat \ {0}
ASSUME ConfigsAssumption == Configs \subseteq Config
ASSUME ControlsAssumption == Controls \subseteq Control
ASSUME NaNAssumption == NaN \notin Int
ASSUME NoneAssumption == None \notin Config

\* The motors, in the order in which they are written.
Motor == 1 .. 4
FrontLeft == 1
FrontRight == 2
BackRight == 3
BackLeft == 4

Unarmed == [min |-> 0, max |-> 0]
Ranges == Configs \cup {Unarmed}

\* Receiver::run takes a range for disarmed when its ends are equal.
Armed(r) == r.min # r.max

Less(x, y) == x # NaN /\ y # NaN /\ x < y

VARIABLES
    range,    \* min_pwm and max_pwm
    storing,  \* the configuration whose max_pwm is not stored yet
    mix,      \* what each motor is asked for: fl, fr, br, bl
    motor,    \* the motor whose scale() is evaluated
    step,     \* the next load of scale(), or "idle" between two controls
    nth,      \* which evaluation of MAX's and of MIN's first argument it is
    hi, x,    \* what is loaded and computed so far
    spinning, \* the motors whose last duty cycle was not zero
    overlaps  \* how many calls of setConfig this scale() has met, up to two

vars == <<range, storing, mix, motor, step, nth, hi, x, spinning, overlaps>>

Step == {"idle", "hi", "lo", "base", "limit", "max", "write"}
First == [max |-> 1, min |-> 1]

TypeOK ==
    /\ range \in Config
    /\ storing \in Config \cup {None}
    /\ mix \in [Motor -> Int \cup {NaN}]
    /\ motor \in Motor
    /\ step \in Step
    /\ nth \in [max : {1, 2}, min : {1, 2}]
    /\ hi \in Int
    /\ x \in Int \cup {NaN}
    /\ spinning \in SUBSET Motor
    /\ overlaps \in 0 .. 2

Init ==
    /\ range = Unarmed
    /\ storing = None
    /\ mix = [m \in Motor |-> 0]
    /\ motor = FrontLeft
    /\ step = "idle"
    /\ nth = First
    /\ hi = 0
    /\ x = 0
    /\ spinning = {}
    /\ overlaps = 0

(***************************************************************************)
(* Motors::setConfig: two stores.                                          *)
(***************************************************************************)
StoreMaxFirst(c) == [range EXCEPT !.max = c.max]
FirstStore(c) == [range EXCEPT !.min = c.min]

SetConfig(c) ==
    /\ storing = None
    /\ storing' = c
    /\ range' = FirstStore(c)
    /\ overlaps' = IF overlaps = 0 THEN 1 ELSE 2
    /\ UNCHANGED <<mix, motor, step, nth, hi, x, spinning>>

FinishConfig ==
    /\ storing # None
    /\ storing' = None
    /\ range' = storing
    /\ UNCHANGED <<mix, motor, step, nth, hi, x, spinning, overlaps>>

(***************************************************************************)
(* Motors::setControl: the mixing of the four axes of a control.           *)
(***************************************************************************)
\* A setConfig that has stored only min_pwm meets the scale() that begins.
Pending == IF storing = None THEN 0 ELSE 1

Mixed(g, r, p, y) ==
    <<r + p - y + g, -r + p + y + g, -r - p - y + g, r - p + y + g>>
Mix(c) ==
    IF NaN \in {c.throttle, c.roll, c.pitch, c.yaw}
    THEN [m \in Motor |-> NaN]
    ELSE Mixed(c.throttle, c.roll, c.pitch, c.yaw)

SetControl(c) ==
    /\ step = "idle"
    /\ mix' = Mix(c)
    /\ motor' = FrontLeft
    /\ step' = "hi"
    /\ nth' = First
    /\ overlaps' = Pending
    /\ UNCHANGED <<range, storing, hi, x, spinning>>

(***************************************************************************)
(* scale(value): MAX(MIN((max_pwm - min_pwm) * value + min_pwm, max_pwm),  *)
(* 0), that is                                                             *)
(*   MIN:  X < max_pwm ? X : max_pwm      MAX:  MIN > 0 ? MIN : 0          *)
(***************************************************************************)
LoadHi ==
    /\ step = "hi"
    /\ hi' = range.max
    /\ step' = "lo"
    /\ UNCHANGED <<range, storing, mix, motor, nth, x, spinning, overlaps>>

LoadLo ==
    /\ step = "lo"
    /\ x' = IF mix[motor] = NaN THEN NaN ELSE (hi - range.min) * mix[motor]
    /\ step' = "base"
    /\ UNCHANGED <<range, storing, mix, motor, nth, hi, spinning, overlaps>>

\* MIN has been evaluated to v: MAX compares it, then evaluates it once more.
Evaluated(v) ==
    IF nth.max = 1 /\ Less(0, v)
    THEN step' = "hi" /\ nth' = [max |-> 2, min |-> 1] /\ UNCHANGED x
    ELSE step' = "write" /\ x' = (IF nth.max = 1 THEN 0 ELSE v) /\ UNCHANGED nth

LoadBase ==
    /\ step = "base"
    /\ LET v == IF x = NaN THEN NaN ELSE x + Unit * range.min
       IN  IF nth.min = 1
           THEN step' = "limit" /\ x' = v /\ UNCHANGED nth
           ELSE Evaluated(v)
    /\ UNCHANGED <<range, storing, mix, motor, hi, spinning, overlaps>>

BelowNever(v, limit) == v # limit
Below(v, limit) == Less(v, limit)
LoadLimit ==
    /\ step = "limit"
    /\ IF Below(x, Unit * range.max)
       THEN step' = "hi" /\ nth' = [nth EXCEPT !.min = 2]
       ELSE step' = "max" /\ UNCHANGED nth
    /\ UNCHANGED <<range, storing, mix, motor, hi, x, spinning, overlaps>>

LoadMax ==
    /\ step = "max"
    /\ Evaluated(Unit * range.max)
    /\ UNCHANGED <<range, storing, mix, motor, hi, spinning, overlaps>>

SpinningOn(m, v) == IF v # 0 THEN spinning \cup {m} ELSE spinning
Spinning(m, v) == IF v # 0 THEN spinning \cup {m} ELSE spinning \ {m}

PastLast == BackLeft + 1
Last == BackLeft
Write ==
    /\ step = "write"
    /\ spinning' = Spinning(motor, x)
    /\ IF motor = Last
       THEN step' = "idle" /\ UNCHANGED motor
       ELSE step' = "hi" /\ motor' = motor + 1
    /\ nth' = First
    /\ overlaps' = Pending
    /\ UNCHANGED <<range, storing, mix, hi, x>>

Scale == LoadHi \/ LoadLo \/ LoadBase \/ LoadLimit \/ LoadMax \/ Write

Main == Scale \/ \E c \in Controls : SetControl(c)
Receiver == FinishConfig \/ \E c \in Configs : SetConfig(c)
Next == Main \/ Receiver

Spec == Init /\ [][Next]_vars

\* The main thread never stops computing controls.
FairSpec == Spec /\ WF_vars(Main)

(***************************************************************************)
(* Properties.                                                             *)
(***************************************************************************)
\* What scale computes for a range r that stays as it is.
Asked(r, v) ==
    IF v = NaN THEN NaN ELSE (r.max - r.min) * v + Unit * r.min
Limited(r, v) ==
    IF Less(Asked(r, v), Unit * r.max) THEN Asked(r, v) ELSE Unit * r.max
Clamped(r, v) == IF Limited(r, v) > 0 THEN Limited(r, v) ELSE 0

\* Motors::scale: unless a store of setConfig came in between, a motor is given
\* its throttle's share of the range, within 0 and max_pwm; NaN gets max_pwm.
ScaleClamps ==
    step = "write" /\ overlaps = 0 => x = Clamped(range, mix[motor])

\* What the ground station must see to, since the code does not check it: the
\* ends of a range are in order, and no armed range is replaced by one that
\* begins higher.
FloorKept ==
    /\ \A c \in Configs : 0 <= c.min /\ c.min <= c.max
    /\ \A old, new \in Ranges : Armed(old) => new.min <= old.min

\* Motors::setConfig stores min_pwm first.  Arming or disarming, wherever the
\* two stores fall in scale, never gives a motor less than nothing or more than
\* the armed range allows, as long as the throttle asked for is within its range
\* and FloorKept.  (Disarming and arming again within one scale would.)
NoOverdrive ==
    step = "write" /\ overlaps <= 1 /\ mix[motor] \in 0 .. Unit
        => \E c \in Ranges : x \in 0 .. Unit * c.max

\* Motors::setControl, for an X configuration: the throttle is shared equally,
\* roll, pitch and yaw only shift it between the sides, ends and diagonals.
Balanced(c) ==
    LET f == Mix(c)
        fl == f[FrontLeft]
        fr == f[FrontRight]
        br == f[BackRight]
        bl == f[BackLeft]
    IN  /\ fl + fr + br + bl = 4 * c.throttle
        /\ fl + bl - fr - br = 4 * c.roll
        /\ fl + fr - br - bl = 4 * c.pitch
        /\ fr + bl - fl - br = 4 * c.yaw
MixingBalanced ==
    [][\A c \in Controls :
         SetControl(c) /\ NaN \notin {c.throttle, c.roll, c.pitch, c.yaw}
           => Balanced(c)]_vars

\* Once the motors are disarmed for good, all four of them stop.
DisarmStops == <>[](range = Unarmed) => <>[](spinning = {})
=============================================================================
