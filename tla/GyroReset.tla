----------------------------- MODULE GyroReset -----------------------------
(***************************************************************************)
(* Sensors::reset against Integrator::integrate, one load or store at a    *)
(* time.  The main thread integrates the two gyroscopes in every period;   *)
(* the receiver resets both integrators, without any mutex, when a packet  *)
(* disarms the motors.  FlightProgram takes the outcome as one choice of   *)
(* ResetSensors.                                                           *)
(***************************************************************************)
EXTENDS Naturals

CONSTANTS
    NaN,       \* the floating-point value that no arithmetic gets rid of
    None,      \* a register that holds nothing
    Filtered   \* the time constant of the high-pass filters is not zero

ASSUME FilteredAssumption == Filtered \in BOOLEAN
ASSUME NaNAssumption == NaN \notin {"zero", "fresh", "old", "number"}
ASSUME NoneAssumption == None \notin {"zero", "fresh", "old", "number", NaN}

\* The two axes, in the order in which both threads take them.
Axis == {1, 2}
Roll == 1
Pitch == 2

\* An integrated angle is known by what it sums up: nothing, turns since the
\* last reset, or turns from before that reset.
Angle == {"zero", "fresh", "old", NaN}
Number == {"number", NaN}

VARIABLES
    value, prev,   \* the fields of each gyroscope's Integrator
    low,           \* HighPass::lowpass.value of each axis
    at,            \* where the main thread is, and the axis it works on
    sum, previous, \* the operands that the main thread has loaded
    resetting,     \* where the receiver is, and the axis it works on
    raced          \* the axes whose last reset hit an addition under way

vars == <<value, prev, low, at, sum, previous, resetting, raced>>
mainVars == <<at, sum, previous>>

MainStep == {"test", "load", "storeValue", "storePrev", "filter", "rest"}
ResetStep == {"idle", "value", "prev"}

TypeOK ==
    /\ value \in [Axis -> Angle]
    /\ prev \in [Axis -> Number]
    /\ low \in [Axis -> Number]
    /\ at \in [step : MainStep, axis : Axis]
    /\ sum \in Angle \cup {None}
    /\ previous \in Number \cup {None}
    /\ resetting \in [step : ResetStep, axis : Axis]
    /\ raced \subseteq Axis

Init ==
    /\ value = [a \in Axis |-> "zero"]
    /\ prev = [a \in Axis |-> NaN]
    /\ low = [a \in Axis |-> "number"]
    /\ at = [step |-> "test", axis |-> Roll]
    /\ sum = None
    /\ previous = None
    /\ resetting = [step |-> "idle", axis |-> Roll]
    /\ raced = {}

MainAt(step) == at.step = step
MainTo(step, a) == at' = [step |-> step, axis |-> a]
ResetAt(step) == resetting.step = step
ResetTo(step, a) == resetting' = [step |-> step, axis |-> a]

(***************************************************************************)
(* Integrator::integrate, for roll and then for pitch: the first sample    *)
(* after a reset is not added.                                             *)
(***************************************************************************)
AddsAlways(p) == TRUE
Adds(p) == p # NaN

Test ==
    /\ MainAt("test")
    /\ MainTo(IF Adds(prev[at.axis]) THEN "load" ELSE "storePrev", at.axis)
    /\ UNCHANGED <<value, prev, low, sum, previous, resetting, raced>>

\* `this->value += (value.value + prev) * dt / 2.' loads its two operands, in
\* the order that the compiler chooses.
LoadSum ==
    /\ MainAt("load")
    /\ sum = None
    /\ sum' = value[at.axis]
    /\ UNCHANGED <<value, prev, low, at, previous, resetting, raced>>

LoadPrevious ==
    /\ MainAt("load")
    /\ previous = None
    /\ previous' = prev[at.axis]
    /\ UNCHANGED <<value, prev, low, at, sum, resetting, raced>>

Loaded ==
    /\ MainAt("load")
    /\ None \notin {sum, previous}
    /\ MainTo("storeValue", at.axis)
    /\ UNCHANGED <<value, prev, low, sum, previous, resetting, raced>>

Sum(v, p) ==
    IF NaN \in {v, p} THEN NaN ELSE IF v = "old" THEN "old" ELSE "fresh"

StoreValue ==
    /\ MainAt("storeValue")
    /\ value' = [value EXCEPT ![at.axis] = Sum(sum, previous)]
    /\ sum' = None
    /\ previous' = None
    /\ MainTo("storePrev", at.axis)
    /\ UNCHANGED <<prev, low, resetting, raced>>

StorePrev ==
    /\ MainAt("storePrev")
    /\ prev' = [prev EXCEPT ![at.axis] = "number"]
    /\ IF at.axis = Roll THEN MainTo("test", Pitch) ELSE MainTo("filter", Roll)
    /\ UNCHANGED <<value, low, sum, previous, resetting, raced>>

(***************************************************************************)
(* HighPass::highpass: a low-pass filter, whose last output goes into the  *)
(* next one unless its time constant is zero, is taken off the angle.  The *)
(* axis of the attitude is NaN exactly when the low-pass filter's value is.*)
(***************************************************************************)
Filter ==
    /\ MainAt("filter")
    /\ low' = [low EXCEPT ![at.axis] =
                 IF value[at.axis] = NaN \/ (Filtered /\ low[at.axis] = NaN)
                 THEN NaN ELSE "number"]
    /\ IF at.axis = Roll THEN MainTo("filter", Pitch) ELSE MainTo("rest", Roll)
    /\ UNCHANGED <<value, prev, sum, previous, resetting, raced>>

\* The rest of the period: the controller, the telemetry, usleep.
NextPeriod ==
    /\ MainAt("rest")
    /\ MainTo("test", Roll)
    /\ UNCHANGED <<value, prev, low, sum, previous, resetting, raced>>

(***************************************************************************)
(* Sensors::reset: two stores for roll, then two for pitch.                *)
(***************************************************************************)
\* A reset makes what has been summed up so far a thing of the past.
Aged(v) == IF v = "fresh" THEN "old" ELSE v

Reset ==
    /\ ResetAt("idle")
    /\ ResetTo("value", Roll)
    /\ value' = [a \in Axis |-> Aged(value[a])]
    /\ sum' = Aged(sum)
    /\ UNCHANGED <<prev, low, at, previous, raced>>

Adding(a) == at.step \in {"load", "storeValue"} /\ at.axis = a

ResetValueKept(a) == value
ResetValue(a) == [value EXCEPT ![a] = "zero"]

StoreZero ==
    /\ ResetAt("value")
    /\ value' = ResetValue(resetting.axis)
    /\ raced' = IF Adding(resetting.axis) THEN raced \cup {resetting.axis}
                ELSE raced \ {resetting.axis}
    /\ ResetTo("prev", resetting.axis)
    /\ UNCHANGED <<prev, low, mainVars>>

StoreNaN ==
    /\ ResetAt("prev")
    /\ prev' = [prev EXCEPT ![resetting.axis] = NaN]
    /\ raced' = IF Adding(resetting.axis) THEN raced \cup {resetting.axis}
                ELSE raced
    /\ IF resetting.axis = Roll THEN ResetTo("value", Pitch)
       ELSE ResetTo("idle", Roll)
    /\ UNCHANGED <<value, low, mainVars>>

Main ==
    \/ Test
    \/ LoadSum
    \/ LoadPrevious
    \/ Loaded
    \/ StoreValue
    \/ StorePrev
    \/ Filter
    \/ NextPeriod

Receiver == Reset \/ StoreZero \/ StoreNaN

Next == Main \/ Receiver

Spec == Init /\ [][Next]_vars

(***************************************************************************)
(* Properties.                                                             *)
(***************************************************************************)
\* Integrator: without a race no angle is NaN, though every reset stores NaN
\* beside the angle; and a reset that meets no addition cures one that is.
NaNOnlyByRace == \A a \in Axis : value[a] = NaN => a \in raced

\* Sensors::reset: after a reset that meets no addition, the angles only
\* contain what the vehicle has turned since, on both axes.
ResetForgets ==
    ResetAt("idle") => \A a \in Axis : value[a] = "old" => a \in raced
=============================================================================
