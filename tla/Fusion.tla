------------------------------- MODULE Fusion -------------------------------
(***************************************************************************)
(* The roll angle of Sensors::run (pitch is the same code): the integrated *)
(* gyroscope through a high-pass filter plus the accelerometer's angle     *)
(* through a low-pass filter.  The accelerometer's angle wraps round at    *)
(* half a turn, the integrated gyroscope does not; a vehicle turns through *)
(* any angle.  Angles are whole numbers; a filter's output is rounded      *)
(* down, where the code rounds to the nearest float.  The clock is read    *)
(* twice in a period, always the same time apart, so that both filters see *)
(* the same time difference.                                               *)
(***************************************************************************)
EXTENDS Integers

CONSTANTS
    NaN,       \* Integrator::prev before the first sample
    Angles,    \* the angles that the vehicle may be at
    Rates,     \* the rates at which it may turn, as the gyroscope sees them
    Periods,   \* how long a period of the loop may take
    Uptimes,   \* CLOCK_MONOTONIC_RAW at the first sample
    Constants, \* accel_lowpass_constant: the time constants T
    HalfTurn   \* pi

ASSUME NaNAssumption == NaN \notin Int
ASSUME AnglesAssumption == Angles \subseteq Int
ASSUME RatesAssumption == Rates \subseteq {r \in Int : r % 2 = 0}
ASSUME PeriodsAssumption == Periods \subseteq Nat \ {0}
ASSUME UptimesAssumption == Uptimes \subseteq Nat \ {0}
ASSUME ConstantsAssumption == Constants \subseteq Nat
ASSUME HalfTurnAssumption == HalfTurn \in Nat \ {0}

VARIABLES
    angle, rate,      \* how the vehicle is turned and turning
    gyro,             \* roll_gyro, an Integrator
    accel_lowpass,    \* roll_accel_lowpass.value
    gyro_lowpass,     \* roll_gyro_highpass.lowpass.value
    T, apply_modulo,  \* the configuration
    roll,             \* the attitude that the controller gets
    sampled           \* the filters have a timestamp

vars == <<angle, rate, gyro, accel_lowpass, gyro_lowpass, T, apply_modulo,
          roll, sampled>>
motion == <<angle, rate>>
filters == <<gyro, accel_lowpass, gyro_lowpass, roll, sampled>>

TypeOK ==
    /\ angle \in Angles
    /\ rate \in Rates
    /\ gyro \in [value : Int, prev : Rates \cup {NaN}]
    /\ accel_lowpass \in Int
    /\ gyro_lowpass \in Int
    /\ T \in Constants
    /\ apply_modulo \in BOOLEAN
    /\ roll \in Int
    /\ sampled \in BOOLEAN

Init ==
    /\ angle \in Angles
    /\ rate \in Rates
    /\ gyro = [value |-> 0, prev |-> NaN]
    /\ accel_lowpass = 0
    /\ gyro_lowpass = 0
    /\ T \in Constants
    /\ apply_modulo = FALSE
    /\ roll = 0
    /\ sampled = FALSE

(***************************************************************************)
(* Value.cpp and Timestamp.cpp.                                            *)
(***************************************************************************)
\* Integrator::integrate
Turned(from, to, dt) == ((from + to) * dt) \div 2
IntegratedSum(i, x, dt) ==
    [value |-> IF i.prev = NaN THEN i.value ELSE i.value + Turned(i.prev, x, dt),
     prev |-> IF i.prev = NaN THEN x ELSE i.value + Turned(i.prev, x, dt)]
Integrated(i, x, dt) ==
    [value |-> IF i.prev = NaN THEN i.value ELSE i.value + Turned(i.prev, x, dt),
     prev |-> x]

\* LowPass::lowpass, with K = (23 * dt) / (10 * T).
Gain(dt) == 23 * dt
SmoothedAway(v, x, dt) ==
    IF T = 0 THEN x
    ELSE ((10 * T + Gain(dt)) * v + Gain(dt) * x) \div (10 * T)
SmoothedLate(v, x, dt) ==
    IF T = 0 THEN x
    ELSE ((10 * T - Gain(0)) * v + Gain(0) * x) \div (10 * T)
Smoothed(v, x, dt) ==
    IF T = 0 THEN x
    ELSE ((10 * T - Gain(dt)) * v + Gain(dt) * x) \div (10 * T)

Whole == 2 * HalfTurn

\* atan2f: the accelerometer's reading of an angle, above -pi and up to pi.
Reading(a) == ((a + HalfTurn - 1) % Whole) - HalfTurn + 1

\* The modulo of Sensors::run: full turns off until the angle is in range.
Limited(v) ==
    CASE v > HalfTurn -> ((v - HalfTurn - 1) % Whole) - HalfTurn + 1
      [] v < -HalfTurn -> ((v + HalfTurn) % Whole) - HalfTurn
      [] OTHER -> v

(***************************************************************************)
(* One period of Sensors::run, after which the vehicle is at angle a and   *)
(* turns at rate r.                                                        *)
(***************************************************************************)
HighPassedLow(g, low) == low
HighPassed(g, low) == g - low

Measure(a, r, dt) ==
    /\ angle' = a
    /\ rate' = r
    /\ gyro' = Integrated(gyro, r, dt)
    /\ accel_lowpass' = Smoothed(accel_lowpass, Reading(a), dt)
    /\ gyro_lowpass' = Smoothed(gyro_lowpass, gyro'.value, dt)
    /\ LET sum == HighPassed(gyro'.value, gyro_lowpass') + accel_lowpass'
       IN  roll' = IF apply_modulo THEN Limited(sum) ELSE sum
    /\ sampled' = TRUE
    /\ UNCHANGED <<T, apply_modulo>>

\* The difference to a time that is unset is not NaN but the uptime.
FirstSample(uptime) ==
    /\ ~sampled
    /\ Measure(angle, rate, uptime)

Sample(r, dt) ==
    /\ sampled
    /\ angle + Turned(rate, r, dt) \in Angles
    /\ Measure(angle + Turned(rate, r, dt), r, dt)

\* Sensors::setConfig
SetConfig(t, m) ==
    /\ T' = t
    /\ apply_modulo' = m
    /\ UNCHANGED <<motion, filters>>

\* Sensors::reset, between two samples; GyroReset has it within one.
Reset ==
    /\ gyro' = [value |-> 0, prev |-> NaN]
    /\ UNCHANGED <<motion, accel_lowpass, gyro_lowpass, roll, sampled, T,
                   apply_modulo>>

Run ==
    \/ \E uptime \in Uptimes : FirstSample(uptime)
    \/ \E r \in Rates, dt \in Periods : Sample(r, dt)

Next ==
    \/ Run
    \/ \E t \in Constants, m \in BOOLEAN : SetConfig(t, m)
    \/ Reset

Spec == Init /\ [][Next]_vars

\* The main thread never stops sampling.
FairSpec == Spec /\ WF_vars(Run)

(***************************************************************************)
(* Properties.                                                             *)
(***************************************************************************)
Magnitude(n) == IF n < 0 THEN -n ELSE n

\* How far the gyroscope is off the accelerometer: where it was reset, what it
\* could not add, and full turns; and how far the sum of the two filters is off
\* the accelerometer's angle.
Offset == Reading(angle) - gyro.value
Error == accel_lowpass - gyro_lowpass - Offset

\* The full turns that the accelerometer does not see.
Unseen == angle - Reading(angle)

\* What a sample moves the one angle and not the other: full turns if the
\* gyroscope adds the sample, else all that the accelerometer sees.
Parted == IF gyro.prev = NaN THEN Reading(angle) - Reading(angle')
          ELSE Unseen' - Unseen

\* A sample multiplies e by 1 - K, but for two roundings.
Scaled(e, dt) ==
    IF T = 0 THEN Error' = 0
    ELSE 10 * T * Magnitude(Error')
           < Magnitude(10 * T - Gain(dt)) * Magnitude(e) + 10 * T

\* The two filters are complementary: a turn that both sensors see, however wild,
\* adds nothing to the error, and a sample multiplies it by 1 - K.  It decays
\* with K below 2 and grows with a sample later than that; past half a turn it is
\* a full turn more, and the attitude sweeps through all angles as that decays.
ErrorScaled ==
    [][/\ \A uptime \in Uptimes : FirstSample(uptime) => Scaled(Error, uptime)
       /\ \A r \in Rates, dt \in Periods :
            Sample(r, dt) => Scaled(Error + Parted, dt)]_vars

\* What the controller gets is the accelerometer's angle and that error; with
\* `Limit the angles between -PI and PI' it is the vehicle's angle and that error,
\* off by full turns, and within half a turn.
RollLimited ==
    [][Run =>
         IF apply_modulo
         THEN /\ roll' \in -HalfTurn .. HalfTurn
              /\ (roll' - angle' - Error') % Whole = 0
         ELSE roll' = Reading(angle') + Error']_vars

\* A sample that both sensors see alike, and that is not so late that K is 2.
InBand(dt) ==
    /\ gyro.prev # NaN
    /\ Unseen' = Unseen
    /\ T > 0
    /\ Gain(dt) < 20 * T

\* Once nobody resets the gyroscopes or configures the filters and the vehicle
\* does not turn past half a turn any more, the attitude comes as close to the
\* vehicle's as one sample lets it.
Settled ==
    /\ T > 0
    /\ \E dt \in Periods :
         /\ Gain(dt) < 20 * T
         /\ Magnitude(Error) * (10 * T - Magnitude(10 * T - Gain(dt))) < 10 * T
ErrorSettles ==
    <>[][\E r \in Rates, dt \in Periods : Sample(r, dt) /\ InBand(dt)]_vars
        => <>[]Settled
=============================================================================
