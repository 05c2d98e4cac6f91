------------------------------ MODULE PidChannel ------------------------------
(***************************************************************************)
(* One PID of the controller over its samples: the integral, which is      *)
(* limited, and the low-pass filter before the derivative.  A sample of    *)
(* the main loop computes the PID or, in an emergency stop and before the  *)
(* first configuration, skips it; the receiver configures and resets it.   *)
(* The PID's mutex makes each of these one step.                           *)
(*                                                                         *)
(* Errors are whole numbers, time is in periods of the loop, and Ki is     *)
(* given by 2/Ki, so that the integral, counted double, is limited to      *)
(* whole numbers.  The time constant is in units in which K = dt/T.        *)
(***************************************************************************)
EXTENDS Integers

CONSTANTS
    None,      \* no configuration; no limit, for Ki = 0
    NaN,       \* Integrator::prev before the first sample
    MaxError,  \* the largest error
    Errors,    \* command minus attitude
    Limits,    \* 2/Ki, for Ki other than 0
    Constants, \* the time constants Td
    MaxGap,    \* bound: periods between two computations, and the uptime
    MaxSum     \* bound: the integral with Ki = 0, counted double

ASSUME NoneAssumption == None \notin Int /\ NaN \notin Int
ASSUME ErrorsAssumption ==
    MaxError \in Nat \ {0} /\ Errors \subseteq -MaxError .. MaxError
ASSUME LimitsAssumption == Limits \subseteq Int \ {0}
ASSUME ConstantsAssumption == Constants \subseteq Nat
ASSUME BoundsAssumption == MaxGap \in Nat \ {0} /\ MaxSum \in Nat

Params == [limit : Limits \cup {None}, T : Constants]

VARIABLES
    params,   \* the configuration
    integ,    \* the Integrator; its value counted double
    low_pass, \* low_pass.value, which the derivative is taken of
    since,    \* periods since its timestamp
    share,    \* integ_factor.value, as the fraction that it is
    earned,   \* history: the time from the first sample since the last reset to
              \* the latest one
    inverted, \* history: a negative Ki was in force since the last reset
    overdue   \* history: a sample came later than T after the one before

vars == <<params, integ, low_pass, since, share, earned, inverted, overdue>>

TypeOK ==
    /\ params \in Params \cup {None}
    /\ integ \in [value : Int, prev : Errors \cup {NaN}]
    /\ low_pass \in Int
    /\ since \in 1 .. MaxGap
    /\ share \in [value : Int, limit : Limits \cup {None}]
    /\ earned \in (0 .. MaxSum) \cup {None}
    /\ inverted \in BOOLEAN
    /\ overdue \in BOOLEAN

\* The difference to a time that was never set is the uptime.
Init ==
    /\ params = None
    /\ integ = [value |-> 0, prev |-> NaN]
    /\ low_pass = 0
    /\ since = MaxGap
    /\ share = [value |-> 0, limit |-> None]
    /\ earned = None
    /\ inverted = FALSE
    /\ overdue = FALSE

\* PID::setParams
SetParams(p) ==
    /\ params' = p
    /\ UNCHANGED <<integ, low_pass, since, share, earned, inverted, overdue>>

\* PID::reset, for a command to land
ResetSumOnly == [integ EXCEPT !.value = 0]
ResetInteg == [value |-> 0, prev |-> NaN]
Reset ==
    /\ integ' = ResetInteg
    /\ earned' = None
    /\ inverted' = FALSE
    /\ UNCHANGED <<params, low_pass, since, share, overdue>>

\* An emergency stop leaves the PIDs alone.
Skip ==
    /\ params # None
    /\ since < MaxGap
    /\ since' = since + 1
    /\ UNCHANGED <<params, integ, low_pass, share, earned, inverted, overdue>>

\* Value::limit
LimitedAbove(v, min, max) == IF v > max THEN max ELSE v
Limited(v, min, max) == IF v < min THEN min ELSE IF v > max THEN max ELSE v

\* Integrator::integrate, and the limit to 1/Ki on both sides.
Added(v) == IF integ.prev = NaN THEN 0 ELSE (v + integ.prev) * since
KeptWhole(sum) == sum
Kept(sum) ==
    IF params.limit = None THEN sum ELSE Limited(sum, -params.limit, params.limit)

IntegratedSum(v) ==
    [value |-> Kept(integ.value + Added(v)), prev |-> Kept(integ.value + Added(v))]
Integrated(v) == [value |-> Kept(integ.value + Added(v)), prev |-> v]

\* LowPass::lowpass, which rounds down here and to the nearest float there
SmoothedAway(v) ==
    IF params.T = 0 THEN v
    ELSE ((params.T + since) * low_pass + since * v) \div params.T
Smoothed(v) ==
    IF params.T = 0 THEN v
    ELSE ((params.T - since) * low_pass + since * v) \div params.T

\* PID::pid with the error v
Pid(v) ==
    /\ params # None
    /\ integ' = Integrated(v)
    /\ integ'.value \in -MaxSum .. MaxSum
    /\ low_pass' = Smoothed(v)
    /\ since' = 1
    /\ share' = [value |-> integ'.value, limit |-> params.limit]
    /\ earned' = IF earned = None THEN 0
                 ELSE IF earned + since > MaxSum THEN MaxSum ELSE earned + since
    /\ inverted' = (inverted \/ (params.limit # None /\ params.limit < 0))
    /\ overdue' = (params.T # 0 /\ (overdue \/ since > params.T))
    /\ UNCHANGED params

Next ==
    \/ \E p \in Params : SetParams(p)
    \/ Reset
    \/ Skip
    \/ \E v \in Errors : Pid(v)

Spec == Init /\ [][Next]_vars

(***************************************************************************)
(* Properties.                                                             *)
(***************************************************************************)
Magnitude(n) == IF n < 0 THEN -n ELSE n

\* PID::pid: the integral's share of the output is never above one, however
\* the gain, of either sign, has changed and however much had been summed up
\* under the gains before.
ShareBounded ==
    share.limit # None => Magnitude(share.value) <= Magnitude(share.limit)

\* PID::pid limits the integral and not its share: a saturated share is left
\* with the first two errors of the other sign.
Saturated == share.limit # None /\ share.limit > 0 /\ share.value >= share.limit
DesaturatesAtOnce ==
    [][\A v \in Errors :
         (/\ Pid(v)
          /\ Saturated /\ params.limit = share.limit
          /\ integ.prev # NaN /\ integ.prev + v < 0) => ~Saturated']_vars

\* Controller::setCommand, `Need to reset the integrator': whatever happened
\* before the last reset, emergency stops included, the integral is only worth
\* the time integrated since; unless a negative Ki has saturated it.
Integrating == IF earned = None THEN 0 ELSE earned
IntegralEarned ==
    inverted \/ Magnitude(integ.value) <= 2 * MaxError * Integrating

\* LowPass::lowpass: what the derivative is taken of lies among the errors, as
\* long as no sample came later than the time constant after the one before,
\* as the first one does, and the first one after an emergency stop.
FilterInRange == overdue \/ low_pass \in -MaxError .. MaxError
=============================================================================
