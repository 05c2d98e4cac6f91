--------------------------- MODULE GyroResetProofs ---------------------------
(***************************************************************************)
(* Theorems about GyroReset: what goes wrong in Sensors::reset goes wrong  *)
(* only when it meets an addition under way.                               *)
(***************************************************************************)
EXTENDS GyroReset, TLAPS

USE DEF Axis, Roll, Pitch

\* The receiver has not yet come to the angle of axis a.
Pending(a) ==
    \/ ResetAt("value") /\ resetting.axis <= a
    \/ ResetAt("prev") /\ resetting.axis < a

\* The operands are loaded in an addition only, and both before it is stored.
Registers ==
    /\ at.step \notin {"load", "storeValue"} => sum = None /\ previous = None
    /\ MainAt("storeValue") => sum # None /\ previous # None

\* NaN in an angle, in what an addition has loaded or is about to load.
NaNRaced ==
    /\ \A a \in Axis : value[a] = NaN => a \in raced
    /\ NaN \in {sum, previous} => at.axis \in raced
    /\ MainAt("load") /\ prev[at.axis] = NaN => at.axis \in raced

\* The same for what has been summed up before the reset.
OldRaced ==
    /\ \A a \in Axis : value[a] = "old" => a \in raced \/ Pending(a)
    /\ sum = "old" => at.axis \in raced \/ Pending(at.axis)

ResetInv == TypeOK /\ Registers /\ NaNRaced /\ OldRaced

LEMMA ResetInit == Init => ResetInv
  BY NaNAssumption, NoneAssumption
  DEF Init, ResetInv, TypeOK, Registers, NaNRaced, OldRaced, Angle, Number,
      MainStep, ResetStep, MainAt

LEMMA ResetNext == ResetInv /\ [Next]_vars => ResetInv'
<1> SUFFICES ASSUME ResetInv, [Next]_vars PROVE ResetInv'
  OBVIOUS
<1> USE NaNAssumption, NoneAssumption
    DEF ResetInv, TypeOK, Registers, NaNRaced, OldRaced, Pending, Angle,
        Number, MainStep, ResetStep, MainAt, MainTo, ResetAt, ResetTo,
        mainVars
<1>1. CASE Test
  BY <1>1 DEF Test, Adds
<1>2. CASE LoadSum
  BY <1>2 DEF LoadSum
<1>3. CASE LoadPrevious
  BY <1>3 DEF LoadPrevious
<1>4. CASE Loaded
  BY <1>4 DEF Loaded
<1>5. CASE StoreValue
  BY <1>5 DEF StoreValue, Sum
<1>6. CASE StorePrev
  BY <1>6 DEF StorePrev
<1>7. CASE Filter
  BY <1>7 DEF Filter
<1>8. CASE NextPeriod
  BY <1>8 DEF NextPeriod
<1>9. CASE Reset
  BY <1>9 DEF Reset, Aged
<1>10. CASE StoreZero
  <2>1. TypeOK' /\ Registers'
    BY <1>10 DEF StoreZero, ResetValue, Adding
  <2>2. NaNRaced'
    BY <1>10 DEF StoreZero, ResetValue, Adding
  <2>3. OldRaced'
    BY <1>10 DEF StoreZero, ResetValue, Adding
  <2> QED
    BY <2>1, <2>2, <2>3
<1>11. CASE StoreNaN
  <2>1. TypeOK' /\ Registers'
    <3>1. resetting.axis \in Axis /\ prev' \in [Axis -> Number]
      BY <1>11 DEF StoreNaN
    <3>2. raced' \subseteq Axis
      BY <1>11, <3>1 DEF StoreNaN
    <3>3. resetting' \in [step : ResetStep, axis : Axis]
      BY <1>11 DEF StoreNaN
    <3> QED
      BY <1>11, <3>1, <3>2, <3>3 DEF StoreNaN
  <2>2. NaNRaced'
    BY <1>11 DEF StoreNaN, Adding
  <2>3. OldRaced'
    BY <1>11 DEF StoreNaN, Adding
  <2> QED
    BY <2>1, <2>2, <2>3
<1>12. CASE UNCHANGED vars
  BY <1>12 DEF vars
<1> QED
  BY <1>1, <1>2, <1>3, <1>4, <1>5, <1>6, <1>7, <1>8, <1>9, <1>10, <1>11, <1>12
  DEF Next, Main, Receiver

\* Every variable keeps its type, a NaN being one of the values of each angle.
THEOREM ResetTyped == Spec => []TypeOK
<1>1. ResetInv => TypeOK
  BY DEF ResetInv
<1> QED
  BY <1>1, ResetInit, ResetNext, PTL DEF Spec

\* Without a race no angle becomes NaN, and a reset without one cures it.
THEOREM NaNOnlyRaced == Spec => []NaNOnlyByRace
<1>1. ResetInv => NaNOnlyByRace
  BY DEF ResetInv, NaNRaced, NaNOnlyByRace
<1> QED
  BY <1>1, ResetInit, ResetNext, PTL DEF Spec

\* A reset that meets no addition takes effect on both axes.
THEOREM ResetTakesEffect == Spec => []ResetForgets
<1>1. ResetInv => ResetForgets
  BY DEF ResetInv, OldRaced, Pending, ResetAt, ResetForgets
<1> QED
  BY <1>1, ResetInit, ResetNext, PTL DEF Spec
==============================================================================
