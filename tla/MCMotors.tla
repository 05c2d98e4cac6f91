------------------------------ MODULE MCMotors ------------------------------
(***************************************************************************)
(* Small instances of Motors: throttles and duty cycles in quarters.       *)
(***************************************************************************)
EXTENDS Motors

Given(g, r, p, y) == [throttle |-> g, roll |-> r, pitch |-> p, yaw |-> y]

\* Hover, a turn, a control that asks some motors for less than nothing and
\* others for more than full throttle, and an invalid one.
MCControls ==
    {Given(3, 0, 0, 0), Given(1, 0, 1, 1), Given(2, 3, -1, 0),
     Given(3, NaN, 0, 0)}

\* Disarmed, and armed with two ceilings over the same floor.
MCConfigs ==
    {Unarmed, [min |-> 2, max |-> 3], [min |-> 2, max |-> 4]}

ASSUME FloorAssumption == FloorKept
=============================================================================
