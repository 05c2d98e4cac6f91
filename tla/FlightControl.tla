---------------------------- MODULE FlightControl ----------------------------
(***************************************************************************)
(* FlightProgram keeps ControlPromise.  A configuration counts from the    *)
(* moment Controller::setConfig stores it, though the PIDs get their       *)
(* parameters later; a landing command empties all integrals when it is    *)
(* stored, though they are reset one by one; a control counts when         *)
(* Motors::setControl drives the motors.                                   *)
(***************************************************************************)
EXTENDS FlightProgram

WoundAxes ==
    IF pc["receiver"] = "reset" THEN {}
    ELSE {a \in Axis : integ[a].sum # "zero"}

Promise == INSTANCE ControlPromise WITH
    NoCommand <- EmptyCommand,
    Configs <- {p.controller_config :
                  p \in {q \in Packets : q.controller_config # None}},
    Commands <- {p.command : p \in {q \in Packets : q.command # None}},
    wound <- WoundAxes,
    control <- duty.control

\* Controller: whatever the threads interleave, setConfig, setCommand with its
\* resets, and setAttitude with its four PIDs each look like one step to the
\* vehicle, and the motors are stopped exactly beyond the limits.
ControlAtomic == Promise!Spec
=============================================================================
