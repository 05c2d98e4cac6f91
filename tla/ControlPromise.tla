---------------------------- MODULE ControlPromise ----------------------------
(***************************************************************************)
(* What the controller promises, with neither threads nor mutexes: a       *)
(* configuration, a command and a control each take effect in one step, a  *)
(* landing command forgets the flight before it at once, and the motors    *)
(* are driven from the configuration, the command and the attitude of that *)
(* moment.  FlightControl says how FlightProgram keeps the promise.        *)
(***************************************************************************)
EXTENDS Integers

CONSTANTS
    None, NaN,   \* as in FlightProgram
    Axis,        \* the four PIDs
    Roll, Pitch, YawRate, Altitude,
    Default,     \* the configuration and the command after a start
    NoCommand,
    Configs,     \* what the ground station may send
    Commands

VARIABLES
    config,    \* the limits and gains in force
    command,   \* the command in force
    attitude,  \* the last one measured
    wound,     \* the PIDs whose integral is not zero
    control    \* what the motors were last asked for

vars == <<config, command, attitude, wound, control>>

Init ==
    /\ config = Default
    /\ command = NoCommand
    /\ attitude = [a \in Axis |-> 0]
    /\ wound = {}
    /\ control = [a \in Axis |-> [gains |-> None, command |-> None,
                                  nan |-> FALSE]]

SetConfig ==
    /\ config' \in Configs
    /\ UNCHANGED <<command, attitude, wound, control>>

SetCommand ==
    /\ command' \in Commands
    /\ wound' = IF command'.altitude = 0 THEN {} ELSE wound
    /\ UNCHANGED <<config, attitude, control>>

Measure ==
    /\ attitude' \in [Axis -> Int \cup {NaN}]
    /\ UNCHANGED <<config, command, wound, control>>

\* NaN is beyond no limit.
Beyond(x, limit) == x # NaN /\ limit # None /\ ~(x \in -limit .. limit)
Unstable ==
    \/ \E a \in {Roll, Pitch} : Beyond(attitude[a], config.max_inclinaison)
    \/ Beyond(attitude[YawRate], config.max_yaw_rate)
    \/ config.max_altitude \notin {None, 0}
       /\ attitude[Altitude] > config.max_altitude

\* No PID integrates in an emergency stop.
Integrate(a) ==
    /\ ~Unstable
    /\ wound' = wound \cup {a}
    /\ UNCHANGED <<config, command, attitude, control>>

\* Drive the motors: all axes from one configuration and one command.
Computed ==
    [Axis -> [gains : {config.gains}, command : {command.id}, nan : BOOLEAN]]
Stopped ==
    [Axis -> [gains : {None}, command : {None}, nan : {FALSE}]]
Drive ==
    /\ control' \in IF Unstable THEN Stopped ELSE Computed
    /\ UNCHANGED <<config, command, attitude, wound>>

\* The program stops, and begins again: the motors keep what they have.
Restart ==
    /\ config' = Default
    /\ command' = NoCommand
    /\ attitude' = [a \in Axis |-> 0]
    /\ wound' = {}
    /\ UNCHANGED control

Next ==
    \/ SetConfig
    \/ SetCommand
    \/ Measure
    \/ \E a \in Axis : Integrate(a)
    \/ Drive
    \/ Restart

Spec == Init /\ [][Next]_vars
=============================================================================
