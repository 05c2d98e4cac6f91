-------------------------- MODULE MCFlightProgram --------------------------
(***************************************************************************)
(* Small instances of FlightProgram: what the ground station may send and  *)
(* what the sensors may measure, one set for each kind of question.        *)
(***************************************************************************)
EXTENDS FlightControl, FlightTelemetry

Limits(g, inclinaison, altitude, yaw_rate) ==
    [gains |-> g, max_inclinaison |-> inclinaison, max_altitude |-> altitude,
     max_yaw_rate |-> yaw_rate]

MCDefault == Limits("default", 1, 1, 1)

\* The sensors never measure the altitude: it stays 0.
Level == <<0, 0, 0, 0>>
Tilted == <<0, -2, 0, 0>>
MCAttitudes == {Level, Tilted}

Climb == [id |-> "climb", altitude |-> 1]
Land == [id |-> "land", altitude |-> 0]
Turn == [id |-> "turn", altitude |-> None]

ControllerOnly(c) == [EmptyPacket EXCEPT !.controller_config = c]
TelemetryOnly(h, p, S) ==
    [EmptyPacket EXCEPT !.telemetry_config =
       [host |-> h, port |-> p, enabled |-> S]]

Arm == [min |-> 5, max |-> 10]
Disarm == [min |-> 5, max |-> 5]

\* Controller and commands: two configurations, one without a yaw limit.  Each
\* comes with a command, one of them with all that follows in a dispatch but
\* the telemetry, the reset of the sensors included.
Tuned == Limits("tuned", 1, 0, None)
MCControlPackets ==
    {[command |-> Land, controller_config |-> Tuned, telemetry_config |-> None,
      sensors_config |-> "filters", motors_config |-> Disarm],
     [ControllerOnly(MCDefault) EXCEPT !.command = Climb]}

\* Telemetry: two hosts, two ports of one of them, different streams, and a
\* packet that also has a command.
Home == TelemetryOnly("home", 1, {"command", "attitude"})
HomeMoved == TelemetryOnly("home", 2, {"control", "switches"})
Away == [TelemetryOnly("away", 1, Stream) EXCEPT !.command = Turn]
MCTelemetryPackets == {Home, HomeMoved, Away}

\* Liveness: a packet that resets the PIDs, names a client and arms the motors.
MCFlightPackets ==
    {[TelemetryOnly("home", 1, {"attitude"}) EXCEPT
        !.command = Land, !.motors_config = Arm]}
MCLevelOnly == {Level}

\* One kind of packet, for what the code does not do.
MCDisarmPackets == {[EmptyPacket EXCEPT !.motors_config = Disarm]}
=============================================================================
