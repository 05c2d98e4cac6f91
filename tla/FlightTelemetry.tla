---------------------------- MODULE FlightTelemetry ----------------------------
(***************************************************************************)
(* FlightProgram keeps TelemetryPromise.  A configuration counts from the  *)
(* moment Telemetry::setConfig stores it, though its host is resolved      *)
(* later; a datagram is under way from its serialization to the return of  *)
(* DatagramSocket::send.                                                   *)
(***************************************************************************)
EXTENDS FlightProgram

Client == IF pc["receiver"] = "connect" THEN tconfig ELSE peer

Datagrams == INSTANCE TelemetryPromise WITH
    Unset <- EmptyTelemetryConfig,
    Configs <- {p.telemetry_config :
                  p \in {q \in Packets : q.telemetry_config # None}},
    config <- tconfig,
    client <- [host |-> Client.host, port |-> Client.port],
    sending <- pc["telemetry"] = "send"

\* Telemetry: whatever the threads interleave, setConfig with its lookup looks
\* like one step, and no configuration and no report comes between the
\* serialization of a datagram and its sending.
TelemetryAtomic == Datagrams!Spec
=============================================================================
