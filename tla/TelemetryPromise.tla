--------------------------- MODULE TelemetryPromise ---------------------------
(***************************************************************************)
(* What the telemetry promises to its client, with neither threads nor     *)
(* mutexes: a configuration takes effect in one step, resolution of the    *)
(* name included; a stream is in the packet once it has been reported      *)
(* while it was enabled; and a datagram is what the packet was, and goes   *)
(* to who the client was, at one moment.  FlightTelemetry says how         *)
(* FlightProgram keeps the promise.                                        *)
(***************************************************************************)
CONSTANTS
    None,         \* as in FlightProgram
    DebugChecks,
    Unset,        \* the configuration after a start
    Configs       \* what the ground station may send

VARIABLES
    config,   \* the streams and the client in force
    client,   \* the address that datagrams go to
    report,   \* the streams in the packet
    sending   \* a datagram is on its way to the network

vars == <<config, client, report, sending>>

Address(c) == [host |-> c.host, port |-> c.port]

Init ==
    /\ config = Unset
    /\ client = Address(Unset)
    /\ report = {}
    /\ sending = FALSE

\* A host that stays keeps its old port.
SetConfig ==
    /\ ~sending
    /\ config' \in Configs
    /\ client' = IF config'.host = config.host THEN client ELSE Address(config')
    /\ UNCHANGED <<report, sending>>

Report ==
    /\ ~sending
    /\ \E s \in config.enabled : report' = report \cup {s}
    /\ UNCHANGED <<config, client, sending>>

\* Nothing is sent to nobody, nor, where libprotobuf checks, without the fields
\* that are required.
Serialize ==
    /\ ~sending
    /\ client.host # None
    /\ ~(DebugChecks /\ "switches" \in report)
    /\ sending' = TRUE
    /\ UNCHANGED <<config, client, report>>

Sent ==
    /\ sending
    /\ sending' = FALSE
    /\ UNCHANGED <<config, client, report>>

\* The program stops, and begins again.
Restart ==
    /\ config' = Unset
    /\ client' = Address(Unset)
    /\ report' = {}
    /\ sending' = FALSE

Next ==
    \/ SetConfig
    \/ Report
    \/ Serialize
    \/ Sent
    \/ Restart

Spec == Init /\ [][Next]_vars
=============================================================================
