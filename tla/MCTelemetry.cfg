SPECIFICATION Spec
CONSTANTS
    None = None
    NaN = NaN
    Nobody = Nobody
    DebugChecks = FALSE
    Packets <- MCTelemetryPackets
    Attitudes <- MCLevelOnly
    Default <- MCDefault
INVARIANTS
    NoDeadlock
    PeerMatchesHost
    NoLostWakeup
PROPERTIES
    TelemetryAtomic
