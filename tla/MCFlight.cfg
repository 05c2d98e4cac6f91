SPECIFICATION FairSpec
CONSTANTS
    None = None
    NaN = NaN
    Nobody = Nobody
    DebugChecks = TRUE
    Packets <- MCFlightPackets
    Attitudes <- MCLevelOnly
    Default <- MCDefault
PROPERTIES
    PacketHandled
    LinkLossDetected
    CommandReachesMotors
    TelemetryServed
    CrashDisarms
