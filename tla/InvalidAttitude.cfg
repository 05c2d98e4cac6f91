SPECIFICATION Spec
CONSTANTS
    None = None
    NaN = NaN
    Nobody = Nobody
    DebugChecks = TRUE
    Packets <- MCDisarmPackets
    Attitudes <- MCLevelOnly
    Default <- MCDefault
INVARIANTS
    InvalidAttitudeStops
