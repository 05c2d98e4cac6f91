SPECIFICATION Spec
CONSTANTS
    None = None
    NaN = NaN
    Nobody = Nobody
    DebugChecks = TRUE
    Packets <- MCControlPackets
    Attitudes <- MCAttitudes
    Default <- MCDefault
INVARIANTS
    TypeOK
    LockDiscipline
    EmergencyStop
    OneConfigOneCommand
PROPERTIES
    LandingDropsWindup
    ControlAtomic
