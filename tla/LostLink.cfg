SPECIFICATION FairSpec
CONSTANTS
    None = None
    Datagrams = {"valid", "invalid"}
    Faults = FALSE
PROPERTIES
    LinkLossDetected
