SPECIFICATION FairSpec
CONSTANTS
    None = None
    Datagrams = {"valid", "invalid"}
    Faults = TRUE
INVARIANTS
    StopReleases
PROPERTIES
    KeepsPromise
    StopsUnlessDeaf
    LinkLossUnlessReplaced
