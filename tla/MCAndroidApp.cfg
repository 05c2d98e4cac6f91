SPECIFICATION AppFairSpec
CONSTANTS
    None = None
    MaxRequests = 2
INVARIANTS
    AppTypeOK
    NothingLeft
PROPERTIES
    CrashNeedsOverlap
    StopsUnlessLinked
    ClientServed
    SwitchSettles
