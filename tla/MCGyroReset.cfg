SPECIFICATION Spec
CONSTANTS
    NaN = NaN
    None = None
    Filtered = TRUE
INVARIANTS
    NaNOnlyByRace
    ResetForgets
