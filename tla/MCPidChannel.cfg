SPECIFICATION Spec
CONSTANTS
    None = None
    NaN = NaN
    MaxError = 1
    Errors <- MCErrors
    Limits <- MCLimits
    Constants <- MCConstants
    MaxGap = 3
    MaxSum = 6
INVARIANTS
    TypeOK
    ShareBounded
    IntegralEarned
    FilterInRange
PROPERTIES
    DesaturatesAtOnce
