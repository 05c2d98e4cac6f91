SPECIFICATION FairSpec
CONSTANTS
    NaN = NaN
    Angles <- MCAngles
    Rates <- MCRates
    Periods <- MCPeriods
    Uptimes <- MCUptimes
    Constants <- MCConstants
    HalfTurn = 3
INVARIANTS
    TypeOK
PROPERTIES
    ErrorScaled
    RollLimited
    ErrorSettles
