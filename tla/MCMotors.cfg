SPECIFICATION FairSpec
CONSTANTS
    NaN = NaN
    None = None
    Unit = 4
    Configs <- MCConfigs
    Controls <- MCControls
INVARIANTS
    TypeOK
    NoOverdrive
    ScaleClamps
PROPERTIES
    DisarmStops
