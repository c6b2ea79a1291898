SPECIFICATION FairSpec
CONSTANTS
    WindowSize = 2
    MaxWindows = 3
    MaxEmpty = 2
    MaxBlock = 7
    Patterns <- SomePatterns
    Needs = {1, 3}
    Bounds = {2, 5}
    None = None
INVARIANTS
    TypeOK
    ReportedRangeIsComplete
    NothingNearMissed
PROPERTIES
    ScanIsOneReading
    ScanEnds
CHECK_DEADLOCK FALSE
