SPECIFICATION Spec
CONSTANTS
    WindowSize = 2
    MaxWindows = 2
    MaxEmpty = 1
    MaxBlock = 5
    Patterns <- SomePatterns
    Queries <- SomeQueries
    MaxDrift = 1
    MaxRows = 2
INVARIANTS
    HasMoreIsTrue
CHECK_DEADLOCK FALSE
