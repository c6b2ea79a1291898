SPECIFICATION Spec
CONSTANTS
    Vaults = {"0", "1"}
    ProbeVault = "0"
    Calls = {c1, c2}
    c1 = c1
    c2 = c2
    Environments <- SomeEnvironments
    MaxStarts = 2
    MaxSwitches = 2
    MaxSignatures = 3
SYMMETRY CallSymmetry
INVARIANTS
    TypeOK
    KeysAreStable
PROPERTIES
    KeyNeverChanges
CHECK_DEADLOCK FALSE
