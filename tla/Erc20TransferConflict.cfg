SPECIFICATION Spec
CONSTANTS
    Calls = {c1, c2}
    Transfers = {p1, p2}
    Shielded = {}
    GasPrices = {1}
    MaxRetries = 1
    MaxEvictions = 0
    None = None
INVARIANTS
    NoNonceConflict
CHECK_DEADLOCK FALSE
