SPECIFICATION FairSpec
CONSTANTS
    Calls = {c1, c2}
    Transfers = {p1, p2}
    Shielded = {p2}
    GasPrices = {1, 2}
    MaxRetries = 3
    MaxEvictions = 1
    None = None
INVARIANTS
    TypeOK
    SuccessMeansAccepted
    SuccessesAreDistinct
    NoNonceGap
PROPERTIES
    AtMostOnce
    ConfirmedNonceIsUsed
    EveryTransferSettles
CHECK_DEADLOCK FALSE
