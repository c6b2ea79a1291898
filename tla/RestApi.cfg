SPECIFICATION Spec
CONSTANTS
    a0 = a0
    a1 = a1
    usdc = usdc
    few = few
    many = many
    Requests <- SomeRequests
    Address <- SomeAddress
    Decimals <- SomeDecimals
    SUSDC = usdc
    SUsdcDecimals = 2
    DefaultDecimals = 3
    MaxDecimals = 3
    Huge = Huge
    Junk = Junk
    None = None
INVARIANTS
    TypeOK
    SuccessMovesWhatWasAsked
    ClientErrorMovesNothing
PROPERTIES
    EveryRequestAnswered
CHECK_DEADLOCK FALSE
