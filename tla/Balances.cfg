SPECIFICATION BalancesSpec
CONSTANTS
    a = a
    b = b
    c = c
    Vaults = {a, b, c}
    Inputs <- SomeInputs
    MaxShutdowns = 1
    Zero = Zero
    SUSDC = SUSDC
    t1 = t1
    t2 = t2
    Contracts = {SUSDC, t1, t2}
    Types = {"erc20", "src20", "all"}
    GivenLists <- SomeLists
    ApiKey = {TRUE, FALSE}
    MaxBlock = 7
    Activity <- SomeActivity
    WindowSize = 2
    MaxWindows = 3
    BatchSize = 2
    MaxRows = 1
INVARIANTS
    BalancesTypeOK
    EntriesAreOwn
    ThrowsForAReason
    MissingIsExplained
PROPERTIES
    EveryReadSettles
CHECK_DEADLOCK FALSE
