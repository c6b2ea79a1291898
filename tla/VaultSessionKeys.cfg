SPECIFICATION FairSpec
CONSTANTS
    Vaults = {v1, v2}
    Calls = {c1, c2}
    Entries = {e1, e2}
    Sigs = {s1}
    Ops <- SettlingOps
    MaxShutdowns = 1
    None = None
    Zeroed = Zeroed
    NoEntry = NoEntry
INVARIANTS
    TypeOK
    KeysStayInTheirVault
PROPERTIES
    EveryCallSettles
