SPECIFICATION Spec
CONSTANTS
    Vaults = {v1}
    Calls = {c1, c2}
    Entries = {e1, e2}
    Sigs = {s1}
    Ops <- AllOps
    MaxShutdowns = 1
    None = None
    Zeroed = Zeroed
    NoEntry = NoEntry
SYMMETRY Symmetry
INVARIANTS
    FreshCallsGetKeys
    LiveKeysUsable
    LiveViewingKeyMatches
PROPERTIES
    FlagFollowsSubmission
