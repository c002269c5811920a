SPECIFICATION SettingsSpec
CONSTANTS
    Callers = {c1, c2}
    Values = {v1, v2}
    Empty = Empty
    NoEntry = NoEntry
    TTL = 2
    ReadTime = 1
    MaxTime = 5
    MaxWrites = 2
    MaxBypass = 1
    MaxFaults = 1
SYMMETRY Symmetry
CHECK_DEADLOCK FALSE
INVARIANTS ServedIsRecent
