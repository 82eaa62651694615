SPECIFICATION FairSpec
CONSTANTS
    c1 = c1
    c2 = c2
    k1 = k1
    k2 = k2
    Callers <- TwoCallers
    Keys <- TwoKeys
    Prefixed <- OneKey
    MaxEntries = 2
    MaxCalls = 4
INVARIANTS
    ListTracksCache
    OneLoadPerKey
PROPERTIES
    OnlyAPurgeUnindexes
    GetOrLoadReturns
CHECK_DEADLOCK FALSE
