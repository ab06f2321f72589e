SPECIFICATION SpecH
CONSTANTS
    t1 = t1
    t2 = t2
    k1 = k1
    emptyKey = emptyKey
    v1 = v1
    v2 = v2
    Threads <- MCThreads
    Keys <- MCKeys
    EmptyKey <- emptyKey
    Values <- MCValues
    TTLs <- MCTTLs
    Nothing = Nothing
    NoCall = NoCall
    MaxTime = 3
SYMMETRY Symmetry
INVARIANTS
    TypeOKH
    WindowInv
PROPERTIES
    OnlyDeleteDropsLive
    ImplementsContract
