SPECIFICATION SpecH
CONSTANTS
    t1 = t1
    t2 = t2
    a = a
    ab = ab
    badKey = badKey
    v1 = v1
    v2 = v2
    Threads <- MCThreads
    Keys <- FlatKeys
    BadKey <- badKey
    Above <- FlatAbove
    Versions <- MCVersions
    Chunks <- MCChunks
    CallsOf <- OneKeyCalls
    Faults = TRUE
    MaxCrashes = 1
    Nothing = Nothing
    Dir = Dir
    Empty = Empty
    Corrupt = Corrupt
    NoCall = NoCall
INVARIANT
    UncontendedPutSettles
PROPERTY
    ImplementsObjectStore
