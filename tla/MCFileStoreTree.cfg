SPECIFICATION Spec
CONSTANTS
    t1 = t1
    t2 = t2
    a = a
    ab = ab
    badKey = badKey
    v1 = v1
    v2 = v2
    Threads <- MCThreads
    Keys <- NestedKeys
    BadKey <- badKey
    Above <- NestedAbove
    Versions <- MCVersions
    Chunks <- MCChunks
    CallsOf <- TreeCalls
    Faults = TRUE
    MaxCrashes = 1
    Nothing = Nothing
    Dir = Dir
    Empty = Empty
    Corrupt = Corrupt
    NoCall = NoCall
SYMMETRY Symmetry
INVARIANTS
    TypeOK
    NoTornObject
    TempsOwned
PROPERTIES
    OnlyOwnKeyChanges
