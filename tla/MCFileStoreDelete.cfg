SPECIFICATION Spec
CONSTANTS
    t1 = t1
    t2 = t2
    a = a
    ab = ab
    badKey = badKey
    v1 = v1
    v2 = v2
    Threads <- MCThreads
    Keys <- NestedKeys
    BadKey <- badKey
    Above <- NestedAbove
    Versions <- MCVersions
    Chunks <- MCChunks
    CallsOf <- SplitCalls
    Faults = FALSE
    MaxCrashes = 0
    Nothing = Nothing
    Dir = Dir
    Empty = Empty
    Corrupt = Corrupt
    NoCall = NoCall
PROPERTY
    DeletingMissingSucceeds
