SPECIFICATION Spec
CONSTANTS
    t1 = t1
    t2 = t2
    key = key
    badKey = badKey
    v1 = v1
    v2 = v2
    Threads <- MCThreads
    Keys <- MCKeys
    BadKey <- badKey
    Versions <- MCVersions
    Chunks <- MCChunks
    CallsOf <- MCCalls
    Nothing = Nothing
    NoCall = NoCall
SYMMETRY Symmetry
PROPERTY
    ImplementsObjectStore
