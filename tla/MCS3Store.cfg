SPECIFICATION SpecH
CONSTANTS
    c1 = c1
    c2 = c2
    c3 = c3
    sp = sp
    sq = sq
    sa = sa
    badKey = badKey
    v1 = v1
    v2 = v2
    Callers <- TrioCallers
    StoreOf <- TrioStoreOf
    Prefix <- TrioPrefix
    Segments <- MCSegments
    Keys <- TrioKeys
    BadKey <- badKey
    Versions <- MCVersions
    CallsOf <- TrioCalls
    ETags = {TRUE}
    MaxLate = 1
    Nothing = Nothing
    NoCall = NoCall
PROPERTIES
    ReadsOwnPuts
    ImplementsObjectStore
