SPECIFICATION Spec
CONSTANTS
    c1 = c1
    c2 = c2
    x = x
    y = y
    z = z
    Callers = {c1, c2}
    Caches = {x, y, z}
    Prefix <- MCPrefix
    CallsOf <- MCCalls
    Types = {"int", "text"}
    Opaque = "chan"
    Ms = 2
    MaxSends = 2
    MaxLate = 1
    MaxTime = 4
    Nothing = Nothing
    NoCall = NoCall
    Nobody = Nobody
INVARIANTS
    AnswersFromCall
    SuccessMeansApplied
    KeysKeptApart
    Lifetimes
