SPECIFICATION ValidatorSpec
\* Validators whose rules call each other in a circle hang; CallsReturn excludes
\* exactly those.
CHECK_DEADLOCK FALSE
CONSTANTS
    g1 = g1
    g2 = g2
    v = v
    w = w
    Goroutines = {g1, g2}
    Validators = {v, w}
    UseChoices <- MCUses
    CallsOf <- MCCalls
    Nested <- MCNested
    Unlocked = Unlocked
INVARIANTS
    VerdictByValue
PROPERTIES
    CallsReturn
