SPECIFICATION Spec
CONSTANTS
    addr = addr
    bad = bad
    BadAddress <- bad
    Addresses <- MCAddresses
    Options <- MCOptions
    Messages <- MCMessages
INVARIANTS
    NoCleartext
    DeliveryIsTotal
    ResourcesReleased
PROPERTIES
    CancelReturns
    WatcherEnds
