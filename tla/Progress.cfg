CONSTANTS
    Caller = {queue, close1, close2}
    NoCaller = NoCaller
    AlertRetries = 2
    BufferSizes = {1, 2}
    SendCall = {c1}
    k = k
    b1 = b1
    b2 = b2
    PlatformOrder <- OneVenue
    Book <- TwoBooks
    Batched <- NoVenue
    ReturnsAtOnce = FALSE
SPECIFICATION ProgressSpec
INVARIANTS
    LockSound
    ExclusiveUntilTimeout
PROPERTIES
    ImplementsAccess
    EveryWaiterEnters
    AlertsLeave
    DegradationFollowsVenue
