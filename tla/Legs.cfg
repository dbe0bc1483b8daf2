CONSTANTS
    Retry = {r1, r2}
    CloseLeg = {c1}
    Unwind = {u1}
    Crews = {{r1, c1, u1}, {r1, r2, u1}}
    Origins = {"entry", "exit"}
    MaxSize = 2
    MaxPending = 1
    MaxDbFailures = 1
    MaxCrashes = 1
SPECIFICATION Spec
INVARIANTS
    RowsMatchVenue
    StatusMeansExposure
    SlotReturnedOnce
PROPERTIES
    NeverSellsResolved
CHECK_DEADLOCK FALSE
