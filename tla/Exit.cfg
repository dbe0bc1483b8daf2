CONSTANTS
    Poll = {p1}
    Close = {c1, c2}
    Crews = {{p1}, {c1, c2}}
    NoTask = NoTask
    MaxSize = 3
    MaxChunks = 2
    MaxPending = 1
    MaxDbFailures = 1
    MaxCrashes = 1
SPECIFICATION Spec
INVARIANTS
    ExitsWithinEntry
    ClosedMeansExited
    BooksAddUp
PROPERTIES
    ClosedIsFinal
CHECK_DEADLOCK FALSE
