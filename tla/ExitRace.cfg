CONSTANTS
    Poll = {p1}
    Close = {c1}
    Crews = {{p1, c1}}
    NoTask = NoTask
    MaxSize = 3
    MaxChunks = 2
    MaxPending = 0
    MaxDbFailures = 0
    MaxCrashes = 0
SPECIFICATION Spec
INVARIANTS
    NeverOversold
CHECK_DEADLOCK FALSE
