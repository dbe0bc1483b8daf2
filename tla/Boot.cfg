SPECIFICATION Spec
CONSTANTS
    Position = {p1, p2}
    Manual = {m1}
    Resolve = {r1}
    MaxRuns = 2
    MaxResolves = 1
    MaxDbFailures = 1
    MaxCrashes = 1
INVARIANTS
    RowsAgree
    UnresolvedKeepsHalt
CHECK_DEADLOCK FALSE
