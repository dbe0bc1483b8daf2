CONSTANTS
    Monitored = {x1, x2}
    EntryFill = 3
    BreakAfter = 3
SPECIFICATION MonitorSpec
INVARIANTS
    ClosedMeansSold
CHECK_DEADLOCK FALSE
