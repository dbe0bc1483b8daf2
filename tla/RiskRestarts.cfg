CONSTANTS
    r1 = r1
    r2 = r2
    r3 = r3
    pA = pA
    pB = pB
    pC = pC
    t1 = t1
    t2 = t2
    Request = {r1}
    Pair = {pA}
    Ticket = {t1}
    RequestModes = {"live"}
    Amounts = {1}
    Pnls <- UnitLoss
    Configs <- TightConfig
    InitialRows <- SomeRows
    Outcomes = {"clean", "discrepancy", "failed"}
    OperatorCloses = FALSE
    SideErrors = {0}
    RuntimeRecalculation = TRUE
    UpsertsMayFail = TRUE
    MaxDay = 1
    MaxLoss = 1
    MaxProfit = 0
    MaxUpserts = 2
SPECIFICATION Spec
INVARIANTS
    LossLimitHalts
    RowFollowsMemory
PROPERTIES
    LossHaltLatched
SYMMETRY
    Symmetry
CHECK_DEADLOCK FALSE
