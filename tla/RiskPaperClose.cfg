CONSTANTS
    r1 = r1
    r2 = r2
    r3 = r3
    pA = pA
    pB = pB
    pC = pC
    t1 = t1
    t2 = t2
    Request = {r1, r2}
    Pair = {pA, pB}
    Ticket = {t1}
    RequestModes = {"live", "paper"}
    Amounts = {1, 2}
    Pnls <- LossOrGain
    Configs <- OneConfig
    InitialRows <- JustFresh
    Outcomes = {"clean"}
    OperatorCloses = TRUE
    SideErrors = {1}
    RuntimeRecalculation = FALSE
    UpsertsMayFail = FALSE
    MaxDay = 0
    MaxLoss = 2
    MaxProfit = 1
    MaxUpserts = 1
SPECIFICATION Spec
PROPERTIES
    PaperCloseLeavesLive
SYMMETRY
    Symmetry
CHECK_DEADLOCK FALSE
