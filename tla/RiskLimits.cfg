CONSTANTS
    r1 = r1
    r2 = r2
    r3 = r3
    pA = pA
    pB = pB
    pC = pC
    t1 = t1
    t2 = t2
    Request = {r1,r2,r3}
    Pair = {pA, pB, pC}
    Ticket = {t1}
    RequestModes = {"paper"}
    Amounts = {1, 2}
    Pnls <- LossOrGain
    Configs <- SlotConfigs
    InitialRows <- JustFresh
    Outcomes = {"clean"}
    OperatorCloses = FALSE
    SideErrors = {0}
    RuntimeRecalculation = FALSE
    UpsertsMayFail = FALSE
    MaxDay = 0
    MaxLoss = 2
    MaxProfit = 1
    MaxUpserts = 1
SPECIFICATION Spec
INVARIANTS
    TypeOK
    SlotsWithinLimit
    CapitalWithinBankroll
    PaperPairExclusive
SYMMETRY
    Symmetry
CHECK_DEADLOCK FALSE
