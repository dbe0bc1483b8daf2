CONSTANTS
    Opportunity = {o1}
    NoOpportunity = NoOpportunity
    KalshiCost = 1
    PolymarketCost = 2
    MaxReserved = 10
    MinFillPercent = 25
    MaxLost = 2
    MaxDbFailures = 1
    MaxCrashes = 1
SPECIFICATION Spec
INVARIANTS
    CommitmentCovers
    OutcomeTraced
PROPERTIES
    SecondLegAfterRecord
    ExposureAnnounced
