SPECIFICATION FollowedSpec
CONSTANTS
    Threads = {t1, t2}
    Shapes = {"first", "second", "third", "notable", "scenario", "recorded"}
    Shape <- MCShape
    Scenario = "scenario"
    Recorded = "recorded"
    Notable = "notable"
    Supplied = {"first", "second", "third", "scenario"}
    Actors = {"ann", "bob"}
    Budgets <- MCBudgets
    Stream <- MCStream
    BurstSize = 2
    MaxFlows = 4
    BurstWindow = 2
    CampaignWindow = 4
    Unverified = "unverified"
    CorrectionIds = {"c1", "c2"}
    None = None
SYMMETRY Symmetry
CONSTRAINT OneSender
CHECK_DEADLOCK FALSE
INVARIANTS
    RowsStoredOnce
    IncidentsExact
    ReceiptBacked
    ReplayRefused
    RangeOutcomeTrue
    RecordsKept
    AdviceOfThisRow
