CONSTANTS
    DevelopmentStart = 1
    DevelopmentEnd = 4
    TestStart = 5
    TestEnd = 7
    Validates = {3, 5}
    Tables <- MCTables
    Workers = {w1, w2}
    Auditors = {a1, a2}
    Recorders = {r1, r2}
    MaxDrift = 2
    Repeated = {"preprocess", "forest"}
    Contended = {"split", "forest"}
    Alterable = {"preprocess", "logistic", "february"}
    MaxSecond = 1
    MaxAlterations = 1
    MaxMishaps = 1
    None = None
SYMMETRY Rivals
SPECIFICATION FeedbackSpec
CONSTRAINT Bounded
CHECK_DEADLOCK FALSE
INVARIANTS
    AssignmentAsPromised
    HeldOut
    OneLineage
    PublishedOnce
    FeedbackSound
