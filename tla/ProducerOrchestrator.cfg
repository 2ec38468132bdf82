SPECIFICATION FairSpec
CONSTANTS
    h1 = h1  h2 = h2  r1 = r1  r2 = r2  r3 = r3
    e1 = e1  e2 = e2  e3 = e3  e4 = e4
    Handlers <- MCHandlers
    NoHandler = NoHandler
    Records <- MCRecords
    NoRecord = NoRecord
    Events <- MCEvents
    Batch <- MCBatch
    Verdict <- MCVerdict
    Clashes <- MCClashes
    NoResponse = NoResponse
    MaxGenerations = 2
    Workloads <- MCWorkloads
CHECK_DEADLOCK FALSE
INVARIANTS
    OutcomesDurable
    ClaimsAccounted
PROPERTIES
    ServiceRefinement
    HandlersProgress
