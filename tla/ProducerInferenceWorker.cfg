SPECIFICATION FairSpec
CONSTANTS
    Batch = 2
    MaxFaults = 1
CHECK_DEADLOCK FALSE
INVARIANTS
    ExecutionSound
PROPERTIES
    ExecuteReturns
