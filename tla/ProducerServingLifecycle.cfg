SPECIFICATION FairSpec
CONSTANTS
    Controllers = {c1, c2}
    HandlerCount = 2
    MaxStarts = 2
CHECK_DEADLOCK FALSE
INVARIANTS
    StatusHonest
PROPERTIES
    ServiceSettles
