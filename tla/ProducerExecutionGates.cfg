SPECIFICATION GateSpec
CONSTANTS
    Handlers = {h1, h2}
    NoHandler = NoHandler
    Refill = 2
    Burst = 2
    MaxClock = 4
    MaxAttempts = 5
CHECK_DEADLOCK FALSE
INVARIANTS
    RateWindow
PROPERTIES
    SlotRefinement
