SPECIFICATION Spec
CONSTANTS
    p1 = p1
    p2 = p2
    alice = alice
    bob = bob
    c1 = c1
    c2 = c2
    Playbooks <- TwoPlaybooks
    Actors <- TwoActors
    Callers <- TwoCallers
    NoActor = NoActor
    MaxEntries = 4
    MaxFaults = 1
SYMMETRY Symmetry
CHECK_DEADLOCK FALSE
INVARIANTS
    ChainSound
    LifeInChain
PROPERTIES
    WorkflowRefinement
