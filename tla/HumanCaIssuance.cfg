SPECIFICATION CaSpec
CONSTANTS
    c1 = c1
    c2 = c2
    alice = alice
    Certs = {c1, c2}
    Actors = {alice}
    ActorOf <- MCActorOf
    Archives = {a1, a2}
    MaxRecords = 2
    MaxDeaths = 1
    NoFile = NoFile
    Deliveries = {d1, d2}
    Profiles = {p1}
SYMMETRY Interchangeable
CHECK_DEADLOCK FALSE
INVARIANTS
    JournalsTrue
PROPERTIES
    RestrictedStaysOut
