SPECIFICATION ServiceSpec
CONSTANTS
    a1 = a1
    i1 = i1
    i2 = i2
    ann = ann
    bob = bob
    eve = eve
    Alerts = {a1}
    Ids = {i1, i2}
    Actors = {ann, bob}
    Viewers = {eve}
    NoId = NoId
    NoActor = NoActor
    Clients <- MCClients
    Changing = {ann}
    MaxReloads = 1
CHECK_DEADLOCK FALSE
INVARIANTS
    SuccessIsRecorded
    RepositorySound
PROPERTIES
    ChangesAreEntitled
    GenerationsApart
    RestrictionTakesEffect
