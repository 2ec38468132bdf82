SPECIFICATION Spec
CONSTANTS
    Alerts = {a1}
    Keys = {1, 2, 3}
    Capacity = 2
    SnapDirs = {s1}
    ArchDirs = {z1, z2}
    Jobs = {j1, j2}
    MaxJobs = 3
    MaxCrashes = 1
    Missing = Missing
    Damaged = Damaged
SYMMETRY Symmetric
CHECK_DEADLOCK FALSE
INVARIANTS
    RestoreExact
    PrunedIsArchived
PROPERTIES
    SnapshotsSound
