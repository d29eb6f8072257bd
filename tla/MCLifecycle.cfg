SPECIFICATION FairSpec
CONSTANTS
    r1 = r1
    r2 = r2
    s1 = s1
    s2 = s2
    None = None
    Readers = {r1, r2}
    Snapshots = {s1, s2}
    Capacity = 1
    MaxGenerations = 3
    Environment <- Mixes
INVARIANTS
    FilesInPlace
    SnapshotsWhole
    NothingLeaks
PROPERTIES
    PendingRetired
CHECK_DEADLOCK FALSE
