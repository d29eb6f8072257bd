SPECIFICATION Spec
CONSTANTS
    BatchSizes <- MCBatchSizes
    Environment <- OneKind
    MaxEntries = 3
    MaxFiles = 4
    MaxOpens = 4
INVARIANTS
    TypeOK
    FilesDisjoint
CHECK_DEADLOCK FALSE
