SPECIFICATION Spec
CONSTANTS
    BatchSizes <- MCBatchSizes
    Environment <- OneKind
    MaxEntries = 3
    MaxFiles = 4
    MaxOpens = 4
INVARIANTS
    AckedReadable
    RecoveryAccepts
CHECK_DEADLOCK FALSE
