SPECIFICATION Spec
CONSTANTS
    BatchSizes <- MCBatchSizes
    Environment <- NoFault
    MaxEntries = 2
    MaxFiles = 3
    MaxOpens = 2
INVARIANT BatchPrefixTruncated
CHECK_DEADLOCK FALSE
