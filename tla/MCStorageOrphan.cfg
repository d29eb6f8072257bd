SPECIFICATION Spec
CONSTANTS
    BatchSizes <- MCSingle
    Environment <- NoFault
    MaxEntries = 2
    MaxFiles = 4
    MaxOpens = 3
INVARIANT OrphanIgnored
CHECK_DEADLOCK FALSE
