SPECIFICATION FairSpec
CONSTANTS
    None = None
    MaxEntries = 3
    Environment <- Cases
INVARIANTS
    RecoverySource
    InstallWhole
PROPERTIES
    StartSound
    WorkCompletes
CHECK_DEADLOCK FALSE
