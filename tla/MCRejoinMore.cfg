SPECIFICATION Spec
CONSTANTS
    None = None
    MaxEntries = 3
    Environment <- Cases
INVARIANTS
    TypeOK
CHECK_DEADLOCK FALSE
