SPECIFICATION Spec
CONSTANTS
    None = None
    MaxEntries = 3
    Environment <- Boundary
INVARIANT NeverFails
CHECK_DEADLOCK FALSE
