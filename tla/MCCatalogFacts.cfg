SPECIFICATION Spec
CONSTANTS
    PageExtents = 1
    BlockEntries = 1
    Names = {1, 2}
    Times = {0, 1}
    Environment <- BadFrames
    MaxGenerations = 3
    MinSegments = 2
    Limits <- SmallLimits
INVARIANTS
    StreamIDsUnique
CHECK_DEADLOCK FALSE
