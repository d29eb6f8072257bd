SPECIFICATION Spec
CONSTANTS
    PageExtents = 1
    BlockEntries = 1
    Names = {1, 2}
    Times = {0, 1}
    Environment <- AnyDamage
    MaxGenerations = 3
    MinSegments = 2
    Limits <- SmallLimits
INVARIANTS
    ReadsMatchLog
    TailsMatchLog
    NamesMatchLog
    LocatorFindsAll
CHECK_DEADLOCK FALSE
