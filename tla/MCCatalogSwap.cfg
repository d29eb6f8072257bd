SPECIFICATION Spec
CONSTANTS
    PageExtents = 1
    BlockEntries = 1
    Names = {1, 2, 3}
    Times = {0, 1}
    Environment <- Sound
    MaxGenerations = 3
    MinSegments = 2
    Limits <- SmallLimits
INVARIANTS
    MaintenanceSurvives
CHECK_DEADLOCK FALSE
