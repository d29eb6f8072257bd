SPECIFICATION FairSpec
CONSTANTS
    None = None
    MaxEntries = 3
    Environment <- Beside
PROPERTIES
    NothingRegresses
CHECK_DEADLOCK FALSE
