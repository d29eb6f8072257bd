SPECIFICATION Spec
CONSTANTS
    l1 = l1
    l2 = l2
    NoLeader = NoLeader
    MaxTerm = 3
    MaxPosition = 3
    Leader <- MCLeader
    Entry <- MCEntry
    SenderLog <- MCSenderLog
INVARIANTS
    ManifestCovered
    WholeBatches
PROPERTIES
    OneLeaderPerTerm
    CommitAnnounced
    LogOnlyGrows
CHECK_DEADLOCK FALSE
