SPECIFICATION FairSpec
CONSTANTS
    c1 = c1
    c2 = c2
    a1 = a1
    a2 = a2
    a3 = a3
    a4 = a4
    s1 = s1
    s2 = s2
    Subscribers = {c1, c2}
    Appenders = {a1, a2, a3, a4}
    Streams = {s1, s2}
    Burst = 2
    Rate = 1
    MaxElapsed = 2
    HighPercent = 80
    CriticalPercent = 90
    MinimumAvailable = 5
    MaximumInterval = 2
    SnapshotInterval = 2
    RetryChecks = 2
    FlushLimit = 1
    MaxRetained = 0
    Disks <- Samples
    Environment <- Cases
INVARIANTS
    CriticalUntilRecovered
    NoLostWakeup
    CountsExact
    AnswersTrue
PROPERTIES
    CaughtUp
    ShutdownCompletes
    MaintenanceKeepsUp
CHECK_DEADLOCK FALSE
