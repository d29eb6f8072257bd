SPECIFICATION Spec
CONSTANTS
    r1 = r1  r2 = r2  r3 = r3  a = a  b = b
    Request <- FollowRequest
    Stream <- FollowStream
    StreamOf <- FollowStreamOf
    Expected <- FollowExpected
    Count <- FollowCount
    RegistryStream = RegistryStream
    Free = Free
    QueueCapacity = 2
    MaxRequests = 2
    MaxBytes = 3
    MaxAttempts <- FollowAttempts
INVARIANTS
    GuardRejectionHarmless
CHECK_DEADLOCK FALSE
