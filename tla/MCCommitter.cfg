SPECIFICATION Spec
CONSTANTS
    r1 = r1  r2 = r2  r3 = r3  a = a  b = b
    Request <- RivalRequest
    Stream <- RivalStream
    StreamOf <- RivalStreamOf
    Expected <- RivalExpected
    Count <- RivalCount
    RegistryStream = RegistryStream
    Free = Free
    QueueCapacity = 2
    MaxRequests = 2
    MaxBytes = 3
    MaxAttempts <- RivalAttempts
INVARIANTS
    SuccessIsDurable
    SequencesContinuous
    RejectedNeverWritten
    ValidatedStaysValid
    BarrierDrains
PROPERTIES
    FailedStaysFailed
CHECK_DEADLOCK FALSE
