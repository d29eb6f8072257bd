SPECIFICATION Spec
CONSTANTS
    n1 = n1
    n2 = n2
    Node = {n1, n2}
    NoNode = NoNode
    LeaseId <- MCLeaseId
    TTL = 5
    Safety = 1
    RpcTimeout = 3
    MaxClock = 7
SYMMETRY Symmetry
PROPERTIES
    FencedBeforeGrant
CHECK_DEADLOCK FALSE
