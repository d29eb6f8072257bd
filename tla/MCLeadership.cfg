SPECIFICATION Spec
CONSTANTS
    n1 = n1
    n2 = n2
    Node = {n1, n2}
    NoNode = NoNode
    LeaseId <- MCLeaseId
    TTL = 3
    Safety = 1
    RpcTimeout = 1
    MaxClock = 5
SYMMETRY Symmetry
INVARIANTS
    WriteExclusion
PROPERTIES
    FencedBeforeGrant
    PromotionRaisesTerm
CHECK_DEADLOCK FALSE
