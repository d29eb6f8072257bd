SPECIFICATION Spec
CONSTANTS
    n1 = n1
    n2 = n2
    r1 = r1
    r2 = r2
    r3 = r3
    NoNode = NoNode
    Node <- MCNode
    Request <- MCRequest
    Expected <- MCExpected
    Chunk = 1
    Environment <- LossOnly
SYMMETRY Symmetry
INVARIANT PromotionAccepted
CHECK_DEADLOCK FALSE
