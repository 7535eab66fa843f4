\* Two nodes that are unhealthy for a pass or more.
SPECIFICATION Spec
CONSTANTS
    Node = {n1, n2}
    MinNodes = 1
    AsgMax = 3
    MaxRate = 1
    MaxTracked = 4
PROPERTY UntaintedNodeIsUntainted
