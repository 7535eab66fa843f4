\* Every request and node size up to the bounds; groups of up to six nodes at the start.
SPECIFICATION Spec
CONSTANTS
    TaintLower = 20
    TaintUpper = 40
    ScaleUpThreshold = 70
    SlowRemovalRate = 1
    FastRemovalRate = 2
    MaxNodeCount = 6
    MaxRequest = 16
    MaxCapacity = 3
INVARIANT LoopTypeOK
PROPERTIES ScaleUpSuffices ScaleUpIsTight NoFlapping EnoughInTheEnd
