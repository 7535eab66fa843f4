\* A pod fits the CPU of one node and the memory of another.
SPECIFICATION Spec
CONSTANTS
    a = a
    b = b
    c = c
    Pod = {a, b, c}
    Node = {n1, n2, n3}
    PodSpec <- MCUnevenPods
    NodeLabels = {"group"}
    GroupLabel = "group"
    DefaultGroup = TRUE
    NodeCapacity <- MCNodeCapacity
    ScaleOnStarve = TRUE
    TaintLower = 20
    TaintUpper = 40
    ScaleUpThreshold = 70
    SlowRemovalRate = 1
    FastRemovalRate = 2
PROPERTY PendingPodIsPlaced
