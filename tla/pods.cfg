\* Pods that all need six tenths of a node, as many nodes as pods.
SPECIFICATION Spec
CONSTANTS
    a = a
    b = b
    c = c
    Pod = {a, b, c}
    Node = {n1, n2, n3}
    PodSpec <- MCEvenPods
    NodeLabels = {"group", "zone"}
    GroupLabel = "group"
    DefaultGroup = FALSE
    NodeCapacity <- MCNodeCapacity
    ScaleOnStarve = TRUE
    TaintLower = 20
    TaintUpper = 40
    ScaleUpThreshold = 95
    SlowRemovalRate = 1
    FastRemovalRate = 2
 
PROPERTIES  PendingPodIsPlaced
