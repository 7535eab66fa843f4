\* A node is cordoned while the group is at its minimum.
SPECIFICATION Spec
CONSTANTS
    n1 = n1
    n2 = n2
    n3 = n3
    n4 = n4
    Node = {n1, n2, n3, n4}
    InitialNodes = {n1, n2}
    Operations = {"cordon"}
    TaintEffect = "NoSchedule"
    SchedulerLag = 0
    CacheLag = 1
    BootTime = 4
    MaxTime = 6
    MaxUpsets = 1
    TaintLower = 20
    TaintUpper = 40
    ScaleUpThreshold = 70
    SlowRemovalRate = 1
    FastRemovalRate = 2
    MinNodes = 2
    MaxNodes = 4
    AsgMin = 2
    AsgMax = 4
    SoftGrace = 2
    HardGrace = 3
    CoolDown = 5
    UnhealthyGrace = 0
    NewestPercent = 50
    MaxUnhealthyPercent = 50
    MaxNodeAge = 0
    ScaleOnStarve = FALSE
    ScanInterval = 3
    PassDuration = 1
    NodeCapacity <- MCNodeCapacity
    Demands <- MCDemands
SYMMETRY Interchangeable
PROPERTY LockGuardsIncrease
