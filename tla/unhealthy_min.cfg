\* A node turns unhealthy while the group is idle.
SPECIFICATION Spec
CONSTANTS
    n1 = n1
    n2 = n2
    Node = {n1, n2}
    InitialNodes = {n1, n2}
    Operations = {"notready"}
    TaintEffect = "NoSchedule"
    SchedulerLag = 0
    CacheLag = 1
    BootTime = 1
    MaxTime = 6
    MaxUpsets = 1
    TaintLower = 20
    TaintUpper = 40
    ScaleUpThreshold = 70
    SlowRemovalRate = 1
    FastRemovalRate = 2
    MinNodes = 1
    MaxNodes = 2
    AsgMin = 0
    AsgMax = 3
    SoftGrace = 2
    HardGrace = 3
    CoolDown = 2
    UnhealthyGrace = 1
    NewestPercent = 100
    MaxUnhealthyPercent = 50
    MaxNodeAge = 0
    ScaleOnStarve = FALSE
    ScanInterval = 3
    PassDuration = 1
    NodeCapacity <- MCNodeCapacity
    Demands <- MCDemands
SYMMETRY Interchangeable
PROPERTY ScaleDownKeepsMinNodes
