\* Calls that fail half way, restarts, and the limits of the group.
SPECIFICATION Spec
CONSTANTS
    n1 = n1
    n2 = n2
    n3 = n3
    Node = {n1, n2, n3}
    InitialNodes = {n1, n2, n3}
    Operations = {"apifail", "cloudfail", "crash"}
    TaintEffect = "NoSchedule"
    SchedulerLag = 0
    CacheLag = 1
    BootTime = 1
    MaxTime = 6
    MaxUpsets = 0
    TaintLower = 20
    TaintUpper = 40
    ScaleUpThreshold = 70
    SlowRemovalRate = 1
    FastRemovalRate = 2
    MinNodes = 1
    MaxNodes = 3
    AsgMin = 1
    AsgMax = 3
    SoftGrace = 2
    HardGrace = 3
    CoolDown = 2
    UnhealthyGrace = 0
    NewestPercent = 50
    MaxUnhealthyPercent = 50
    MaxNodeAge = 0
    ScaleOnStarve = FALSE
    ScanInterval = 3
    PassDuration = 1
    NodeCapacity <- MCNodeCapacity
    Demands <- MCDemands
SYMMETRY Interchangeable
INVARIANT DesiredWithinLimits
PROPERTY ScaleDownKeepsMinNodes
