\* Cordons, force taints, annotations, unhealthy and lost nodes.
SPECIFICATION FairSpec
CONSTANTS
    n1 = n1
    n2 = n2
    n3 = n3
    Node = {n1, n2, n3}
    InitialNodes = {n1, n2}
    Operations = {"cordon", "force", "annotate", "notready", "lost", "cleanup"}
    TaintEffect = "NoSchedule"
    SchedulerLag = 0
    CacheLag = 1
    BootTime = 1
    MaxTime = 4
    MaxUpsets = 1
    TaintLower = 20
    TaintUpper = 40
    ScaleUpThreshold = 70
    SlowRemovalRate = 1
    FastRemovalRate = 2
    MinNodes = 2
    MaxNodes = 3
    AsgMin = 1
    AsgMax = 3
    SoftGrace = 2
    HardGrace = 3
    CoolDown = 2
    UnhealthyGrace = 1
    NewestPercent = 50
    MaxUnhealthyPercent = 50
    MaxNodeAge = 1
    ScaleOnStarve = TRUE
    ScanInterval = 3
    PassDuration = 1
    NodeCapacity <- MCNodeCapacity
    Demands <- MCOnOffDemand
PROPERTIES  ImplementsLifecycle
