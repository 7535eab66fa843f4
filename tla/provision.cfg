\* Load that comes and goes, nodes that boot, and the scale lock.
SPECIFICATION Spec
CONSTANTS
    n1 = n1
    n2 = n2
    n3 = n3
    n4 = n4
    Node = {n1, n2, n3, n4}
    InitialNodes = {n1}
    Operations = {}
    TaintEffect = "NoSchedule"
    SchedulerLag = 0
    CacheLag = 1
    BootTime = 2
    MaxTime = 13
    MaxUpsets = 0
    TaintLower = 20
    TaintUpper = 40
    ScaleUpThreshold = 70
    SlowRemovalRate = 1
    FastRemovalRate = 2
    MinNodes = 1
    MaxNodes = 4
    AsgMin = 1
    AsgMax = 4
    SoftGrace = 2
    HardGrace = 3
    CoolDown = 5
    UnhealthyGrace = 0
    NewestPercent = 50
    MaxUnhealthyPercent = 50
    MaxNodeAge = 0
    ScaleOnStarve = FALSE
    ScanInterval = 3
    PassDuration = 1
    NodeCapacity <- MCNodeCapacity
    Demands <- MCDemands
SYMMETRY Interchangeable
INVARIANT NeverOverProvisioned
