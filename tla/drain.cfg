\* Two nodes that are tainted, reaped and untainted while pods come and go.
SPECIFICATION Spec
CONSTANTS
    n1 = n1
    n2 = n2
    Node = {n1, n2}
    InitialNodes = {n1, n2}
    Operations = {"pods", "crash"}
    TaintEffect = "NoSchedule"
    SchedulerLag = 0
    CacheLag = 1
    BootTime = 1
    MaxTime = 6
    MaxUpsets = 0
    TaintLower = 20
    TaintUpper = 40
    ScaleUpThreshold = 70
    SlowRemovalRate = 1
    FastRemovalRate = 2
    MinNodes = 0
    MaxNodes = 2
    AsgMin = 0
    AsgMax = 2
    SoftGrace = 2
    HardGrace = 3
    CoolDown = 2
    UnhealthyGrace = 0
    NewestPercent = 50
    MaxUnhealthyPercent = 50
    MaxNodeAge = 0
    ScaleOnStarve = FALSE
    ScanInterval = 3
    PassDuration = 1
    NodeCapacity <- MCNodeCapacity
    Demands <- MCDemands
SYMMETRY Interchangeable
INVARIANTS  DrainInv
PROPERTIES ImplementsLifecycle TerminateOnlyExpired TerminateOnlyDrained
