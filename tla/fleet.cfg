\* A group that needs three nodes, attached and terminated two at a time; room for a fourth.
SPECIFICATION PassSpec
CONSTANTS
    i1 = i1
    i2 = i2
    i3 = i3
    i4 = i4
    i5 = i5
    Instance = {i1, i2, i3, i4, i5}
    AsgMax = 4
    AttachBatch = 2
    TerminateBatch = 2
    TerminateLimit = 2
    MaxTries = 2
    Need = 3
INVARIANTS PassTypeOK NoOrphans IncreaseIsExact OverProvisionIsBounded
PROPERTY IncreaseReturns
