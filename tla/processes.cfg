\* Two replicas and two groups; two faults.
SPECIFICATION Spec
CONSTANTS
    p1 = p1
    p2 = p2
    g1 = g1
    g2 = g2
    Process = {p1, p2}
    LeaseDuration = 5
    RenewDeadline = 2
    RetryPeriod = 1
    ExitLag = 1
    MaxFaults = 2
    Groups <- MCGroups
    MaxRebuilds = 2
INVARIANTS LoopTypeOK LeaseInv OneLoops
PROPERTIES ScanUsesFreshCopy EveryGroupIsScanned StopIsHeard
