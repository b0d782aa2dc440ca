SPECIFICATION Spec
CONSTANTS
    k1 = k1
    k2 = k2
    k3 = k3
    r1 = r1
    r2 = r2
    Keys <- MCKeys
    Requests <- MCRequests
    Want <- MCWant
    Jobs = {1, 2}
    RamBlocks = 2
    FanoutMax = 2
    Threads = 2
    LookupInvalidate = TRUE
    FailedLoadForget = TRUE
    MaxFaults = 1
INVARIANTS
    TypeOK
    NoOrphanEntry
    RamAgreesWithJobs
    LandedNotAbsent
    SuccessMovedAll
CHECK_DEADLOCK FALSE
