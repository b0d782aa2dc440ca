SPECIFICATION FairSpec
CONSTANTS
    r1 = r1
    r2 = r2
    Requests <- MCRequests
    Prompt <- MCPrompt
    Block = 2
    Budget = 6
    Threshold = 4
    MaxDrafts = 2
    Mixed = TRUE
    Receipts = TRUE
    Wait = TRUE
    WaitMax = 1
    MaxOutput = 0
    LastBlock = 4
    MaxFaults = 1
INVARIANTS
    TypeOK
    OnlyExactCached
    CanonEndExact
PROPERTIES
    ResumesExact
    PrefillCompletes
CHECK_DEADLOCK FALSE
