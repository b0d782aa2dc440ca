SPECIFICATION GroupsSpec
CONSTANTS
    Ranks <- MCTwo
    Messages <- MCRows
    RowWords = 2
    WordsPerBlock = 2
    MinBlocks = 1
    MaxBlocks = 2
    SeqMod = 8
    Calls = 3
    SpinOuts = 0
    Reqs <- MCReqs
    Prompt <- MCPrompt
    Span = 2
    EnvMargin = 0
    BlockSize = 2
    Budget = 7
    MaxTokens = 14
    Tokens <- MCTokens
    TopK = 2
    K = 2
    ENTER = 2
    STAY = 1
    HOT = 1
    MINDIST = 2
    MAXL = 3
    PosBase = 8
    MaxLen = 6
    MaxPrompt = 3
INVARIANTS
    KernelsTypeOK
    DataIntact
    UsedReadsWritten
    ScanIsBest
    DistributionIsDraft
    HotIsOwn
    ShorteningPays
PROPERTIES
    Implements
    AllImplement
    CallsEnd
CHECK_DEADLOCK FALSE
