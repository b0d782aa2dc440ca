SPECIFICATION QuietSpec
CONSTANTS
    None = None
    Prompt = 6
    BlockSize = 2
    MinDrop = 2
    MaxDefer = 2
    MaxChanges = 3
INVARIANT
    GaveUpHasWaited
CHECK_DEADLOCK FALSE
