SPECIFICATION Spec
CONSTANTS
    Ranks <- MCTwo
    Messages <- MCMixed
    RowWords = 2
    WordsPerBlock = 2
    MinBlocks = 1
    MaxBlocks = 2
    SeqMod = 8
    Calls = 2
    SpinOuts = 0
INVARIANT
    DataIntact
CHECK_DEADLOCK FALSE
