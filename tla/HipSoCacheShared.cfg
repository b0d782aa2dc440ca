SPECIFICATION Spec
CONSTANTS
    Boots <- MCBoots
    Keys <- MCKeys
    KeyOf <- MCTogether
    Parts = 2
    Inodes <- MCInodes
    Crashes = 3
INVARIANT
    NoneLeftTruncated
CHECK_DEADLOCK FALSE
