SPECIFICATION CachesSpec
CONSTANTS
    l1 = l1
    t1 = t1
    t2 = t2
    t3 = t3
    t4 = t4
    k1 = k1
    k2 = k2
    r1 = r1
    r2 = r2
    None = None
    Boots <- MCBoots
    Keys <- MCKeys
    KeyOf <- MCApart
    Parts = 2
    Inodes <- MCInodes
    Crashes = 3
    Launchers <- MCLaunchers
    Trees <- MCTrees
    TreesTarget = 1
    MinUnread = 2
    MaxPruned = 2
    AtimeLag = 2
    Old = 2
    MaxTime = 3
    MaxLaunches = 2
    Blocks <- MCBlocks
    Target = 2
    Emergency = 3
    MinAge = 1
    SpareAge = 0
    MaxAge = 2
    MaxDelete = 3
    Batch = 2
    Ancient = 3
    Stores = 3
    Damages = 1
INVARIANTS
    CachesTypeOK
    PublishedWhole
    BootHasAll
    NoHitLost
PROPERTIES
    EveryBootEnds
    EveryRequestIsServed
    OldestWhenFull
    VolumeKept
    NeverParked
    FloorHeld
    OldestEvictedFirst
    EvictsOnlyAsNeeded
CHECK_DEADLOCK FALSE
