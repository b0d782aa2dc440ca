SPECIFICATION PruneSpec
CONSTANTS
    l1 = l1
    t1 = t1
    t2 = t2
    t3 = t3
    t4 = t4
    Launchers <- MCOneLauncher
    Trees <- MCThreeTrees
    TreesTarget = 1
    MinUnread = 2
    MaxPruned = 2
    AtimeLag = 2
    Old = 2
    MaxTime = 4
    MaxLaunches = 4
PROPERTY
    LaunchedKept
CHECK_DEADLOCK FALSE
