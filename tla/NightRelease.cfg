SPECIFICATION Spec
CONSTANTS
    r1 = r1
    r2 = r2
    f = f
    Changes = {r1, r2, f}
    Slow = {r2}
    Top = 2
    Tol = 0
    prod = prod
    none = none
    Production <- MCProduction
    Nothing <- MCNothing
    Deadline = 1
    WindowEnd = 1
    PRs = {1}
    Revs = {1, 2}
    Features = {f}
    Rev <- MCRev
    FirstBase <- MCFirstBase
    MaxVersion = 3
    MaxMain = 4
    MaxOwn = 2
    MaxOutside = 1
CONSTRAINT Bound
INVARIANTS
    PassMeasured
    StackRevisionMeasured
PROPERTIES
    ProductionBack
    MergeNotSlower
CHECK_DEADLOCK FALSE
