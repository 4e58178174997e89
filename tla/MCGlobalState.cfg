SPECIFICATION MCSpec
CONSTANTS
    Domains = {d1, d2, world}
    Values = {1, 2}
    None = None
    Watchers = {w1, w2}
    MaxUpdates = 2
    MaxConflicts = 1
    MaxSnapshots = 1
    MaxDepth = 2
    Ids = {i1, i2, i3}
    World = world
    Keys = {k1}
    LevelNumbers = {0, 3}
    MaxLog = 4
    MaxMerges = 2
SYMMETRY Symmetry
INVARIANTS
    
    WatchersCurrent
    ChainIsAncestry
    NoConflictMissed
CHECK_DEADLOCK FALSE
