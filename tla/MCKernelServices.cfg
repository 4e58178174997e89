SPECIFICATION MCSpec
CONSTANTS
    MaxPids = 3
    MaxDepth = 3
    Names = {"n1"}
    Regions = {r1, r2}
    Unnamed = none
    Keys = {k1, k2}
    Sizes = {1, 2}
    Capacity = 3
    MaxDrift = 1
    MaxNested = 2
    Labels = {"n1", "n2"}
    Priorities = {1, 2}
    Policies = {"p1", "p2"}
    MaxItems = 3
    MaxBoosts = 1
    MaxZones = 2
    MaxTasks = 2
    Nodes = {"n1", "n2"}
    MaxListed = 2
    MaxRuns = 3
    MaxSessions = 2
    ChannelNames = {"c1", "c2"}
    MaxChannels = 3
INVARIANTS
    
    HandledOnce
    TakenInOrder
    HaltedStaysHalted
    HandlesMatch
    RunsComplete
CHECK_DEADLOCK FALSE
