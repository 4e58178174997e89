SPECIFICATION MCSpec
CONSTANTS
    d1 = d1
    d2 = d2
    d3 = d3
    Ids = {d1, d2, d3}
    Links <- Triangle
    None = None
    MaxDepth = 2
    Channels = {c1, c2}
    Capacity = 2
    MaxInFlight = 2
    MaxSends = 3
    MaxInbound = 2
SYMMETRY Symmetry
INVARIANTS
    MeshInv
    TreeIsWhole
    
    AckedWasFlushed
    FlushedInOrder
CHECK_DEADLOCK FALSE
