SPECIFICATION MCSpec
CONSTANTS
    Names = {"n"}
    Handlers = {h1, h2}
    Throwers = {h2}
    Once = {o1}
    Emissions = {e1, e2}
    MaxChanges = 4
    Calls = {c1, c2}
    Isolates = {i1, i2}
    Absent = Absent
    Layers = {l1}
    LayerKeys = {k1, k2}
    LayerValues = {1, 2}
    Nil = Nil
    CacheMaxSize = 1
SYMMETRY Symmetry
INVARIANTS
    AwaitsInv
    UndisturbedAgree
    
CHECK_DEADLOCK FALSE
