SPECIFICATION FairSpec
CONSTANTS
    Workspaces = {w1}
    Names = {n1}
    Procs = {p1, p2}
    Calls = {c1, c2, c3}
    MaxResets = 1
    None = None
INVARIANTS
    ManagerInv
    OrphanNeedsOverlap
PROPERTIES
    RegistrySpec
    CallsEnd
CHECK_DEADLOCK FALSE
