SPECIFICATION RSpec
CONSTANTS
    Workspaces = {w1, w2}
    Names = {n1}
    Procs = {p1, p2}
    Calls = {c1, c2, c3, c4}
    Sweeps = {s1}
    Criticality <- NonCriticalOnly
    MaxResets = 0
    None = None
SYMMETRY Symmetry
INVARIANTS
    SweepClears
    EscapeNeedsOrphan
CHECK_DEADLOCK FALSE
VIEW WithoutTrail
