SPECIFICATION Spec
CONSTANTS
    Workspaces = {w1}
    Names = {n1}
    Procs = {p1, p2}
    Calls = {c1, c2, c3, c4}
    MaxResets = 0
    None = None
SYMMETRY Symmetry
INVARIANTS
    ActiveAreListed
CHECK_DEADLOCK FALSE
