SPECIFICATION RSpec
CONSTANTS
    Workspaces = {w1}
    Names = {n1}
    Procs = {p1}
    Calls = {c1, c2}
    Sweeps = {s1}
    Criticality <- NonCriticalOnly
    MaxResets = 0
    None = None
INVARIANTS
    BlockUpdateStopsNonCritical
CHECK_DEADLOCK FALSE
