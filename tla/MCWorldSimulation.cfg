SPECIFICATION MCSpec
CONSTANTS
    Entities = {e1, e2}
    Objects = {o1}
    Transitions <- Machine
    Behaviors = 1
    MaxCascadeDepth = 1
    Affected = {0, 1}
    Priorities = {0, 2, 3}
    MaxEvents = 3
    MaxSteps = 3
    MaxForces = 2
    MaxRestores = 1
    Count = 3
    Masses = {1, 3}
    Positions = {0, 1, 3}
    Radii = {1}
    Velocities = {0, 1}
    Unit = 2
    Elasticities = {1, 2}
    Agents = {a1, a2}
    Topics = {t1}
    MaxFeedback = 3
    MaxRounds = 3
INVARIANTS
    RuntimeInv
    
    
    NoEnergyGained
    LearnsTheLatest
PROPERTIES
    RunEnds
CHECK_DEADLOCK FALSE
