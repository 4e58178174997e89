SPECIFICATION Spec
CONSTANTS
    Nodes = {n1, n2}
    Primary = n1
    Senders = {n1, n2, s1}
    Views = {0}
    SequenceNumbers = {0, 1}
    Proposals = {p, q}
    FaultTolerance = 1
    MaxCalls = 8
INVARIANT Agreement
CHECK_DEADLOCK FALSE
