SPECIFICATION DeliverySpec
CONSTANTS
    Publications = {p1, p2}
    Attempts = 3
    HasKV = TRUE
    MaxFaults = 4
    Workspaces = {w1, w2}
    Emissions = {e1}
    Custom = {"front", "middle"}
    MaxChanges = 3
    Processes = {p1}
    Handlers = {h1, h2}
    Requests = {r1, r2}
    Listens = {l1, l2, l3}
    None = None
INVARIANTS
    DeliveryInv
    AcceptedIsAccountedFor
    EveryPolicyConsulted
PROPERTIES
    ImplementsLog
    DeliveryEnds
CHECK_DEADLOCK FALSE
