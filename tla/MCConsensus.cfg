SPECIFICATION MCSpec
CONSTANTS
    Nodes = {n1, n2}
    Primary = n1
    Senders = {n1, n2, s1}
    Views = {0}
    SequenceNumbers = {0, 1001}
    Proposals = {p, q}
    FaultTolerance = 1
    MaxCalls = 6
    Levels = {world, zone}
    ConsensusNodes = {n1}
    Ids = {i1, i2}
    Validators = {v1, v2, v3, v4}
    RequiredValidators = 3
    MaxVotes = 2
    MaxQueue = 3
    n1 = n1
    n2 = n2
SYMMETRY Symmetry
INVARIANTS
    ConsensusInv
    CommittedInOrder
    RoundNeedsOthers
    OneResultPerRound
    VerifiedFollowsVotes
CHECK_DEADLOCK FALSE
