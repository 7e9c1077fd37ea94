SPECIFICATION Spec
CONSTANTS
    Clients = {c1, c2}
    ProcessQueues = {p1, p2}
    NoClient = NoClient
    NoQueue = NoQueue
    MaxOffset = 1
    BatchSize = 1
    PullThreshold = 1
    AutoCommit = {TRUE}
    MessageModel = "CLUSTERING"
SYMMETRY Symmetry
CHECK_DEADLOCK FALSE
INVARIANTS
    CommittedIsAccepted
    LockIsExclusive
