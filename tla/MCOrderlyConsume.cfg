SPECIFICATION Spec
CONSTANTS
    Clients = {c1}
    ProcessQueues = {p1, p2}
    NoClient = NoClient
    NoQueue = NoQueue
    MaxOffset = 2
    BatchSize = 1
    PullThreshold = 1
    AutoCommit = {TRUE, FALSE}
    MessageModel = "CLUSTERING"
SYMMETRY Symmetry
CHECK_DEADLOCK FALSE
INVARIANTS
    TypeOK
    DeliveredInOrder
    OneRequestPerQueue
    CountIsExact
PROPERTIES
    ImplementsAtLeastOnce
