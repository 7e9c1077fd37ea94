SPECIFICATION Spec
CONSTANTS
    Clients = {c1}
    ProcessQueues = {p1, p2}
    NoClient = NoClient
    NoQueue = NoQueue
    MaxOffset = 2
    Matching = {0, 1}
    BatchSize = 2
    PullThreshold = 1
    MaxSpan = 1
    MaxExpired = 0
    MessageModel = "CLUSTERING"
    ConsumeFromWhere = "CONSUME_FROM_FIRST_OFFSET"
    RetryTopic = FALSE
SYMMETRY Symmetry
CHECK_DEADLOCK FALSE
INVARIANTS
    AccountingInv
PROPERTIES
    ImplementsAtLeastOnce
