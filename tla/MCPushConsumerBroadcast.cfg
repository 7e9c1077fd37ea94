SPECIFICATION Spec
CONSTANTS
    Clients = {c1}
    ProcessQueues = {p1, p2}
    NoClient = NoClient
    NoQueue = NoQueue
    MaxOffset = 3
    Matching = {0, 2}
    BatchSize = 2
    PullThreshold = 1
    MaxSpan = 1
    MaxExpired = 1
    MessageModel = "BROADCASTING"
    ConsumeFromWhere = "CONSUME_FROM_LAST_OFFSET"
    RetryTopic = FALSE
SYMMETRY Symmetry
CHECK_DEADLOCK FALSE
INVARIANTS
    CommittedIsSettled
