SPECIFICATION FairSpec
CONSTANTS
    Clients = {c1}
    ProcessQueues = {p1}
    NoClient = NoClient
    NoQueue = NoQueue
    MaxOffset = 3
    Matching = {0, 1}
    BatchSize = 2
    PullThreshold = 1
    MaxSpan = 1
    MaxExpired = 1
    MessageModel = "CLUSTERING"
    ConsumeFromWhere = "CONSUME_FROM_TIMESTAMP"
    RetryTopic = FALSE
CHECK_DEADLOCK FALSE
INVARIANTS
    EachMessageHeldOnce
PROPERTIES
    MessagesDrain
    DroppedIsFreed
