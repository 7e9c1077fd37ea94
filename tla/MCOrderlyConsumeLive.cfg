SPECIFICATION FairSpec
CONSTANTS
    Clients = {c1}
    ProcessQueues = {p1}
    NoClient = NoClient
    NoQueue = NoQueue
    MaxOffset = 2
    BatchSize = 1
    PullThreshold = 1
    AutoCommit = {TRUE}
    MessageModel = "CLUSTERING"
CHECK_DEADLOCK FALSE
PROPERTIES
    DispatchedIsTaken
