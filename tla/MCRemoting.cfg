SPECIFICATION FairSpec
CONSTANTS
    Calls = {k1, k2}
    MaxTransports = 2
CHECK_DEADLOCK FALSE
INVARIANTS
    TableIsLive
    FutureInv
    MisuseIsConfined
    AsyncIsDeleted
PROPERTIES
    ImplementsRemoteCall
    
