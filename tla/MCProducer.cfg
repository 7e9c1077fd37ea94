SPECIFICATION FairSpec
CONSTANTS
    Senders = {s1, s2}
    s1 = s1
    s2 = s2
    Modes <- AnyMode
    Sizes <- AnySize
    RouteHistory <- Changing
    DefaultRoute <- Default
    Period = 2
CHECK_DEADLOCK FALSE
INVARIANTS
    TypeOK
    ResultIsStored
    RepeatedOnPurpose
PROPERTIES
    SendReturns
