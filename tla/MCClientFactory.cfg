SPECIFICATION FairSpec
CONSTANTS
    GroupOrder <- OneGroup
    Brokers = {"b1", "b2"}
    Observed = "b2"
    RouteHistory <- Moving
CHECK_DEADLOCK FALSE
INVARIANTS
    TypeOK
    NoCircularWait
    NoGhost
    InfoIsCurrent
    ShutdownIsQuiet
PROPERTIES
    RoundsEnd
    ShutdownEnds
