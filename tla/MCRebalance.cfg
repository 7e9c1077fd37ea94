SPECIFICATION FairSpec
CONSTANTS
    Clients = {1, 2}
    Mortal = {2}
    TopicOrder <- OneTopic
    BrokerOf <- ThreeQueues
    RouteHistory <- Changing
CHECK_DEADLOCK FALSE
INVARIANTS
    TypeOK
    SameViewIsDisjoint
PROPERTIES
    ComesToDivide
