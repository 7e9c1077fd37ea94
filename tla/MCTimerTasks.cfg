SPECIFICATION FairSpec
CONSTANTS
    Works = {t1, t2}
    Workers = {w1, w2}
    MinCount = 1
    AddStep = 1
    NoWork = NoWork
CHECK_DEADLOCK FALSE
INVARIANTS
    TypeOK
    TaskOnce
PROPERTIES
    WorkIsDone
    CloseStops
