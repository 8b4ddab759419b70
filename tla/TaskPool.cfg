SPECIFICATION Spec
CONSTANTS
    NoTask = NoTask
    MainTasks = {t1, t2}
    PoolSize = 2
    WaitForAll = {}
    Destroyed = FALSE
SYMMETRY Symmetry
INVARIANT OnePlaceAtMost
INVARIANT CompletedMeansOut
PROPERTY SuccessMeansAllParts
CHECK_DEADLOCK FALSE
