SPECIFICATION FairSpec
CONSTANTS
    NoTask = NoTask
    MainTasks = {t1}
    PoolSize = 2
    WaitForAll = {}
    Destroyed = TRUE
PROPERTY AcceptedTasksComplete
PROPERTY ShutdownEnds
CHECK_DEADLOCK FALSE
