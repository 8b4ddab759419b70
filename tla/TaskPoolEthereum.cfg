SPECIFICATION FairSpec
CONSTANTS
    NoTask = NoTask
    MainTasks = {t1}
    PoolSize = 2
    WaitForAll = {t1}
    Destroyed = FALSE
PROPERTY AcceptedTasksComplete
CHECK_DEADLOCK FALSE
