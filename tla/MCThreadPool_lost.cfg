SPECIFICATION FairSpec
CONSTANTS
    Callers = {c1}
    Threads = {t1, t2}
    MaxThreads = 1
    MinThreads <- NoCollector
    MaxTasks = 2
    MaxSpurious = 0
    OwnerCloses = FALSE
PROPERTIES
    EveryTaskRuns
CHECK_DEADLOCK FALSE
