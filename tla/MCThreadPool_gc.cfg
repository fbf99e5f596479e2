SPECIFICATION Spec
CONSTANTS
    Callers = {c1, c2}
    Threads = {t1, t2, t3}
    MaxThreads = 2
    MinThreads = 0
    MaxTasks = 3
    MaxSpurious = 1
    OwnerCloses = TRUE
SYMMETRY Symmetry
INVARIANTS
    ThreadsAccounted
    FuncNotRaced
    AtMostOnce
CHECK_DEADLOCK FALSE
