SPECIFICATION FairSpec
CONSTANTS
    Users = {u1, u2}
    Timer = timer
    Sessions = {s1}
    NoSession = none
    Timeout = 1
    MaxTime = 2
    MaxIncidents = 2
CHECK_DEADLOCK FALSE
INVARIANTS
    CopiesAgree
    PromiseKept
    LockLostByMisuse
PROPERTIES
    ImplementsStore
    OverdueEnds
