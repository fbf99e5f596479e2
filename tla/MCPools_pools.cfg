SPECIFICATION MCSpec
CONSTANTS
    Callers = {c1, c2, c3}
    Max = 2
    ConnectFails = TRUE
    CurlCallers = {k1, k2}
    MaxConn = 3
    Redirects = TRUE
    MaxSends = 5
INVARIANTS
    NeverExhausted
    MadeWithinDemand
PROPERTIES
    ImplementsPool
    CurlImplementsPool
    EverySendEnds
CHECK_DEADLOCK FALSE
