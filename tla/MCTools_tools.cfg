SPECIFICATION MCSpec
CONSTANTS
    Workers = {w1, w2, w3, w4}
    Waiters = {x1}
    Items = {item}
    Options <- MCOptions
    MaxClock = 4
INVARIANTS
    WaitMeansDone
    NoStranding
    PacedCalls
PROPERTY
    DestructorQuiets
CHECK_DEADLOCK FALSE
