SPECIFICATION MCSpec
CONSTANTS
    Writers = {w1, w2, w3}
    Readers = {r1, r2}
    Size = 1
    MaxItems = 5
INVARIANTS
    OvershootBound
PROPERTIES
    ImplementsFifo
    EveryItemReadByPair
CHECK_DEADLOCK FALSE
