SPECIFICATION FairSpec
CONSTANTS Workers = {w1, w2}
          Waiters = {x1}
PROPERTY WaitReturns
CHECK_DEADLOCK FALSE
