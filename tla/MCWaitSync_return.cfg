SPECIFICATION Spec
CONSTANTS Workers = {w1, w2}
          Waiters = {x1}
INVARIANT ReturnMeansFinished
CHECK_DEADLOCK FALSE
