CONSTANTS
  Workers = {w1, w2}
  MaxStages = 2
SPECIFICATION AsyncSpec
INVARIANT NoSelfDeadlock
CHECK_DEADLOCK FALSE
