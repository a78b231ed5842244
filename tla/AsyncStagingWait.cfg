CONSTANTS
  Workers = {w1, w2}
  MaxStages = 2
SPECIFICATION AsyncSpec
PROPERTY WaitPromotes
CHECK_DEADLOCK FALSE
