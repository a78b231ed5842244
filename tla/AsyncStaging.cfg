CONSTANTS
  Workers = {w1, w2}
  MaxStages = 3
SPECIFICATION AsyncSpec
INVARIANTS AsyncTypeOK NoOrphanFill OneFillAtATime
PROPERTIES NeverOlder EntriesReturn
CHECK_DEADLOCK FALSE
