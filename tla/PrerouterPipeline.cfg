CONSTANTS
  LayerCount = 4
  Start = 1
  e1 = e1
  e2 = e2
  Routes <- MCRoutes
  Requests = 2
  MaxPos = 5
SPECIFICATION Spec
INVARIANTS TypeOK ZeroDrop FreshRouting SlotsFollowPrediction
CHECK_DEADLOCK FALSE
