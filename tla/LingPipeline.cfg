CONSTANTS
  NumExperts = 6
  NGroup = 2
  TopkGroup = 1
  TopKExperts = 2
  Bias <- MCBias
  LayerCount = 4
  Start = 1
  Logits <- MCLogits
  Vectors <- MCVectors
  Requests = 1
  MaxPos = 5
SPECIFICATION Spec
INVARIANTS TypeOK ZeroDrop SelectionLaw FreshRouting
  FullStackWindow
CHECK_DEADLOCK FALSE
