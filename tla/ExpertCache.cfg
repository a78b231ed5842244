CONSTANTS
  Experts = {0, 1, 2}
  CallSets = {{0}, {1}, {0, 1}}
  LruSlots = 1
  BufferCap = 1
  Options <- MCOptions
  HotCount = 2
  HotKeys <- MCHotKeys
  PrefetchThreads = 1
  FutureIds = {1, 2}
SPECIFICATION Spec
INVARIANTS TypeOK OwnBundle NoOrphanPrefetch
PROPERTIES ForwardReturns PrefetchSettles
CHECK_DEADLOCK FALSE
