CONSTANTS
  Layers = {l1}
  Experts <- MCExperts
  SlotCount = 2
  LruSlots = 2
  Nil = Nil
SPECIFICATION FaultSpec
INVARIANT FreeSlotForEveryChanged
