CONSTANTS
  Layers = {l1}
  Experts <- MCExperts
  SlotCount = 2
  LruSlots = 2
  Nil = Nil
SPECIFICATION Spec
INVARIANTS TypeOK StackServesStagedSet FreeSlotForEveryChanged LruSound
PROPERTY ImplementsStagedView
