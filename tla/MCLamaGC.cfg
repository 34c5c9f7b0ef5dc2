SPECIFICATION GCSpec
CONSTANTS
  A = A
  B = B
  Plain = Plain
  None = None
  Bases <- MCBases
  Programs <- MCPrograms
  Globals = 0
  Locals = 0
  MinHeap = 6
  ExtraRoom = 1
  MaxExtraRoots = 2
  Ids = {1, 2, 3, 4, 5}
INVARIANTS
  GCTypeOK
  QueueHoldsObjects
  CollectionIsExact
PROPERTIES
  ImplementsObjectGraph
  AllocationEnds
CHECK_DEADLOCK FALSE
