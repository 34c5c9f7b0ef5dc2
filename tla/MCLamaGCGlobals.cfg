SPECIFICATION GCSpec
CONSTANTS
  A = A
  B = B
  Plain = Plain
  None = None
  Bases <- MCBases
  Programs <- MCGlobalsPrograms
  Globals = 1
  Locals = 0
  MinHeap = 6
  ExtraRoom = 1
  MaxExtraRoots = 2
  Ids = {1, 2, 3, 4, 5}
INVARIANT
  QueueHoldsObjects
CHECK_DEADLOCK FALSE
