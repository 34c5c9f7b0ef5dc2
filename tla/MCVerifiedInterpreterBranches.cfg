SPECIFICATION Spec
CONSTANTS
  HalfWord = 16
  MaxStack = 14
  Globals = 1
  Strings = 2
  Entry = 0
  MaxFrames = 3
  StringTable <- MCStringTable
  Inputs = {0, 1}
  IntBits = 3
  MaxObjects = 5
  Programs <- BranchPrograms
  Unverified = {}
INVARIANT
  AcceptsCompiled
CHECK_DEADLOCK FALSE
