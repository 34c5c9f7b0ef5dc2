SPECIFICATION FairSpec
CONSTANTS
  t1 = t1
  t2 = t2
  NoThread = NoThread
  Threads <- MCThreads
  Kinds <- MCKinds
  Sizes = {1, 2}
  PageSize = 4
  Capacity = 3
  MaxChunk = 2
INVARIANTS
  NoWildWrite
PROPERTIES
  ImplementsArena
  FullPoolEnds
CHECK_DEADLOCK FALSE
