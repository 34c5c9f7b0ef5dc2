SPECIFICATION Spec
CONSTANTS
  w1 = w1
  w2 = w2
  Main = Main
  NoItem = NoItem
  NoThread = NoThread
  Workers <- MCWorkers
  Sizes <- MCSizes
  PageSize = 2
  SizeValues = 256
INVARIANTS
  TypeOK
  RemainingCountsChunks
  QuietBetweenCalls
PROPERTIES
  ImplementsMemcpy
  CallReturns
