SPECIFICATION FairSpec
CONSTANTS
  w1 = w1
  w2 = w2
  w3 = w3
  c1 = c1
  c2 = c2
  main = main
  a = a
  b = b
  d = d
  NoItem = NoItem
  NoThread = NoThread
  Workers <- MCWorkers
  Clients <- MCClients
  Tasks <- MCTasks
  Owner = main
  Capacity = 2
INVARIANTS
  WorkConserving
PROPERTIES
  ImplementsTaskQueue
  EveryTaskStarts
  StopReturns
CHECK_DEADLOCK FALSE
