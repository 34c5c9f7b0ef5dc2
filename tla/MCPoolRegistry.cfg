SPECIFICATION RegistrySpec
CONSTANTS
  t1 = t1
  t2 = t2
  t3 = t3
  Threads <- MCThreads
  Regions = {1, 2, 3}
  MaxPools = 2
SYMMETRY SameThreads
INVARIANTS
  PoolsKeepTheirSlots
  GuardHitFound
  BlamesRightPool
CHECK_DEADLOCK FALSE
