SPECIFICATION DequesSpec
CONSTANTS
  d1 = d1
  d2 = d2
  x = x
  y = y
  NoItem = NoItem
  Deques <- MCDeques
  Items <- MCItems
  Capacities <- MCCapacities
INVARIANTS
  EndsAreElements
PROPERTY
  ImplementsDeque
