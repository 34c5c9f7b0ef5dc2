SPECIFICATION Spec
CONSTANTS
  x = x
  y = y
  z = z
  w = w
  a = a
  b = b
  c = c
  d = d
  Text = Text
  Empty = Empty
  Nullptr = Nullptr
  Absent = Absent
  Freed = Freed
  Objects <- MCObjects
  Addresses <- MCAddresses
  Strings <- MCStrings
SYMMETRY SameNames
INVARIANTS
  OnlySharedStringsLeak
PROPERTY
  ImplementsStringValues
