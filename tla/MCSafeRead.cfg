SPECIFICATION ReadsSpec
CONSTANTS
  A = A
  B = B
  a = a
  b = b
  c = c
  d = d
  x = x
  None = None
  Callers <- MCCallers
  Readable = {a}
  Unmapped = {b, c}
  Truncated = {d}
  NonCanonical = {x}
  GoesOn = FALSE
INVARIANTS
  OnlyRacesEnd
  HandlersComeBack
PROPERTY
  AccessesEnd
