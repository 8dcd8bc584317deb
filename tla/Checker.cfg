CONSTANTS
  a = a
  b = b
  c = c
  File = {a, b, c}
  Missing = Missing
  Broken = Broken
  Disks <- MCDisks
  MaxDepth = 4

SPECIFICATION Spec

INVARIANTS
  VerdictDeserved
PROPERTY
  Ends
CHECK_DEADLOCK FALSE
