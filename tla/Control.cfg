CONSTANTS
  x = x
  y = y
  void = void
  Value = {x, y, void}
  Void = void
  Unmarked = Unmarked
  MaxLevels = 6

SYMMETRY Symmetry

SPECIFICATION Spec

INVARIANTS
  TypeOK
  MarkedStops
PROPERTIES
  CallsAreFrontiers
  ReturnArrives
