CONSTANTS
  x = x
  y = y
  void = void
  Value = {x, y, void}
  Void = void
  Unmarked = Unmarked
  MaxLevels = 5

SPECIFICATION Spec

PROPERTY
  ReturnStops
