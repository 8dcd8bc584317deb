CONSTANTS
  Key = {1, 2, 3}
  Value = {a, b}
  Kept = {a, b}
  Ref = {r1, r2}
  NoObject = NoObject
  Literals <- AllOrders

SYMMETRY Symmetry

SPECIFICATION OrderedSpec

PROPERTY
  ObjectsAreMaps
