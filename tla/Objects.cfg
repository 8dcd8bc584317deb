CONSTANTS
  Key = {1, 2, 3}
  Value = {a, b}
  Kept = {a, b}
  Ref = {r1, r2}
  NoObject = NoObject
  Literals <- SomeOrders

SYMMETRY Symmetry

SPECIFICATION Spec

INVARIANTS
  TypeOK
  SchemaTable
  OneValuePerKey
PROPERTIES
  OverwriteInPlace
  AddKeepsEntries
  CopyEqualsOriginal
