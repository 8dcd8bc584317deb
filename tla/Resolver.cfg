CONSTANTS
  x = x
  y = y
  f = f
  g = g
  Name = {x, y, f, g}
  Literal = Literal
  Texts <- AllTexts
  MaxScopes = 7

SPECIFICATION Spec

INVARIANTS
  TypeOK
  HopsLand
  ReadsOwn
PROPERTY
  ValuesStay
