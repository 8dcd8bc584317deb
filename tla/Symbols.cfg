CONSTANTS
  x = x
  y = y
  z = z
  w = w
  f = f
  g = g
  a = a
  b = b
  Name = {x, y, z, w, f, g, a, b}
  Literal = Literal
  Hidden = Hidden
  Texts <- MCTexts

SPECIFICATION Spec

INVARIANTS
  FindsDeclaration
  FindsMore
  TypesFollow
CHECK_DEADLOCK FALSE
