CONSTANTS
  m1 = m1
  m2 = m2
  m3 = m3
  m4 = m4
  f = f
  Module = {m1, m2, m3, m4}
  Main = m1
  Name = {f}
  Layer <- Layers
  Programs <- AnyProgram
  MaxStack = 7

SPECIFICATION Spec

INVARIANTS
  TypeOK
  LoadVerdict
  ExecutedOnce
  NoSelfWait
PROPERTIES
  ReadsSettled
  LoadEnds

\* A thread that waits for itself stops the program.
CHECK_DEADLOCK FALSE
