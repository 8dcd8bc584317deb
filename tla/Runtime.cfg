CONSTANTS
  Var = {"x", "y"}
  Spelled <- MCSpelled
  Depth = 5
  Top = 3
  MaxArrays = 2
  MaxLength = 2
  MaxStack = 2
  MaxRounds = 9
  Programs <- MCPrograms
  Sources <- MCSources
  Stores <- MCStores

SPECIFICATION Spec
INVARIANTS RoundsSettled EqualMeansAlike OperatorsAgree FoldedAlike
CHECK_DEADLOCK FALSE
