SPECIFICATION Spec
CONSTANTS
  ByteMod = 4
  Code <- MCCode
  Values = {5, 250}
  Origin = 248
  Files <- MCFiles
  MaxSteps = 1
INVARIANTS Lands OperandPlace FaultsInside
CHECK_DEADLOCK FALSE
