SPECIFICATION Spec
CONSTANTS
  Half = 4
  ImmHalf = 3
  Values <- MCValues
INVARIANTS Products Quotients
PROPERTIES Undone
CHECK_DEADLOCK FALSE
