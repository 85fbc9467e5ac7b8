SPECIFICATION Spec
CONSTANTS
  Byte = {0, 1, 2, 3, 4}
  Half = 8
  Mapped <- MCMapped
  Memories <- MCMemories
  Accumulators <- MCAccumulators
  Setups <- MCSetups
  Reloads <- MCReloads
  Code <- MCCode
  Input <- MCInput
  MaxSteps = 2
  MaxSaves = 1
  MaxLoads = 1
INVARIANTS Progress  Ends Streams
CHECK_DEADLOCK FALSE
