SPECIFICATION Spec
CONSTANTS
  ByteMod = 6
  Mapped <- MCMapped
  Registers <- MCRegisters
  Operands = {5}
  Origin = 40
  Rels <- MCRels
  Places = {7}
  Frees = {0, 4}
  Allocs = {4}
  Levels = {0, 2}
  MaxSteps = 5
  MaxLoose = 1
  MaxJumps = 2
  MaxFrames = 3
INVARIANTS TypeOK FramesIntact Unwinds
CHECK_DEADLOCK FALSE
