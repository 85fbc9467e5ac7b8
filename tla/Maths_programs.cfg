SPECIFICATION MathsSpec
CONSTANTS
  Nib = 4
  Ten = 3
  ByteHalf = 8
  OtherHalf = 16
  Halves <- MCHalves
  MaxLimbs = 3
  ByteW = 2
  WordW = 3
  LongW = 6
  MaxCount = 7
  MaxOperands = 3
  Counts <- MCCounts
  Sources <- MCSources
INVARIANTS LongResult UnsignedConditions SignedConditions DecimalAdjust Rotation LongShift ShiftValue
