SPECIFICATION Spec
CONSTANTS
  MaxByte = 2
  SizeMod = 6
  MaxLen = 6
  MaxForeign = 4
  MaxSize = 7
  Payloads <- MCPayloads
  Foreign <- MCForeign
INVARIANTS RoundTrip WellFormed Strict
