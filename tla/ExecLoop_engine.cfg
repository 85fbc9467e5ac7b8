SPECIFICATION Spec
CONSTANTS
  Programs <- AllPrograms
  MaxECX = 3
  CXMod = 2
  MaxCycles = 3
  MaxGas = 2
  MaxUsed = 4
INVARIANTS FlagScope LockScope GasCoversCycles PrefixesApply StartsAtInstruction
PROPERTIES RepCompletes ExecReturns
