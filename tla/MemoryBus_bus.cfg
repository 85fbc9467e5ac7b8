SPECIFICATION Spec
CONSTANTS
  ram = ram
  rom = rom
  None = None
  AddrMod = 6
  MaxCount = 3
  MaxRanges = 4
  Zero = 0
  Byte = {0}
  Straddling = TRUE
  Dev <- MCDev
  Size <- WideSize
  Image <- WideImage
  ROM = {rom}
  Plug <- OverlappingPlug
INVARIANTS NoneSwallowed NothingPassedOver AccessLedger OverrunBounded
PROPERTIES CallsReturn
