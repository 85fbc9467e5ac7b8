SPECIFICATION Spec
CONSTANTS
  ram = ram
  rom = rom
  None = None
  AddrMod = 6
  MaxCount = 3
  MaxRanges = 3
  Zero = 0
  Byte = {0, 1}
  Straddling = FALSE
  Dev <- MCDev
  Size <- MCSize
  Image <- MCImage
  ROM = {rom}
  Plug <- DisjointPlug
PROPERTIES FlatSpec
