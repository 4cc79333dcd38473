SPECIFICATION Spec
CONSTANTS
  PageSize = 2
  PhysPages = 2
  RamPages = 2
  Byte = {0, 1}
  Ctx = {"d16", "d32"}
  MaxInsnLen = 2
  InsnLen <- MCInsnLen
  Hot = {1}
  Widths = {1, 2}
  CodeSegment <- MCCodeSegment
  STAMP_SLOTS = 2
  ICACHE_ENTRIES = 1
  ResetSegment <- MCResetSegment
  ResetEip = 2
  MaxClock = 3
INVARIANT NoStaleEntry
PROPERTY ImplementsFused
