SPECIFICATION JitFairSpec
CONSTANTS
  PageSize = 3
  PhysPages = 2
  RamPages = 2
  Byte = {"body", "jcc", "other"}
  Ctx = {"d16", "d32"}
  MaxInsnLen = 2
  InsnLen <- MCInsnLen
  Hot <- MCHot
  Widths = {1}
  CodeSegment <- MCFlat
  D32 = {"d32"}
  Kind <- MCKind
  Rel <- MCRel
  Budgets = {4}
  Stores <- MCStores
  STAMP_SLOTS = 2
  JIT_SLOTS = 2
  HOT_SLOTS = 1
  HOT_THRESHOLD = 2
  MAX_BLOCKS = 2
  MAX_BLOCK_INSNS = 2
  ResetPlace <- MCResetPlace
  Programs <- MCPrograms
  Places <- MCPlaces
  MaxClock = 2
PROPERTY RunReturns
INVARIANT NoStaleBlock
PROPERTY ImplementsInterp
