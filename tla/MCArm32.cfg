CONSTANTS
  ByteBits = 3
  MemWords = 80
  ArmCode <- MCArmCode
  ThumbCode <- MCThumbCode
  ICACHE_ENTRIES = 16
  PageBytes = 32
  STAMP_SLOTS = 2
  Image <- MCImage
  Start <- MCStart
  HandlerWords = {78, 79}
  Patch <- MCPatch
  Budgets = {2}
  MaxEvents <- MCMaxEvents
  MaxClock <- MCMaxClock
SPECIFICATION Spec
INVARIANT ProgramUndisturbed
INVARIANT CacheExact
INVARIANT InstructionsExact
PROPERTY BanksIsolated
CHECK_DEADLOCK FALSE
