SPECIFICATION Spec
CONSTANTS
  W = 3
  Nibble = 2
  Bits <- MCBits
  Insns <- MCInsns
  Terms <- MCTerms
  EffectOf <- MCEffectOf
  MAX_BLOCK_INSNS = 3
INVARIANT ReadsExact
INVARIANT ExitExact
CHECK_DEADLOCK FALSE
