SPECIFICATION Spec
CONSTANTS
  W = 8
  Nibble = 4
  Inputs <- MCInputs
INVARIANT ProgramsExact
INVARIANT TranslatorTablesSound
CHECK_DEADLOCK FALSE
