SPECIFICATION Spec
CONSTANTS
    PAGE_SIZE = 8
    Levels <- MCLevels
    Space <- MCSpace
    MMAP_BASE <- MCMmapBase
    STACK_TOP <- MCStackTop
    STACK_LIMIT <- MCStackLimit
    XFER_CHUNK = 3
    UIO_MAXIOV = 3
    GDT_BASE = 496
    TLS_MIN = 6
    TLS_COUNT = 2
    EXE_PIE_BASE <- MCPieBase
    INTERP_BASE <- MCInterpBase
    USER_END = 16384
    INIT_STACK = 24
    Programs <- MCPrograms
    Budgets <- MCBudgets
    RUN_CHUNK = 3
    MaxTraps = 3
    MaxInsns = 2
INVARIANT CachesCoherent
INVARIANT TrapsServedOnce
PROPERTY MappingsExact
PROPERTY TransferExact
PROPERTY DescriptorsIsolated
PROPERTY StartStackExact
CHECK_DEADLOCK FALSE
