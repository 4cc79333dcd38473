SPECIFICATION Spec
CONSTANTS
    BYTE = 16
    CHUNK = 512
    PAGE = 128
    STACK_TOP = 49152
    STACK_SIZE = 1024
    MMAP_BASE = 16384
    CSTR_MAX = 6
    EHSIZE = 8
    PHENT = 4
    EM_386 = 3
    IO_CHUNK = 4
    MAX_IOV = 2
    GDT_BASE = 65408
    LIMIT_MAX = 255
    RANDOM_MAX = 2
    SLASH = 15
    Entry = 4352
    MaxSteps = 3
    HostFiles <- MCHostFiles
    Refused <- MCRefused
    Broken <- MCBroken
    NOW <- MCNow
    Images <- MCImages
    PCs <- MCPCs
    Isa <- MCIsa
    Calls <- MCCalls
    Moods <- MCMoods
    StdIn <- MCStdIn
    Sinks <- MCSinks
INVARIANT SegvPrecise
INVARIANT MemoryGiven
INVARIANT EntryImageExact
PROPERTY TransfersInOrder
CHECK_DEADLOCK FALSE
