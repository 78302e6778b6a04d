SPECIFICATION Spec
CONSTANTS
    Calls <- MCCalls
    Memory <- MCMemory
    IntSize = 4194304
    WordSize = 33554432
INVARIANTS
    StringsAreRight
    BufferIsShown
    ArgumentsAreTheKernels
PROPERTIES LineEnds
CHECK_DEADLOCK FALSE
