SPECIFICATION Spec
CONSTANTS
    PageSize = 2
    BitsPerByte = 2
    MemoryMaps <- MCMemoryMaps
    FreeAddrs <- MCFreeAddrs
    MaxInits = 1
    NoMap = NoMap
INVARIANTS BitmapAlwaysProtected
CHECK_DEADLOCK FALSE
