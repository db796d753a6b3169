SPECIFICATION Spec
CONSTANTS
    PageSize = 2
    BitsPerByte = 2
    MemoryMaps <- MCMemoryMaps
    FreeAddrs <- MCFreeAddrs
    MaxInits = 3
    NoMap = NoMap
INVARIANTS BitmapProtected BitmapExact
PROPERTIES AllocSound Implements
CHECK_DEADLOCK FALSE
