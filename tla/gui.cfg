SPECIFICATION Spec
CONSTANTS
    Blocks = 10
    Capacity = 3
    MaxInits = 2
INVARIANTS
    GuiBlocksOwned
    WindowListSound
CHECK_DEADLOCK FALSE
