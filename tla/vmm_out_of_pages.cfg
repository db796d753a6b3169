SPECIFICATION Spec
CONSTANTS
    Spaces = {s1, s2}
    MaxPages = 6
    Slots <- MCSlots
    KernelSlot = 1
    VAs <- MCVAs
    Targets = {20, 21}
    Flags = {}
INVARIANTS OutOfPagesReported
CHECK_DEADLOCK FALSE
