SPECIFICATION Spec
CONSTANTS
    Spaces = {s1, s2}
    MaxPages = 8
    Slots <- MCSlots
    KernelSlot = 1
    VAs <- MCVAs
    Targets = {20}
    Flags = {"NX"}
INVARIANTS TlbCoherent KernelShared
PROPERTIES MapIsLocal CrashesExplained
SYMMETRY AnySpace
VIEW SameTables
CHECK_DEADLOCK FALSE
