SPECIFICATION Spec
CONSTANTS
    Spaces = {s1, s2}
    MaxPages = 6
    Slots <- MCSlots
    KernelSlot = 1
    VAs <- UserVAs
    Targets = {20}
    Flags = {"W", "U"}
PROPERTIES PermissionsPerPage
CHECK_DEADLOCK FALSE
