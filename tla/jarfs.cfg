SPECIFICATION Spec
CONSTANTS
    Devices = {d}
    Mounts = {m1, m2}
    Files = {f1, f2}
    Sizes <- MCSizes
    Counts = {3000}
    Leftovers = {0, 8000}
    Strays <- OneStray
    U32 = 1024
    U64 = 10000
    MaxMounts = 2
    NULL = NULL
INVARIANTS SuperblocksSound RootValid MountListComplete FilesOwned NoFault
SYMMETRY AnyBlock
CHECK_DEADLOCK FALSE
