\* Requests may name the folder they are made in: violated by the code.
SPECIFICATION StoreSpec
CONSTANTS
    CLUSTER_MAP_SIZE = 6
    CLUSTER_SIZE = 2
    DIRECTORY_ENTRIES = 4
    Names = {a, b}
    Exts = {""}
    Sizes = {0, 3}
    Contents = {x}
    MaxPowerLoss = 0
    Hazards = {"own_name"}
SYMMETRY Interchangeable
INVARIANT
    NoDanglingEntry
