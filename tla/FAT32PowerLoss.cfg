\* One power loss, at any write of a format or a request.
SPECIFICATION StoreSpec
CONSTANTS
    CLUSTER_MAP_SIZE = 5
    CLUSTER_SIZE = 2
    DIRECTORY_ENTRIES = 4
    Names = {a, b}
    Exts = {""}
    Sizes = {0, 1, 3}
    Contents = {x}
    MaxPowerLoss = 1
    Hazards = {}
SYMMETRY Interchangeable
INVARIANTS
    ChainsAscend
PROPERTIES
    PowerLossHarmsOnlyTheTarget
    RequestsProgress
