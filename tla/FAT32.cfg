\* Three free clusters, folders with room for two entries, files of one and two
\* clusters; the machine is switched off and on between requests.
SPECIFICATION StoreSpec
CONSTANTS
    CLUSTER_MAP_SIZE = 6
    CLUSTER_SIZE = 2
    DIRECTORY_ENTRIES = 4
    Names = {a, b}
    Exts = {""}
    Sizes = {0, 1, 3}
    Contents = {x, y}
    MaxPowerLoss = 0
    Hazards = {}
SYMMETRY Interchangeable
INVARIANTS
    TypeOK
    MapMirrored
    ClustersOwnedOnce
    FoldersLinkedBothWays
    NeverWild
PROPERTIES
    ImplementsFileStore
    RepliesTellTheTruth
    ReadsWhatWasWritten
