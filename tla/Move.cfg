\* Four commands by two shells: a file and a folder moved, a folder renamed, a source
\* that is missing, copies gone stale, and find afterwards or meanwhile.
SPECIFICATION MoveSpec
CONSTANTS
    MaxShells = 2
    Names = {"a", "b", "shell"}
    Paths <- MCPaths
    LastCluster = 6
    DIRECTORY_ENTRIES = 5
    MaxPath = 3
    MaxCommands = 4
    CopyArgs <- MCCopyArgs
    MoveArgs <- MCMoveArgs
    Goals = {"shell"}
    Garbage = {0, 4}
    MaxQueue = 4
    ListRows = 4
INVARIANTS
    PathNamesDirectory
    TreeSound
    FindTellsTheWay
