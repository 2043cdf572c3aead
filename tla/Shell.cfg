\* Two shells, two folders at most, paths up and down, relative and absolute.
SPECIFICATION FairSpec
CONSTANTS
    MaxShells = 2
    Names = {"a", "b", "shell"}
    Paths <- MCPaths
    LastCluster = 5
    DIRECTORY_ENTRIES = 4
    MaxPath = 3
    MaxCommands = 5
INVARIANTS
    TypeOK
    PathNamesDirectory
    CacheFresh
    TreeSound
PROPERTIES
    StaysPut
    CommandsReturnOrSpin
