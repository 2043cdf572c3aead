\* Frames run out while a process is being created, and so do directories.
SPECIFICATION FairSpec
CONSTANTS
    PAGE_FRAME_SIZE = 4194304
    PAGE_FRAME_MAX_COUNT = 12
    PAGING_DIRECTORY_TABLE_MAX_COUNT = 5
    PROCESS_PAGE_FRAME_COUNT_MAX = 3
    PROCESS_COUNT_MAX = 4
    BufferSizes = {1048576, 4194305, 8388609}
    EntryPages = {0, 768}
INVARIANTS
    TypeOK
    OneRunning
    OwnAddressSpace
    DistinctPids
    InactiveIndexExists
    ImageMapped
PROPERTIES
    PagingSpec
    TerminateSwitches
    ReadyRuns
