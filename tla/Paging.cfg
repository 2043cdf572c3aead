\* Three directories of two user pages compete for five frames.
SPECIFICATION PagingSpec
CONSTANTS
    PAGE_FRAME_SIZE = 4194304
    PAGE_FRAME_MAX_COUNT = 6
    PAGING_DIRECTORY_TABLE_MAX_COUNT = 3
    PROCESS_PAGE_FRAME_COUNT_MAX = 2
INVARIANTS
    PagingTypeOK
    FrameAccounting
    FrameIsolation
    NoFrameLeak
