\* Violated by the code: see the property.
SPECIFICATION Spec
CONSTANTS
    PAGE_FRAME_SIZE = 4194304
    PAGE_FRAME_MAX_COUNT = 6
    PAGING_DIRECTORY_TABLE_MAX_COUNT = 3
    PROCESS_PAGE_FRAME_COUNT_MAX = 2
    PROCESS_COUNT_MAX = 2
    BufferSizes = {1048576, 4194305}
    EntryPages = {0, 768}
INVARIANT
    AcceptedCreationFits
