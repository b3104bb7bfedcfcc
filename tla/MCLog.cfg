SPECIFICATION FairSpec
CONSTANTS
    Chunks = 9
    Cell = 4
    EntryChunks = 1
    TextChunks = {1, 2, 3}
    Batch = 1
    rate_limit = 1
INVARIANTS
    TypeOK
    NothingLost
PROPERTIES
    HeapSpec
    Returns
