SPECIFICATION FairSpec
CONSTANTS
    BLOCKLEN = 2
    Sectors = {1, 2}
    MaxCount = 2
    Tries = 2
    MaxSwaps = 1
INVARIANTS TypeOK ReadsRight StreamStopped OpenIsInitialized
PROPERTIES CallEnds
