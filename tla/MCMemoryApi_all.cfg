\* Regions over a cache of two or three pages for the three pages of remote memory.
SPECIFICATION ApiSpec
CONSTANTS
    PAGE_SIZE = 2
    RemoteSize = 5
    Capacities = {2, 3}
    Values = {0, 1}
    Writes <- SmallWrites
    ReadLengths = {2}
    Sizes = {2, 3, 5}
    MAX_TRANSFER = 2
    FillValues = {0}
INVARIANTS TypeOK CacheBounded CleanMatches
PROPERTIES
    LossOnlyByDirtyEviction ImplementsStore OperationsEnd
    ImplementsRegions CloseAfterFlush FillFills
