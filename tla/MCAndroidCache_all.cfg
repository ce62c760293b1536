\* One cached page for two pages of remote memory.
SPECIFICATION Spec
CONSTANTS
    PAGE = 2
    RemoteSize = 4
    Capacity = 1
    Values = {0, 1}
    Junk = 9
    Writes <- SmallWrites
    ReadLengths = {2}
    MaxLate = 3
INVARIANTS CacheBounded WrittenThrough
PROPERTY ImplementsStore
CHECK_DEADLOCK FALSE
