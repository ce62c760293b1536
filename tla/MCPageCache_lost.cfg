\* One page too many: dirty pages are evicted.
SPECIFICATION Spec
CONSTANTS
    PAGE_SIZE = 2
    RemoteSize = 5
    Capacities = {2}
    Values = {0, 1}
    Writes <- SmallWrites
    ReadLengths = {1, 3}
PROPERTY OnlyWritesChangeContents
