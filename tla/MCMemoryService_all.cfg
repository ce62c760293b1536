\* A local client that keeps asking, the keepalive thread, another borrower, and
\* a network that fails.
SPECIFICATION RecoverySpec
CONSTANTS
    c1 = c1
    Clients = {c1}
    Ids = {1, 2, 3}
    SIZE = 4
    SECTOR_SIZE = 1
    BLOCK = 2
    OtherBlocks = {1}
    Ranges <- TestRanges
INVARIANTS TypeOK LeaseRecordConsistent OutsideOnlyWhenRegionMoved
PROPERTIES OtherBytesForAReason LockReleased LeaseRecovered
CHECK_DEADLOCK FALSE
