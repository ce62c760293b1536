\* Two connections that send every operation, their scans settled in time.
SPECIFICATION RetrySpec
ACTION_CONSTRAINT Calm
CONSTANTS
    c1 = c1
    c2 = c2
    Conns = {c1, c2}
    Issues <- Everything
    SIZE = 4
    SECTOR_SIZE = 2
    MAX_BLOCK = 3
    LEASE_SECONDS = 2
    MaxLeases = 2
    Requests = {0, 2, 3}
    Payloads = {1}
INVARIANTS
    TypeOK
    TableDisjoint
PROPERTIES
    RemovedStaysRemoved
    ImplementsPool
    BorrowersGetRoom
