\* Two connections that send every operation, their scans settled in time.
SPECIFICATION Spec
ACTION_CONSTRAINT Calm
CONSTANTS
    c1 = c1
    c2 = c2
    Conns = {c1, c2}
    Issues <- Everything
    SIZE = 4
    SECTOR_SIZE = 2
    MAX_BLOCK = 4
    LEASE_SECONDS = 2
    MaxLeases = 2
    Requests = {0, 1, 2, 5}
    Payloads = {1}
INVARIANTS
    TypeOK
    LiveDisjoint
PROPERTIES
    LeaseLossJustified
    ZeroingSparesOthers
    ImplementsPool
