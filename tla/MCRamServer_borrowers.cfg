\* Two borrowers whose handlers interleave freely, and that never renew.
SPECIFICATION RetrySpec
CONSTANTS
    c1 = c1
    c2 = c2
    Conns = {c1, c2}
    Issues <- NoRenewal
    SIZE = 6
    SECTOR_SIZE = 2
    MAX_BLOCK = 2
    LEASE_SECONDS = 2
    MaxLeases = 3
    Requests = {1, 6}
    Payloads = {1}
INVARIANTS
    LeasesWellFormed
    GrantsDistinct
    ScanIsFirstFit
PROPERTY BorrowEventuallyGranted
