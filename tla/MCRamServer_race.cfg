\* Two borrowers whose scans interleave with each other's inserts.
SPECIFICATION Spec
CONSTANTS
    c1 = c1
    c2 = c2
    Conns = {c1, c2}
    Issues <- NoRenewal
    SIZE = 4
    SECTOR_SIZE = 2
    MAX_BLOCK = 4
    LEASE_SECONDS = 2
    MaxLeases = 2
    Requests = {2}
    Payloads = {1}
INVARIANT LiveDisjoint
