\* Every operation, and a second thread that keeps the lease alive.
SPECIFICATION FairSpec
CONSTANTS
    SectorBytes = 2
    Threads = {"main", "keepalive"}
    Issues <- TwoThreads
INVARIANT ServerInStep
PROPERTIES RepliesMatch PlainRequestsReturn
CHECK_DEADLOCK FALSE
