\* The requests of the protocol test.
SPECIFICATION FairSpec
CONSTANTS
    SectorBytes = 2
    Threads = {"main"}
    Issues <- OneThread
PROPERTY RequestsReturn
CHECK_DEADLOCK FALSE
