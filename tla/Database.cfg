\* A server and a reset command on one database, two migrations, requests over
\* one connection, clients that stall, two faults.
SPECIFICATION FairSpec
CONSTANTS
    Worker = {w1, w2}
    Nobody = Nobody
    Requests = {"file", "upload", "selfcheck"}
    Migrations = 2
    Creating = {1}
    MaxRows = 1
    MaxFaults = 2
INVARIANTS
    TypeOK
    AppliedOnce
    OpenedIsMigrated
    StreamsHoldNothing
PROPERTIES
    NobodyStarves
    ServerComesUp
    ShutdownEnds
