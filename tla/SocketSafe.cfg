\* Sockets used once their Create Response came, and closed from the main loop.
SPECIFICATION FairSpec
CONSTANTS
    Dev = {d1}
    NULL = NULL
    N = 2
    Ids = {1, 2}
    FrameMax = 3
    Uid = {1, 2, 3}
    Protocol = {"UDP", "TCP"}
    Patient = TRUE
    FreeInCallback = FALSE
    MaxCall = 4
    MaxEvent = 2
    MaxDepth = 2
INVARIANTS OwnerNotified HostAgrees
PROPERTIES LifeCycle Settles
CHECK_DEADLOCK FALSE
