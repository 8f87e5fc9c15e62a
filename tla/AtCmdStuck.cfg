\* The default table of two slots.
SPECIFICATION Spec
CONSTANTS
    Dev = {d1}
    NULL = NULL
    N = 2
    SeqMod = 2
    FrameMax = 3
    AppCmd = {"ND"}
    MultiCmd = {}
    List <- QueryList
    RefreshIdx = 2
    LocalTimeout = 1
    ReuseTimeout = 1
    RemoteTimeout = 2
    EarlyStatus = FALSE
    AppMax = 1
    MaxRequest = 1
    MaxEvent = 1
    MaxFail = 0
INVARIANT QueryAlive
