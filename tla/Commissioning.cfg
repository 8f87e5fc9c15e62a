SPECIFICATION FairCommSpec
CONSTANTS
    Epid = {"p1", "p2"}
    Key = {"k"}
    Regs <- ShortRegs
    Default <- DefaultSas
    Role = "router"
    Requests <- WriteRequests
    Delays = {0, 1}
    MaxTool = 2
    MaxRoam = 1
    MaxFail = 1
INVARIANTS TracksNetwork Awaited Undivided
PROPERTIES SavesWhatJoined Restarts Saves
CHECK_DEADLOCK FALSE
