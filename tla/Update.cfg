\* A file of two blocks, one fault.
SPECIFICATION FairSpec
CONSTANTS
    Blocks = 2
    Packets = 4
    Room = 2
    Wrap = 3
    Tries = 2
    LoadTries = 2
    AckWait = 2
    FinalWait = 1
    LoadWait = 0
    BreakWait = 0
    DoneWait = 0
    MaxGap = 1
    MaxFault = 1
INVARIANTS WholeImage InOrder
PROPERTIES Ends Boots
CHECK_DEADLOCK FALSE
