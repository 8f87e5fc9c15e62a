\* A table with a slot to spare, so that no create has to tick.
SPECIFICATION FairSpec
CONSTANTS
    Dev = {d1}
    NULL = NULL
    N = 3
    SeqMod = 2
    FrameMax = 3
    AppCmd = {"ND"}
    MultiCmd = {}
    List <- QueryList
    RefreshIdx = 2
    LocalTimeout = 1
    ReuseTimeout = 1
    RemoteTimeout = 2
    EarlyStatus = FALSE
    AppMax = 1
    MaxRequest = 1
    MaxEvent = 1
    MaxFail = 0
INVARIANTS CallbackKeepsSlot AnswersOwnRequest QueryAlive
PROPERTIES RefreshHonoured SlotsDrain
