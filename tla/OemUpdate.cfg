SPECIFICATION FairSpec
CONSTANTS
    Guard = 1
    AnswerWait = 1
    CommandWait = 2
    Room = 2
    RespSize = 4
    Setups <- SomeSetups
    Blocks = 2
    Parts = 3
    Reply <- UR
    Tries = 1
    BreakWait = 0
    PlusWait = 1
    ReplyWait = 1
    FinalWait = 0
    GuardAfter = 1
    RxRoom = 3
    MaxAsk = 2
    MaxGap = 1
    MaxFault = 1
INVARIANTS WholeImage OwnAnswer ModesAgree
PROPERTIES Installs
CHECK_DEADLOCK FALSE
