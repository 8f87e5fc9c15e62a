SPECIFICATION FairSpec
CONSTANTS
    Images <- SomeImages
    PageSize = 2
    LowByte = 2
    Room = 4
    RxRoom = 3
    Retries = 1
    EnterWait = 1
    ReadyWait = 0
    LoadTimeout = 1
    MaxGap = 1
    MaxFault = 1
INVARIANTS WholeImage InPlace Headed
PROPERTIES Ends Installs
CHECK_DEADLOCK FALSE
