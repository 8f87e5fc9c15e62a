\* Frames of two to eight bytes, of which every second byte value is in use.
SPECIFICATION FairSpec
CONSTANTS
    Base = 6
    MaxLen = 8
    MaxDispatch = 2
    Handlers <- TwoHandlers
    RxSize = 3
    TxSize = 8
    Uses <- LinkUses
INVARIANTS InOrder Contained HandlersAgree WholeFrames
PROPERTY ComesToRest
