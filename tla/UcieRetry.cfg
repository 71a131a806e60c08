SPECIFICATION Spec
CONSTANTS
    SeqMod = 4
    Window = 2
    NakRepeat = 2
    FdiDepth = 1
    MaxFlits = 6
    MaxErrors = 2
    MaxWire = 3
    MaxFeedback = 2
INVARIANTS NothingLost WindowUnambiguous NoLostWakeup
PROPERTIES ImplementsLiveFifo Settles
CHECK_DEADLOCK FALSE
