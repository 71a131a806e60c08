SPECIFICATION Spec
CONSTANTS
    RpCount = 2
    Kinds <- MCKinds
    NarrowKinds <- MCNarrowKinds
    Capacity <- MCCapacity
    MsgGranules <- MCMsgGranules
INVARIANTS Conservation RoomForAll
PROPERTIES CreditComesBack
CHECK_DEADLOCK FALSE
