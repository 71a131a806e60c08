SPECIFICATION Spec
CONSTANTS
    RpCount = 2
    GranuleCount = 4
    Granules <- MCGranules
    PackMsgs = 2
    FlushTimeout = 1
    GrantTimeout = 2
    FdiDepth = 2
    MaxMsgs <- MCMsgs
    MaxCredit <- MCCredit
    MaxReturns = 2
    LinkMayFail = TRUE
INVARIANTS MessagesIntact NoException GrantsConserved
PROPERTIES EverythingArrives
CHECK_DEADLOCK FALSE
