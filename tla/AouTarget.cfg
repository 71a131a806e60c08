SPECIFICATION Spec
CONSTANTS
    RpCount = 2
    Writes <- MCWrites
    Reads <- MCReads
    REQUEST_SLOTS = 2
    WDATA_SLOTS = 1
    MAX_OUTSTANDING = 2
    MemDepth = 2
    TxDepth = 1
    GranuleCount = 2
    Granules <- MCGranules
    MaxCredit = 2
INVARIANTS NoFatal WritesHaveTheirData OutstandingExact AnswersInOrder
PROPERTY EverythingAnswered
