SPECIFICATION Spec
CONSTANTS
    Configs <- MCConfigs
    Ids <- MCIds
INVARIANTS NoAssertFails OrderKept WriteDataFollowsAddress ResponsesBelong StatusFaithful NativeOrder
PROPERTY CompletesAll
CHECK_DEADLOCK FALSE
