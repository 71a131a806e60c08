SPECIFICATION Spec
CONSTANTS
    Configs <- MCShipped
    Lines <- MCLines
INVARIANT ReadsReturnLastWrite
CHECK_DEADLOCK FALSE
