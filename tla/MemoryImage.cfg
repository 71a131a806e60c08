SPECIFICATION Spec
CONSTANTS
    Configs <- MCConfigs
    Lines <- MCLines
INVARIANTS ReadsReturnLastWrite FilesSound 
CHECK_DEADLOCK FALSE
