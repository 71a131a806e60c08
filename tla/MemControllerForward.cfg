SPECIFICATION Spec
CONSTANTS
    Configs <- MCForwardConfigs
    Bytes <- MCBytes
    BankCount = 2
INVARIANT ReadsSeeLatestWrite
