SPECIFICATION Spec
CONSTANTS
    Configs <- MCClosedPageConfigs
    Bytes <- MCBytes
    BankCount = 2
INVARIANT ActiveOwnsBank
