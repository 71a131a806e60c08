SPECIFICATION Spec
CONSTANTS
    Configs <- MCSafetyConfigs
    Bytes <- MCBytes
    BankCount = 2
INVARIANTS ReadsSeeLatestWrite ImageConverges ExactlyOneResponse ActiveOwnsBank NoFatal RefreshDebtBounded
