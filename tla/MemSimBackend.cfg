SPECIFICATION Spec
CONSTANTS
    Configs <- MCConfigs
    Lines <- MCLines
INVARIANTS NoException TagsHeldWhileInFlight HostResponsesWhole
PROPERTIES ImplementsOrderedMemory FrontendDrains
