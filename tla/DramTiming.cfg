SPECIFICATION Spec
CONSTANT Configs <- MCConfigs
INVARIANT TraceAccepted
PROPERTY AllServed
