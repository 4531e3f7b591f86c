CONSTANTS
    NumSources = 2
    MaxNodes = 2
    MaxLines = 2
    MaxConns = 2
    NoNode = NoNode
    NonString = NonString
    DecodedNodes <- MCDecodedNodes
    Templates <- MCTemplates
    LocalConfigs <- MCLocalConfigs
    GlobalConfigs <- MCGlobalConfigs
SPECIFICATION Spec
INVARIANTS
    TypeOK
    DedupInLoadOrder
    LoadedAsConfigured
    RunResult
    TextRoundTrips
CHECK_DEADLOCK FALSE
