CONSTANTS
    NumSources = 1
    MaxNodes = 2
    MaxLines = 1
    MaxConns = 1
    NoNode = NoNode
    NonString = NonString
    DecodedNodes <- MCDecodedNodesText
    Templates <- MCTemplates
    LocalConfigs <- MCNoSelectors
    GlobalConfigs <- MCGlobalCommented
SPECIFICATION Spec
INVARIANT
    TextRoundTrips
CHECK_DEADLOCK FALSE
