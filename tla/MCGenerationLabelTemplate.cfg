CONSTANTS
    NumSources = 2
    MaxNodes = 2
    MaxLines = 2
    MaxConns = 2
    NoNode = NoNode
    NonString = NonString
    DecodedNodes <- MCDecodedNodesCurly
    Templates <- MCLabelTemplates
    LocalConfigs <- MCLocalConfigs
    GlobalConfigs <- MCGlobalConfigs
SPECIFICATION Spec
INVARIANT
    TemplatesExpandOnce
CHECK_DEADLOCK FALSE
