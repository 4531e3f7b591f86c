CONSTANTS
    NumSources = 2
    MaxNodes = 2
    MaxLines = 1
    MaxConns = 1
    NoNode = NoNode
    NonString = NonString
    DecodedNodes <- MCDecodedNodesDash
    Templates <- MCTemplates
    LocalConfigs <- MCLocalConfigs
    GlobalConfigs <- MCGlobalClash
SPECIFICATION Spec
PROPERTY
    ImplementsAbstract
CHECK_DEADLOCK FALSE
