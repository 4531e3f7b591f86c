CONSTANTS
    NumSources = 2
    MaxNodes = 2
    MaxLines = 2
    MaxConns = 2
    NoNode = NoNode
    NonString = NonString
    DecodedNodes <- MCDecodedNodes
    Templates <- MCTemplates
    LocalConfigs <- MCLocalAddOnly
    GlobalConfigs <- MCGlobalConfigs
SPECIFICATION Spec
INVARIANT
    LocalSelectorsWithMembersEmitted
CHECK_DEADLOCK FALSE
