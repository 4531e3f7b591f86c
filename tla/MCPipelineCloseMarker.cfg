CONSTANTS
    Versions = {4}
    Reloads = {"", "1h"}
    Stamps = {"t0"}
    Bodies = {"plain", "star"}
    BodyText <- MCBodyText
    Now = "t1"
    NoConfig = NoConfig
    Leads <- MCLeads
    Tails <- MCTails
    NumSources = 1
    MaxNodes = 2
    MaxLines = 2
    MaxConns = 2
    NoNode = NoNode
    NonString = NonString
    DecodedNodes <- MCDecodedNodes
    Templates <- MCTemplates
    LocalConfigs <- MCNoSelectors
    GlobalConfigs <- MCNoSelectors
SPECIFICATION Spec
INVARIANTS
    LoadedAsWritten
CHECK_DEADLOCK FALSE
