CONSTANTS
    Strings <- MCStrings
    Trim <- MCTrim
    NonString = NonString
    NonArray = NonArray
    MatchKeys = {"ip_cidr", "domain", "domain_suffix"}
    InitRules <- MCInitRules
    AvailChoices <- MCAvailChoices
    DefaultOutboundTag = "direct-out"
    RejectActionName = "reject"
    Texts <- MCTexts
    MaxWindows = 3
    MaxEdits = 2
SPECIFICATION Spec
INVARIANTS
    TypeOK
    RegistryMatchesOpenWindows
PROPERTIES
    SaveWritesValidRule
CHECK_DEADLOCK FALSE
