CONSTANTS
    Strings <- MCStrings
    Trim <- MCTrim
    NonString = NonString
    NonArray = NonArray
    MatchKeys = {"ip_cidr", "domain", "domain_suffix"}
    InitRules <- MCInitRules
    AvailChoices <- MCAvailChoices
    DefaultOutboundTag = "direct-out"
    RejectActionName = "reject"
    Texts <- MCTexts
    MaxWindows = 3
    MaxEdits = 0
SPECIFICATION Spec
PROPERTIES
    UntouchedEditKeepsRule
CHECK_DEADLOCK FALSE
