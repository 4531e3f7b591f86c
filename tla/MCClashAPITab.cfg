CONSTANTS
    Groups <- MCGroups
    Members <- MCMembers
    ConfigGroups <- MCConfigGroups
    ConfigDefault = "g2"
    ProxyOut = ProxyOut
    NameRank <- MCNameRank
    DelayOf <- MCDelayOf
    NoGroup = NoGroup
    NoName = NoName
    MaxOps = 4
SPECIFICATION Spec
INVARIANTS
    TypeOK
    ListIsGroupSnapshot
    DelayShownIsMeasured
PROPERTY StatusSettles
CHECK_DEADLOCK FALSE
