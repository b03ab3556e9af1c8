CHECK_DEADLOCK FALSE
SPECIFICATION Spec
CONSTANTS
    t1 = t1
    c1 = c1
    c2 = c2
    ann = ann
    bob = bob
    Tabs <- OneTab
    Calls <- OneCall
    TabOf <- OneCallTab
    Users <- TwoUsers
    MaxPairs = 3
    MaxFaults = 2
INVARIANTS
    SingleUse
    NoOrphanSession
    PageMatchesTokens
PROPERTIES
    FreshTokensKept
    Settles
