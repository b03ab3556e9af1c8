CHECK_DEADLOCK FALSE
SPECIFICATION Spec
CONSTANTS
    t1 = t1
    c1 = c1
    c2 = c2
    ann = ann
    bob = bob
    Tabs <- OneTab
    Calls <- TwoCalls
    TabOf <- TwoCallsTab
    Users <- TwoUsers
    MaxPairs = 4
    MaxFaults = 0
PROPERTIES
    FreshTokensKept
