CHECK_DEADLOCK FALSE
SPECIFICATION Spec
CONSTANTS
    s1 = s1
    Slots <- OneSlot
    MaxWrites = 3
    MaxFaults = 1
INVARIANTS
    OwnWritesSeen
PROPERTIES
    StaleViewsRefresh
