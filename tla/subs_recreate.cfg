SPECIFICATION Spec
CONSTANTS
    Lists <- TwoLists
    Ids <- FourIds
    None = None
    Refused <- Nobody
    Budget = 1
    MaxFaults = 1
    MaxWorld = 3
INVARIANT
    RecreateIsFinal
CHECK_DEADLOCK FALSE
