SPECIFICATION FairSpec
CONSTANTS
    Lists <- TwoLists
    Ids <- SixIds
    None = None
    Refused <- Nobody
    Budget = 1
    MaxFaults = 1
    MaxWorld = 3
INVARIANTS
    OnePerList
PROPERTIES
    Settles
    Renewed
