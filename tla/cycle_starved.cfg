SPECIFICATION FairSpec
CONSTANTS
    Lists <- ThreeLists
    Size <- OnePage3
    Later <- OneMore3
    Broken <- FirstList
    Watched <- ThreeLists
    Budget = 1
    MaxWait = 0
    MaxChanges = 0
    MaxFaults = 0
    MaxRequests = 0
    ResyncAll = FALSE
PROPERTY NoListStarves
