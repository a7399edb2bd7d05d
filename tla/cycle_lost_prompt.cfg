SPECIFICATION Spec
CONSTANTS
    Lists <- ThreeLists
    Size <- OnePage3
    Later <- OneMore3
    Broken <- Nobody
    Watched <- ThreeLists
    Budget = 2
    MaxWait = 0
    MaxChanges = 0
    MaxFaults = 0
    MaxRequests = 0
    ResyncAll = FALSE
INVARIANT WantedIsSoon
