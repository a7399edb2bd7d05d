SPECIFICATION Spec
CONSTANTS
    Lists <- ThreeLists
    Size <- OnePage3
    Later <- OneMore3
    Broken <- Nobody
    Watched <- ThreeLists
    Budget = 2
    MaxWait = 0
    MaxChanges = 1
    MaxFaults = 0
    MaxRequests = 1
    ResyncAll = TRUE
INVARIANT NoGhosts
