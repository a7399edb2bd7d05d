SPECIFICATION FairSpec
CONSTANTS
    Lists <- ThreeLists
    Size <- OneLarge
    Later <- UpToTwo
    Broken <- Nobody
    Watched <- FirstList
    Budget = 2
    MaxWait = 6
    MaxChanges = 1
    MaxFaults = 1
    MaxRequests = 1
    ResyncAll = TRUE
INVARIANTS
    RotationBound
    RosterIsGraphs
PROPERTIES
    NoListStarves
    CalmAgain
    RosterComplete
