SPECIFICATION FairSpecFrom
CONSTANTS
    Accounts = {a1, a2}
    FlightId = {f1, f2}
    None = None
    MaxFamily = 2
    MaxVersion = 1
    MaxReset = 1
    MayDie = TRUE
    Overlap = FALSE
INVARIANTS
    SingleFlight
    StoredTokenIsNewest
PROPERTY FlightsSettle
