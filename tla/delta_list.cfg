SPECIFICATION FairSpec
CONSTANTS
    Tasks = {t1, t2}
    None = None
    MaxClock = 3
    MaxEpoch = 1
    MaxFaults = 2
    MaxPages = 2
    MaxWrites = 1
    ResyncInFlight = FALSE
    Linkless = FALSE
INVARIANTS
    SyncedIsComplete
PROPERTIES KeepsPromise Converges
