SPECIFICATION Spec
CONSTANTS
    Tasks = {t1, t2}
    None = None
    MaxClock = 2
    MaxEpoch = 0
    MaxFaults = 1
    MaxPages = 1
    MaxWrites = 0
    ResyncInFlight = TRUE
    Linkless = FALSE
INVARIANT SyncedIsComplete
