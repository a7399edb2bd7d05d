SPECIFICATION Spec
CONSTANTS
    Tasks = {t1, t2}
    None = None
    MaxClock = 2
    MaxEpoch = 0
    MaxFaults = 0
    MaxPages = 1
    MaxWrites = 1
    ResyncInFlight = FALSE
    Linkless = FALSE
INVARIANT DeltaReconciles
