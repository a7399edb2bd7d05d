SPECIFICATION HostSpec
CONSTANTS
    Procs = {p1, p2, p3, p4}
    NoRow = NoRow
    Gone = Gone
    Ttl = 3
    MaxLate = 4
    None = None
    Soon = 0
    Rearm <- MCRearm
    Retry = 3
    Cap = 2
    MaxDelay = 5
    MaxQueue = 3
    MaxFaults = 3
INVARIANTS
    TimerIsInTime
