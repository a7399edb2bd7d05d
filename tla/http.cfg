SPECIFICATION HttpSpec
CONSTANTS
    Accounts = {a, b}
    Callbacks = {c1}
    None = None
    MaxSignIn = 4
    MaxRevoke = 2
    Posts = {p1, p2}
    Gets = {g1, g2}
    Uploads = {u1, u2}
    Download = d1
    LinkOf <- MCLinkOf
    small = small
    twin = twin
    wide = wide
    large = large
    other = other
    p1 = p1
    p2 = p2
    u1 = u1
    u2 = u2
    File <- MCFile
    Before <- MCBefore
    Batches <- MCBatches
    ContentOf <- MCContentOf
    NameOf <- MCNameOf
    SizeOf <- MCSizeOf
    InBand <- MCInBand
    MaxInline = 1
    DedupMax = 2
    Chunk = 2
    MaxFaults = 1
INVARIANTS
    OneAccount
    LiveGrantsAreOwners
    BurnedBeforeUse
    LateGetsNothing
    NoNeedlessCopy
    ReportIsTrue
    StallsLate
    SessionsReleased
PROPERTIES
    Resumes
    Answered
CHECK_DEADLOCK FALSE
