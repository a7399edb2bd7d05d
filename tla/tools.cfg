SPECIFICATION Spec
CONSTANTS
    None = None
    i1 = i1
    f1 = f1
    f2 = f2
    l1 = l1
    l2 = l2
    n1 = n1
    n2 = n2
    t1 = t1
    a = a
    b = b
    todo = todo
    reference = reference
    inbox = inbox
    c1 = c1
    c2 = c2
    MaxCalls <- Calls
    MaxFaults <- Faults
    MaxEdits <- Edits
    Budgets <- AllBudgets
    Pages = 2
    MaxBad = 4
    Order <- Parts
    Links = {l1}
    Files = {f1, f2}
    Uncopyable = {f2}
    MyDay = TRUE
    MaxIds = 2
    MaxParts = 1
    Roster <- OneList
    Names = {n1, n2}
    Types = {todo, reference}
    Patterns <- PatternSet
    Aliases = {inbox}
    Clients = {c1, c2}
    MaxRenames = 1
    Lists <- TwoLists
    Class <- Classes
    Numbered <- Three
    Limits = {1}
    MaxTime = 2
    MaxQueries = 1
    Tasks = {t1}
    Items = {a, b}
    ScanTasks = 1
    Broken = {}
    OtherIds = {l2}
    ScanFolders = 1
    Window = 1
    Orders = {0, 2, 3}
    Done = {3}
    Renamed = {2}
    Nudge = 2
    Now = 1
INVARIANTS
    Retries
    MoveIsSafe
    UpdateIsExact
    IndexCatchesUp
    PagesExact
    MarkedIsFresh
    WrongOnlySinceScan
    AsAsked
PROPERTY ConfigKept
CHECK_DEADLOCK FALSE
