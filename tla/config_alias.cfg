SPECIFICATION Spec
CONSTANTS
    None = None
    before = before
    after = after
    todo = todo
    reference = reference
    inbox = inbox
    client = client
    Lists <- OneList
    Names <- TwoNames
    Classes <- Types
    PatternLists <- Patterns
    Aliases <- Handles
    Clients <- OneCall
    MaxRenames = 1
    MaxCalls = 4
    MaxFaults = 0
PROPERTY PinsSurvive
CHECK_DEADLOCK FALSE
