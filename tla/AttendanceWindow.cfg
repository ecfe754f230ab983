SPECIFICATION Spec
CONSTANTS
    ann = ann
    max = max
    mia = mia
    vic = vic
    Users = {ann, max}
    Role <- PairRole
    MinutesPerDay = 5
    Window = 2
    FirstDay = 1
    Settings <- PromptSettings
    Requests = {r1}
    MaxDay = 0
    MaxRows = 1
    MaxMisses = 2
    None = None
INVARIANTS
    PromptOnce
    CaughtUp
PROPERTIES
    RowsAreKept
CHECK_DEADLOCK FALSE
