SPECIFICATION Spec
CONSTANTS
    ann = ann
    max = max
    mia = mia
    vic = vic
    Users = {ann, mia, max}
    Role <- TeamRole
    MinutesPerDay = 2
    Window = 0
    FirstDay = 1
    Settings <- TargetSettings
    Requests = {}
    MaxDay = 1
    MaxRows = 2
    MaxMisses = 1
    None = None
INVARIANTS
    ToldAlike
CHECK_DEADLOCK FALSE
