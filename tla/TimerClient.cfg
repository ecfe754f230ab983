SPECIFICATION FairSpec
CONSTANTS
    Owner = owner
    e1 = e1
    e2 = e2
    e3 = e3
    design = design
    support = support
    Entries = {e1, e2, e3}
    Projects = {design, support}
    Of <- MCOf
    Calls = {c1}
    IdleOn = TRUE
    Guarded = TRUE
    MaxFaults = 1
    None = None
INVARIANTS
    IdleOfTimer
    ButtonsFollowCall
    NoOldAnswer
PROPERTIES
    BarTellsTheTruth
