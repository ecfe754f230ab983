SPECIFICATION Spec
CONSTANTS
    design = design
    draw = draw
    support = support
    answer = answer
    Entries = {e1}
    Projects = {design}
    Tasks = {draw}
    Clients = {acme}
    ProjectOf <- OneProjectOf
    Requests = {r1, r2}
    Rates = {}
    Rules <- OneRule
    Hour = 2
    None = None
    MaxTime = 1
    Second = 1
    MaxEdits = 5
SYMMETRY Symmetry
INVARIANTS
    NothingOrphaned
CHECK_DEADLOCK FALSE
