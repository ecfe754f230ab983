SPECIFICATION Spec
CONSTANTS
    design = design
    draw = draw
    support = support
    answer = answer
    Entries = {e1, e2}
    Projects = {design}
    Tasks = {}
    Clients = {}
    ProjectOf <- NoTask
    Requests = {r1}
    Rates = {1}
    Rules <- TwoRules
    Hour = 2
    None = None
    MaxTime = 2
    Second = 1
    MaxEdits = 2
SYMMETRY Symmetry
INVARIANTS
    TypeOK
    AmountMatches
    SpanMatches
CHECK_DEADLOCK FALSE
