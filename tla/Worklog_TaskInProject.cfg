SPECIFICATION Spec
CONSTANTS
    design = design
    draw = draw
    support = support
    answer = answer
    Entries = {e1}
    Projects = {design, support}
    Tasks = {draw, answer}
    Clients = {}
    ProjectOf <- MCProjectOf
    Requests = {r1}
    Rates = {}
    Rules <- OneRule
    Hour = 2
    None = None
    MaxTime = 1
    Second = 1
    MaxEdits = 5
SYMMETRY Symmetry
INVARIANTS
    TaskInProject
CHECK_DEADLOCK FALSE
