SPECIFICATION FairSpec
CONSTANTS
    Row = {r1, r2}
    None = None
    Page <- Site
    MaxCalls = 2
INVARIANTS
    VerdictKeepsItsDialog
    ChangesOnTheWay
PROPERTIES
    OwnChangesShow
