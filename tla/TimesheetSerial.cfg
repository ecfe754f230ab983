SPECIFICATION Spec
CONSTANTS
    alice = alice
    boss = boss
    Users = {alice, boss}
    Role <- MCRole
    Entries = {e1, e2}
    Subs = {s1, s2}
    Requests = {r1}
    Bodies = {b1}
    None = None
    MaxDay = 2
    DaysPerWeek = 2
    LockDays = 1
    PastLimit = 1
SYMMETRY Symmetry
INVARIANTS
    ReviewedTogether
PROPERTIES
    SubmittedUntouched
    ReviewIsAtomic
