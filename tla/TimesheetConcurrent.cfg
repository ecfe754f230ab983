SPECIFICATION Spec
CONSTANTS
    alice = alice
    boss = boss
    Users = {alice, boss}
    Role <- MCRole
    Entries = {e1, e2}
    Subs = {s1, s2}
    Requests = {r1, r2}
    Bodies = {b1}
    None = None
    MaxDay = 0
    DaysPerWeek = 1
    LockDays = 0
    PastLimit = 0
SYMMETRY Symmetry
INVARIANTS
    OnePending
    LinkSound
    ApprovedWasSubmitted
    RequestsSound
PROPERTIES
    NeverRunsAgain
    NeverReopened
    TimerIsOneSlot
