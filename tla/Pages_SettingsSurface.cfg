\* A violation is expected: see README, "Disagreements".
SPECIFICATION FairSpec
CONSTANTS
    Row = {r1, r2}
    None = None
    Page <- Site
    MaxCalls = 2
PROPERTIES
    SettingsSurface
