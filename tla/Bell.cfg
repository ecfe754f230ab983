SPECIFICATION Spec
CONSTANTS
    Regular = {approved, rejected}
    Attendance = {missed}
    Calls = {c1, c2}
    MaxFaults = 1
SYMMETRY Symmetry
PROPERTIES
    NeverUnreadAgain
