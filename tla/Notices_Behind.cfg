SPECIFICATION FairSpec
CONSTANTS
    Prompt = missed
    FixedSchedule = TRUE
    Behind = TRUE
    MaxFaults = 0
PROPERTIES
    PromptIsPut
