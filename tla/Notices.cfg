SPECIFICATION FairSpec
CONSTANTS
    Prompt = missed
    FixedSchedule = TRUE
    Behind = FALSE
    MaxFaults = 2
INVARIANTS
    KnownIsPut
PROPERTIES
    AnswerSilences
    PromptIsPut
