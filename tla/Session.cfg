SPECIFICATION FairSpec
CONSTANTS
    Users = {ann, ben}
    None = None
PROPERTIES
    NothingOfOthers
    RequestsSettle
    EndsAtLogin
