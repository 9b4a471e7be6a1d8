SPECIFICATION Spec
CONSTANTS
    Problem = {arch}
    Body <- Bodies
    Lists <- SomeLists
    None = None
    MaxEdits = 2
    User = {solver}
    Kinds = {"code", "answer"}
    Sheet <- SomeSheets
    Id = {1, 2}
    MaxAttempts = 2
    MaxRejudges = 1
    MaxRecounts = 1
    MaxRequests = 3
INVARIANTS
    GradingTypeOK
    StoreMatches
    VersionTells
    CountersSound
CHECK_DEADLOCK FALSE
