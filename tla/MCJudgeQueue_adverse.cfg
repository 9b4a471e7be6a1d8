SPECIFICATION FairSpec
CONSTANTS
    Sub = {1}
    Worker = {w1, w2}
    NoWorker = NoWorker
    Priority <- MCPriority
    TestedVerdict = {}
    Capacity = 2
    MaxAttempts = 2
    MaxHandlers = 2
    MaxStops = 1
    MaxRejudges = 1
    Adverse <- AllAdverse
INVARIANTS
    OwnedWhileJudging
PROPERTIES
    EveryJudged
CHECK_DEADLOCK FALSE
