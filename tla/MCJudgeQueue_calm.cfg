SPECIFICATION FairSpec
CONSTANTS
    Sub = {1, 2}
    Worker = {w1, w2}
    NoWorker = NoWorker
    Priority <- MCPriority
    TestedVerdict = {"accepted", "rejected"}
    Capacity = 1
    MaxAttempts = 3
    MaxHandlers = 4
    MaxStops = 2
    MaxRejudges = 1
    Adverse <- Calm
INVARIANTS
    SoleHandler
    HandlerOwnsRow
    ResultsMatchVerdict
    AttemptsBounded
    SlotsRespected
    CalmInv
PROPERTIES
    VerdictStands
    DrainFinishesWork
    ImplementsLifecycle
CHECK_DEADLOCK FALSE
