SPECIFICATION Spec
CONSTANTS
    Sub = {1}
    Worker = {w1, w2}
    NoWorker = NoWorker
    Priority <- MCPriority
    TestedVerdict = {"accepted", "rejected"}
    Capacity = 1
    MaxAttempts = 3
    MaxHandlers = 2
    MaxStops = 0
    MaxRejudges = 1
    Adverse <- InFlightRejudge
INVARIANTS
    ResultsNotMixed
CHECK_DEADLOCK FALSE
