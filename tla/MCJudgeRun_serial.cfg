SPECIFICATION Spec
CONSTANTS
    MaxTests = 3
    Points = {0}
    RunVerdict = {"accepted", "wrong_answer", "time_limit_exceeded"}
    Special <- WithChecker
    Box = {b1}
    TcParallel = 1
    MaxCalls = 3
    MaxWork = 9
INVARIANTS
    EveryOutcomeDeserved
CHECK_DEADLOCK FALSE
