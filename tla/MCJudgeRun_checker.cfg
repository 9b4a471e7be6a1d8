SPECIFICATION Spec
CONSTANTS
    MaxTests = 2
    Points = {0}
    RunVerdict = {"accepted", "wrong_answer"}
    Special <- WithChecker
    Box = {b1, b2}
    TcParallel = 2
    MaxCalls = 1
    MaxWork = 2
INVARIANTS
    EveryOutcomeDeserved
CHECK_DEADLOCK FALSE
