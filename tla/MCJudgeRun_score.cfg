SPECIFICATION Spec
CONSTANTS
    MaxTests = 2
    Points = {0, 30}
    RunVerdict = {"accepted", "wrong_answer"}
    Special <- Plain
    Box = {b1, b2}
    TcParallel = 2
    MaxCalls = 1
    MaxWork = 2
INVARIANTS
    ScoreByPoints
CHECK_DEADLOCK FALSE
