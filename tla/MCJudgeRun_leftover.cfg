SPECIFICATION Spec
CONSTANTS
    MaxTests = 2
    Points = {0}
    RunVerdict = {"accepted", "wrong_answer"}
    Special <- Plain
    Box = {b1, b2}
    TcParallel = 2
    MaxCalls = 2
    MaxWork = 4
INVARIANTS
    EveryOutcomeDeserved
CHECK_DEADLOCK FALSE
