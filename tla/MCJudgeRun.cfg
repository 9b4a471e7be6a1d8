SPECIFICATION MCSpec
CONSTANTS
    MaxTests = 3
    Points = {0, 30}
    RunVerdict = {"accepted", "wrong_answer"}
    Special <- Either
    Box = {b1, b2}
    TcParallel = 2
    MaxCalls = 2
    MaxWork = 4
INVARIANTS
    TypeOK
    AsIfSerial
    OutcomesDeserved
    AcceptedEarned
PROPERTIES
    EveryBoxReturned
CHECK_DEADLOCK FALSE
