SPECIFICATION MCSpec
CONSTANTS
    None = None
    i1 = i1
    Id = {i1, i2}
    Language = {"c", "cpp"}
    MaxAsked = 2
    MaxFailures = 1
    MaxMoves = 1
    MaxReopens = 1
    MaxPosts = 2
    MaxVerdicts = 1
CHECK_DEADLOCK FALSE
INVARIANT WebSound
PROPERTY Converges
