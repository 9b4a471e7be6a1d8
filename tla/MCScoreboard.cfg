SPECIFICATION Spec
CONSTANTS
    m1 = m1
    p1 = p1  p2 = p2
    Member = {m1}
    Problem = {p1, p2}
    Items = {p1, p2}
    None = None
    Minute = 2
    Penalty = 20
    Full = 2
    Windows <- AnyWindow
    MaxSubs = 3
    MaxRejudges = 1
    MaxTime = 3
INVARIANT
    BoardsAgree
PROPERTY
    LateChangesNothing
CHECK_DEADLOCK FALSE
SYMMETRY Alike
