SPECIFICATION Spec
CONSTANTS
    h1 = h1  h2 = h2  h3 = h3  a1 = a1  a2 = a2  a3 = a3
    User = {1, 2, 3}
    Handle = {h1, h2, h3}
    Email = {a1, a2, a3}
    None = None
    MaxEmails = 2
    MaxFlight = 2
    MaxRequests = 3
    Post = {1}
    Comment = {1, 2}
    Solver = {2}
    Solved <- NobodySolvedMuch
    DailyBase = 1
    DailyPerSolved = 10
    DailyMax = 20
    MaxDay = 1
    Tables0 <- Beginnings
INVARIANTS
    AccountsSound
    CommunitySound
CHECK_DEADLOCK FALSE
