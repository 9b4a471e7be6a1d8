SPECIFICATION Spec
CONSTANTS
    uo = uo  um = um  un = un  p1 = p1  p2 = p2
    User = {uo, um, un}
    Actor = {uo, um}
    NoUser = NoUser
    Course = {1, 2}
    Problem = {p1, p2}
    Text = Text
    None = None
    Drafts <- SomeDrafts
    Patches <- SomePatches
    ProblemPatches <- SomeProblemPatches
    ItemLists <- SomeLists
    Invitations <- SomeInvitations
    RoleChanges <- SomeRoleChanges
    Tables <- Worlds
    MaxFlight = 2
    MaxRequests = 3
    MaxSubs = 1
    MaxTime = 2
INVARIANTS
    CollectionsTypeOK
    PagesAgree
    RevealRulesAgree
    AxesStayValid
PROPERTIES
    MembershipKept
CHECK_DEADLOCK FALSE
