SPECIFICATION MemberSpec
CONSTANTS
    h1 = h1
    h2 = h2
    u1 = u1
    u2 = u2
    u3 = u3
    e1 = e1
    e2 = e2
    e3 = e3
    p1 = p1
    i1 = i1
    Null = Null
    Handlers <- TwoHandlers
    Loads <- FamilyLoads
    Users <- ThreeUsers
    Emails <- ThreeEmails
    Profiles <- OneProfile
    Invites <- OneInvite
    MaxCodes = 1
INVARIANTS
    ParentsBounded
    ChildAccountsHaveProfiles
PROPERTIES
    MovesJoinTwoSingles
    FreshCodesStay
SYMMETRY Symmetries
CHECK_DEADLOCK FALSE
