\* All kinds of request, two at once, one of which may break off.
CONSTANTS
    pw1 = pw1
    pw2 = pw2
    h1 = h1
    h2 = h2
    h3 = h3
    Null = Null
    Passwords <- TwoPasswords
    Handlers <- TwoHandlers
    MaxSessions = 1
    SessionRows = 3
    LinkRows = 2
    Kinds <- OverlapKinds
    MaxFailures = 1
SPECIFICATION Spec
SYMMETRY Symmetry
INVARIANTS TypeOK SessionsBounded NoSessionOutlivesThePassword StaleLoginsBounded UnclaimedLinksBounded
CHECK_DEADLOCK FALSE
