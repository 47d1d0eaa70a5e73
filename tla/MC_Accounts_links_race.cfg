\* Two requests for a reset link at once delete each other's links.
CONSTANTS
    pw1 = pw1
    pw2 = pw2
    h1 = h1
    h2 = h2
    h3 = h3
    Null = Null
    Passwords <- TwoPasswords
    Handlers <- TwoHandlers
    MaxSessions = 1
    SessionRows = 1
    LinkRows = 2
    Kinds <- LinkKinds
    MaxFailures = 0
SPECIFICATION Spec
PROPERTY OnlyOlderLinksAreInvalidated
CHECK_DEADLOCK FALSE
