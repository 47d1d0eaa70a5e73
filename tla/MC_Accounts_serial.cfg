\* All kinds of request and the clock, one request at a time: the promise of
\* AccountPromise is kept.
CONSTANTS
    pw1 = pw1
    pw2 = pw2
    h1 = h1
    h2 = h2
    h3 = h3
    Null = Null
    Passwords <- TwoPasswords
    Handlers <- OneHandler
    MaxSessions = 2
    SessionRows = 4
    LinkRows = 2
    Kinds <- EveryKind
    MaxFailures = 0
SPECIFICATION Spec
PROPERTY PromiseKept
CHECK_DEADLOCK FALSE
