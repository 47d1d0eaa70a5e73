SPECIFICATION ServicesSpec
CONSTANTS
    h1 = h1
    h2 = h2
    h3 = h3
    a1 = a1
    a2 = a2
    k1 = k1
    c1 = c1
    m1 = m1
    m2 = m2
    like = like
    sad = sad
    t1 = t1
    t2 = t2
    t3 = t3
    d1 = d1
    d2 = d2
    d3 = d3
    x1 = x1
    x2 = x2
    x3 = x3
    Null = Null
    Handlers <- ThreeHandlers
    Loads <- ServiceLoads
    Adults <- TwoAdults
    Kids <- OneKid
    Topics <- OneTopic
    FamilyChannel = "Rodzina"
    SystemChannel = "Zmiana grafiku"
    MaxStamps = 3
    Marks <- TwoMarks
    Emojis <- TwoEmojis
    Tags <- ThreeTags
    MaxTags = 1
    Docs <- ThreeDocs
    Uploaders <- TwoAdults
    CountLimit = 2
    StorageLimit = 3
    MaxSize = 2
    Envelopes <- ThreeEnvelopes
    MaxDays = 3
    Limits <- BothLimits
    MaxTime = 7
INVARIANTS
    ChannelsBounded
    NewestActivity
    NoKeyOutlivesItsAccount
    ReactionsToggle
    TagsBounded
    DocumentsBounded
    RefusedCodeIsNotKept
    MailsPerDayBounded
    PruningIsInvisible
SYMMETRY Symmetry
CHECK_DEADLOCK FALSE
