\* All kinds of request, one at a time, any of which may break off.
CONSTANTS
    mum = mum
    dad = dad
    h1 = h1
    h2 = h2
    Null = Null
    Users <- Parents
    Handlers <- OneHandler
    Days <- TwoDays
    Plans <- TwoPlans
    Changes <- OneChange
    SwapDates <- AcrossAndSame
    MaxSchedules = 2
    MaxExceptions = 1
    MaxSwaps = 1
    Kinds <- AllKinds
    MaxFailures = 1
SPECIFICATION Spec
SYMMETRY Symmetry
INVARIANTS AppliedExceptionsAreAccepted CalendarFollowsSchedule
PROPERTIES SupersededIsFinal AgreedChangesSurviveApproval SwapsKeepTheBalance HandoverEditsAreUnlocked
CHECK_DEADLOCK FALSE
