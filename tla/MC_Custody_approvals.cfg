\* Overlapping proposals and approvals that all run to their end.
CONSTANTS
    mum = mum
    dad = dad
    h1 = h1
    h2 = h2
    Null = Null
    Users <- Parents
    Handlers <- TwoHandlers
    Days <- TwoDays
    Plans <- TwoPlans
    Changes <- NoChanges
    SwapDates <- NoSwaps
    MaxSchedules = 3
    MaxExceptions = 0
    MaxSwaps = 0
    Kinds <- Schedules
    MaxFailures = 0
SPECIFICATION FairSpec
INVARIANTS SchedulesBounded
PROPERTIES ApprovedScheduleIsGenerated
CHECK_DEADLOCK FALSE
