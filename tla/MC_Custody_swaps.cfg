\* Schedules, swaps and handovers, two requests at once, any of which may break off.
CONSTANTS
    mum = mum
    dad = dad
    h1 = h1
    h2 = h2
    Null = Null
    Users <- Parents
    Handlers <- TwoHandlers
    Days <- TwoDays
    Plans <- TwoPlans
    Changes <- NoChanges
    SwapDates <- AcrossAndSame
    MaxSchedules = 1
    MaxExceptions = 0
    MaxSwaps = 1
    Kinds <- WithSwaps
    MaxFailures = 1
SPECIFICATION Spec
SYMMETRY Symmetry
INVARIANTS DaysAreAgreed SlotsCarryTheirSource
PROPERTIES NoUnilateralChange
CHECK_DEADLOCK FALSE
