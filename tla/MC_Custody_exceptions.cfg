\* Schedules and exceptions, two requests at once, any of which may break off.
CONSTANTS
    mum = mum
    dad = dad
    h1 = h1
    h2 = h2
    Null = Null
    Users <- Parents
    Handlers <- TwoHandlers
    Days <- TwoDays
    Plans <- TwoPlans
    Changes <- OneChange
    SwapDates <- NoSwaps
    MaxSchedules = 2
    MaxExceptions = 1
    MaxSwaps = 0
    Kinds <- WithExceptions
    MaxFailures = 2
SPECIFICATION Spec
SYMMETRY Symmetry
INVARIANTS TypeOK DaysAreAgreed SlotsCarryTheirSource 
PROPERTIES NoUnilateralChange
CHECK_DEADLOCK FALSE
