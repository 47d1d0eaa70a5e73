CONSTANTS
    mum = mum
    dad = dad
    h1 = h1
    h2 = h2
    e1 = e1
    e2 = e2
    Null = Null
    Parents <- TwoParents
    Handlers <- TwoHandlers
    Expenses <- TwoExpenses
SPECIFICATION Spec
SYMMETRY Symmetry
INVARIANTS TypeOK
PROPERTIES RightfulAnswers SettledAfterAnswer
CHECK_DEADLOCK FALSE
