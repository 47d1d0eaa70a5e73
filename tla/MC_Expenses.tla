----------------------------- MODULE MC_Expenses ----------------------------
EXTENDS Expenses, TLC

CONSTANTS mum, dad, h1, h2, e1, e2

TwoParents == {mum, dad}
TwoHandlers == {h1, h2}
OneHandler == {h1}
TwoExpenses == {e1, e2}

Symmetry == Permutations(Parents) \cup Permutations(Handlers)
              \cup Permutations(Expenses)
=============================================================================
