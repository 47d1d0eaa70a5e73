----------------------------- MODULE MC_Accounts ----------------------------
EXTENDS Accounts, TLC

CONSTANTS pw1, pw2, h1, h2, h3

TwoPasswords == {pw1, pw2}
OneHandler == {h1}
TwoHandlers == {h1, h2}
ThreeHandlers == {h1, h2, h3}

EveryKind == {"login", "expiry", "reset"} \cup Tasks
OverlapKinds == EveryKind \ {"expiry"}
LinkKinds == {"reset"}

Symmetry == Permutations(Passwords) \cup Permutations(Handlers)
=============================================================================
