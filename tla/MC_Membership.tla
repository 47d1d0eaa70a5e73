--------------------------- MODULE MC_Membership ---------------------------
(* Three people and one child profile, with one request at a time and with *)
(* two at once.                                                            *)
EXTENDS Membership, TLC

CONSTANTS h1, h2, u1, u2, u3, e1, e2, e3, p1, i1

TwoHandlers == {h1, h2}
ThreeUsers == {u1, u2, u3}
ThreeEmails == {e1, e2, e3}
OneProfile == {p1}
OneInvite == {i1}

PairKinds == {"register", "join", "send", "accept", "delete account"}
CodeKinds == {"register", "join", "graph", "send", "clock"}
ChildKinds == {"register", "create child", "child access", "child join",
               "delete child", "delete account"}

FamilyLoads ==
    {[crowd |-> {h}, kinds |-> k] : h \in TwoHandlers,
        k \in {PairKinds \cup CodeKinds, PairKinds \cup ChildKinds}}
    \cup {[crowd |-> TwoHandlers, kinds |-> k] : k \in {PairKinds, CodeKinds, ChildKinds}}

Symmetries == Permutations(TwoHandlers) \cup Permutations(ThreeUsers)
                \cup Permutations(ThreeEmails)
=============================================================================
