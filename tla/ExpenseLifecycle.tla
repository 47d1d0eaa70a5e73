-------------------------- MODULE ExpenseLifecycle --------------------------
(***************************************************************************)
(* What updateExpenseStatus promises of an expense: its transitions as one *)
(* step each, with the two terminal statuses.                              *)
(***************************************************************************)
CONSTANTS Parents, Expenses, Null

VARIABLES status, paidBy

vars == <<status, paidBy>>

Init ==
    /\ status = [e \in Expenses |-> Null]
    /\ paidBy = [e \in Expenses |-> Null]

Create(e, u) ==
    /\ status[e] = Null
    /\ status' = [status EXCEPT ![e] = "pending"]
    /\ paidBy' = [paidBy EXCEPT ![e] = u]

Answer(e, u, answer) ==
    /\ status[e] = "pending"
    /\ u # paidBy[e]
    /\ status' = [status EXCEPT ![e] = answer]
    /\ UNCHANGED paidBy

Settle(e, u) ==
    /\ status[e] = "accepted"
    /\ u = paidBy[e]
    /\ status' = [status EXCEPT ![e] = "settled"]
    /\ UNCHANGED paidBy

Next ==
    \E e \in Expenses, u \in Parents :
       \/ Create(e, u)
       \/ \E answer \in {"accepted", "disputed"} : Answer(e, u, answer)
       \/ Settle(e, u)

Spec == Init /\ [][Next]_vars
=============================================================================
