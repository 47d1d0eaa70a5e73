------------------------------ MODULE Expenses ------------------------------
(***************************************************************************)
(* Shared expenses and their settlement (services/finances.js and          *)
(* routes/finances.js).  A change of status reads the row, checks the      *)
(* transition against what it read, and writes the new status by id: two   *)
(* statements, between which other requests run.  Receipts, amounts, notes *)
(* and the children an expense is for are data that no transition reads.   *)
(***************************************************************************)
EXTENDS Naturals, FiniteSets

CONSTANTS
    Parents,        \* the parents of the workspace
    Handlers,       \* bound: how many requests can be in flight at once
    Expenses,       \* bound: the rows of table Expense
    Null            \* no row, no request

Statuses == {"pending", "accepted", "disputed", "settled"}

ASSUME NullAssumption == Null \notin Parents \cup Expenses \cup Statuses

VARIABLES
    status,         \* column status, Null before the row exists
    paidBy,         \* column paidById
    req             \* what each handler is doing

vars == <<status, paidBy, req>>

Idle == [expense |-> Null, actor |-> Null, to |-> Null]
Request == [expense : Expenses, actor : Parents, to : Statuses]

Init ==
    /\ status = [e \in Expenses |-> Null]
    /\ paidBy = [e \in Expenses |-> Null]
    /\ req = [h \in Handlers |-> Idle]

(* Mutant: the payer is left to the body, where it is optional. *)
CreateWithoutPayer(e, u) ==
    /\ status[e] = Null
    /\ status' = [status EXCEPT ![e] = "pending"]
    /\ UNCHANGED <<paidBy, req>>

(* POST /expenses: one transaction; the route makes the payer the sender,  *)
(* and the status is pending whatever the client says.                     *)
CreateExpense(e, u) ==
    /\ status[e] = Null
    /\ status' = [status EXCEPT ![e] = "pending"]
    /\ paidBy' = [paidBy EXCEPT ![e] = u]
    /\ UNCHANGED req

(* Mutants: the payer may answer too; the payer may settle at once. *)
AllowedToBoth(from, to, isPayer) ==
    \/ from = "pending" /\ to \in {"accepted", "disputed"}
    \/ from = "accepted" /\ to = "settled" /\ isPayer
AllowedUnanswered(from, to, isPayer) ==
    \/ from = "pending" /\ to \in {"accepted", "disputed"} /\ ~isPayer
    \/ from \in {"pending", "accepted"} /\ to = "settled" /\ isPayer

(* Which transitions updateExpenseStatus lets through, and for whom;       *)
(* disputed and settled have none, and same to same is refused too.        *)
Allowed(from, to, isPayer) ==
    \/ from = "pending" /\ to \in {"accepted", "disputed"} /\ ~isPayer
    \/ from = "accepted" /\ to = "settled" /\ isPayer

(* POST /expenses/:id/status: read and check... *)
UpdateExpenseStatus(h, e, u, to) ==
    /\ req[h] = Idle
    /\ status[e] # Null                             \* else expense_not_found
    /\ Allowed(status[e], to, u = paidBy[e])        \* else forbidden
    /\ req' = [req EXCEPT ![h] = [expense |-> e, actor |-> u, to |-> to]]
    /\ UNCHANGED <<status, paidBy>>

(* ...and write, whatever the status is by then. *)
WriteStatus(h) ==
    /\ req[h] # Idle
    /\ status' = [status EXCEPT ![req[h].expense] = req[h].to]
    /\ req' = [req EXCEPT ![h] = Idle]
    /\ UNCHANGED paidBy

(* The write fails, or the process stops before it. *)
Fail(h) ==
    /\ req[h] # Idle
    /\ req' = [req EXCEPT ![h] = Idle]
    /\ UNCHANGED <<status, paidBy>>

Next ==
    \/ \E e \in Expenses, u \in Parents : CreateExpense(e, u)
    \/ \E h \in Handlers :
         \/ \E e \in Expenses, u \in Parents, to \in Statuses :
               UpdateExpenseStatus(h, e, u, to)
         \/ WriteStatus(h)
         \/ Fail(h)

Spec == Init /\ [][Next]_vars

-----------------------------------------------------------------------------

(* A row has a status and a payer together, from its creation on. *)
TypeOK ==
    /\ status \in [Expenses -> Statuses \cup {Null}]
    /\ paidBy \in [Expenses -> Parents \cup {Null}]
    /\ req \in [Handlers -> Request \cup {Idle}]
    /\ \A e \in Expenses : status[e] = Null <=> paidBy[e] = Null

(* Each answer is the right parent's, also when requests overlap: a status *)
(* is written only by a request of the payer (to settle) or of the other   *)
(* parent (to accept or dispute), and an answered expense is never open    *)
(* again.                                                                  *)
RightfulAnswers ==
    [][\A e \in Expenses : status'[e] # status[e] /\ status[e] # Null =>
          /\ status'[e] # "pending"
          /\ \E h \in Handlers :
               /\ req[h] # Idle /\ req'[h] = Idle
               /\ req[h].expense = e /\ req[h].to = status'[e]
               /\ (status'[e] = "settled") <=> (req[h].actor = paidBy[e])]_vars

(* An answer that is on its way was due when it was sent; so an expense is *)
(* never settled that the other parent has not answered.                   *)
SettledAfterAnswer ==
    [][\A e \in Expenses : status'[e] = "settled" =>
          status[e] \in {"accepted", "disputed", "settled"}]_vars

(* "disputed is terminal -- no further transitions."  (finances.js) *)
DisputedIsTerminal ==
    [][\A e \in Expenses : status[e] = "disputed" => status'[e] = "disputed"]_vars
=============================================================================
