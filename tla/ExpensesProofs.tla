--------------------------- MODULE ExpensesProofs ---------------------------
(***************************************************************************)
(* Proofs about Expenses, for any number of parents, requests and rows:    *)
(* who may write which status, and that requests which do not overlap      *)
(* implement the transitions of ExpenseLifecycle.                          *)
(***************************************************************************)
EXTENDS Expenses, TLAPS

Answered == {"accepted", "disputed", "settled"}

(* What a request that has passed its check still knows when it writes:    *)
(* the row is there, its payer is the one that was read, and a settlement  *)
(* was preceded by an answer.                                              *)
CheckedRequest(r) ==
    /\ status[r.expense] # Null
    /\ \/ r.to \in {"accepted", "disputed"} /\ r.actor # paidBy[r.expense]
       \/ /\ r.to = "settled" /\ r.actor = paidBy[r.expense]
          /\ status[r.expense] \in Answered

IInv ==
    /\ TypeOK
    /\ \A h \in Handlers : req[h] # Idle => CheckedRequest(req[h])

LEMMA IdleIsNoRequest == Idle \notin Request
  BY NullAssumption DEF Idle, Request

LEMMA InitIInv == Init => IInv
  BY DEF Init, IInv, TypeOK

LEMMA NextIInv == IInv /\ [Next]_vars => IInv'
<1> SUFFICES ASSUME IInv, [Next]_vars PROVE IInv'
  OBVIOUS
<1> USE NullAssumption, IdleIsNoRequest
<1>1. ASSUME NEW e \in Expenses, NEW u \in Parents, CreateExpense(e, u)
      PROVE  IInv'
  <2>1. TypeOK'
    BY <1>1 DEF IInv, TypeOK, CreateExpense, Statuses
  <2>2. ASSUME NEW h \in Handlers, req[h] # Idle
        PROVE  CheckedRequest(req[h])'
    <3>1. req[h].expense \in Expenses /\ req[h].expense # e
      BY <1>1, <2>2 DEF IInv, TypeOK, CreateExpense, CheckedRequest, Request
    <3> QED
      BY <1>1, <2>2, <3>1 DEF IInv, TypeOK, CreateExpense, CheckedRequest
  <2> QED
    BY <1>1, <2>1, <2>2 DEF IInv, CreateExpense
<1>2. ASSUME NEW h \in Handlers, NEW e \in Expenses, NEW u \in Parents,
             NEW to \in Statuses, UpdateExpenseStatus(h, e, u, to)
      PROVE  IInv'
  <2>1. TypeOK'
    BY <1>2 DEF IInv, TypeOK, UpdateExpenseStatus, Request
  <2>2. CheckedRequest([expense |-> e, actor |-> u, to |-> to])'
    BY <1>2 DEF UpdateExpenseStatus, Allowed, CheckedRequest, Answered
  <2> QED
    BY <1>2, <2>1, <2>2
    DEF IInv, TypeOK, UpdateExpenseStatus, CheckedRequest
<1>3. ASSUME NEW h \in Handlers, WriteStatus(h)
      PROVE  IInv'
  <2>1. req[h] \in Request /\ CheckedRequest(req[h])
    BY <1>3 DEF IInv, TypeOK, WriteStatus
  <2>2. TypeOK'
    BY <1>3, <2>1 DEF IInv, TypeOK, WriteStatus, Request, Statuses, CheckedRequest
  <2>3. ASSUME NEW g \in Handlers, req'[g] # Idle
        PROVE  CheckedRequest(req[g])'
    <3>1. /\ req'[g] = req[g] /\ req[g] \in Request
          /\ CheckedRequest(req[g])
      BY <1>3, <2>3 DEF IInv, TypeOK, WriteStatus
    <3>2. req[g].expense = req[h].expense \/ status'[req[g].expense] = status[req[g].expense]
      BY <1>3, <2>1, <3>1 DEF IInv, TypeOK, WriteStatus, Request
    <3>3. status'[req[h].expense] \in Answered
      BY <1>3, <2>1 DEF IInv, TypeOK, WriteStatus, Request, CheckedRequest, Answered
    <3> QED
      BY <1>3, <3>1, <3>2, <3>3
      DEF CheckedRequest, WriteStatus, Answered, Statuses
  <2> QED
    BY <2>2, <2>3 DEF IInv
<1>4. ASSUME NEW h \in Handlers, Fail(h)
      PROVE  IInv'
  BY <1>4 DEF IInv, TypeOK, Fail, CheckedRequest
<1>5. CASE UNCHANGED vars
  BY <1>5 DEF IInv, TypeOK, vars, CheckedRequest
<1> QED
  BY <1>1, <1>2, <1>3, <1>4, <1>5 DEF Next

(* The tables keep their types, and a row has a payer exactly if it exists. *)
THEOREM TypeCorrect == Spec => []TypeOK
<1>1. IInv => TypeOK
  BY DEF IInv
<1> QED
  BY <1>1, InitIInv, NextIInv, PTL DEF Spec

(* updateExpenseStatus: what a request has checked of the payer and of the *)
(* answer stays true until it writes, however requests overlap.            *)
THEOREM Invariance == Spec => []IInv
  BY InitIInv, NextIInv, PTL DEF Spec

-----------------------------------------------------------------------------

(* updateExpenseStatus: each answer is the right parent's, however requests *)
(* overlap.                                                                *)
LEMMA RightfulStep ==
    IInv /\ [Next]_vars =>
      [\A e \in Expenses : status'[e] # status[e] /\ status[e] # Null =>
          /\ status'[e] # "pending"
          /\ \E h \in Handlers :
               /\ req[h] # Idle /\ req'[h] = Idle
               /\ req[h].expense = e /\ req[h].to = status'[e]
               /\ (status'[e] = "settled") <=> (req[h].actor = paidBy[e])]_vars
<1> SUFFICES ASSUME IInv, [Next]_vars, NEW e \in Expenses,
                    status'[e] # status[e], status[e] # Null
             PROVE  /\ status'[e] # "pending"
                    /\ \E h \in Handlers :
                         /\ req[h] # Idle /\ req'[h] = Idle
                         /\ req[h].expense = e /\ req[h].to = status'[e]
                         /\ (status'[e] = "settled") <=> (req[h].actor = paidBy[e])
  OBVIOUS
<1>1. PICK h \in Handlers : WriteStatus(h)
  BY DEF Next, vars, CreateExpense, UpdateExpenseStatus, Fail, IInv, TypeOK
<1>2. req[h] \in Request /\ CheckedRequest(req[h]) /\ req[h] # Idle
  BY <1>1 DEF WriteStatus, IInv, TypeOK
<1>3. req[h].expense = e /\ req[h].to = status'[e] /\ req'[h] = Idle
  BY <1>1, <1>2 DEF WriteStatus, IInv, TypeOK, Request
<1> QED
  BY <1>2, <1>3 DEF CheckedRequest

THEOREM AnswersAreRightful == Spec => RightfulAnswers
  BY Invariance, RightfulStep, PTL DEF Spec, RightfulAnswers

(* updateExpenseStatus: no expense is settled that was not answered.       *)
LEMMA SettledStep ==
    IInv /\ [Next]_vars =>
      [\A e \in Expenses : status'[e] = "settled" => status[e] \in Answered]_vars
<1> SUFFICES ASSUME IInv, [Next]_vars, NEW e \in Expenses,
                    status'[e] = "settled", status[e] # "settled"
             PROVE  status[e] \in Answered
  BY DEF Answered
<1>1. PICK h \in Handlers : WriteStatus(h)
  BY DEF Next, vars, CreateExpense, UpdateExpenseStatus, Fail, IInv, TypeOK
<1>2. req[h] \in Request /\ CheckedRequest(req[h])
  BY <1>1 DEF WriteStatus, IInv, TypeOK
<1>3. req[h].expense = e /\ req[h].to = "settled"
  BY <1>1, <1>2 DEF WriteStatus, IInv, TypeOK, Request
<1> QED
  BY <1>2, <1>3 DEF CheckedRequest

THEOREM SettledIsAnswered == Spec => SettledAfterAnswer
<1>1. IInv /\ [Next]_vars =>
        [\A e \in Expenses : status'[e] = "settled" =>
            status[e] \in {"accepted", "disputed", "settled"}]_vars
  BY SettledStep DEF Answered
<1> QED
  BY <1>1, Invariance, PTL DEF Spec, SettledAfterAnswer

-----------------------------------------------------------------------------
(* Requests that do not overlap. *)

Lifecycle == INSTANCE ExpenseLifecycle

(* With one handler nothing changes between the check and the write. *)
StillAllowed ==
    \A h \in Handlers : req[h] # Idle =>
       Allowed(status[req[h].expense], req[h].to,
               req[h].actor = paidBy[req[h].expense])

LEMMA OneHandlerStillAllowed ==
    ASSUME NEW h0, Handlers = {h0}
    PROVE  Spec => []StillAllowed
<1>1. Init => StillAllowed
  BY DEF Init, StillAllowed
<1>2. IInv /\ StillAllowed /\ [Next]_vars => StillAllowed'
  <2> SUFFICES ASSUME IInv, StillAllowed, [Next]_vars,
                      req'[h0] # Idle
               PROVE  Allowed(status[req[h0].expense], req[h0].to,
                              req[h0].actor = paidBy[req[h0].expense])'
    BY DEF StillAllowed
  <2>1. ASSUME NEW e \in Expenses, NEW u \in Parents, CreateExpense(e, u)
        PROVE  Allowed(status[req[h0].expense], req[h0].to,
                       req[h0].actor = paidBy[req[h0].expense])'
    <3>1. req[h0].expense # e
      BY <2>1 DEF IInv, CreateExpense, CheckedRequest
    <3> QED
      BY <2>1, <3>1 DEF IInv, TypeOK, CreateExpense, StillAllowed, Allowed
  <2>2. ASSUME NEW h \in Handlers, NEW e \in Expenses, NEW u \in Parents,
               NEW to \in Statuses, UpdateExpenseStatus(h, e, u, to)
        PROVE  Allowed(status[req[h0].expense], req[h0].to,
                       req[h0].actor = paidBy[req[h0].expense])'
    BY <2>2 DEF IInv, TypeOK, UpdateExpenseStatus, Allowed
  <2>3. ASSUME NEW h \in Handlers, WriteStatus(h) \/ Fail(h)
        PROVE  FALSE
    BY <2>3 DEF IInv, TypeOK, WriteStatus, Fail
  <2>4. CASE UNCHANGED vars
    BY <2>4 DEF vars, StillAllowed, Allowed
  <2> QED
    BY <2>1, <2>2, <2>3, <2>4 DEF Next
<1> QED
  BY <1>1, <1>2, Invariance, PTL DEF Spec

(* The check and the write of updateExpenseStatus, taken one request at a  *)
(* time, are one transition of the lifecycle.                              *)
THEOREM SerialRefinement ==
    ASSUME NEW h0, Handlers = {h0}
    PROVE  Spec => Lifecycle!Spec
<1>1. Init => Lifecycle!Init
  BY DEF Init, Lifecycle!Init
<1>2. IInv /\ StillAllowed /\ [Next]_vars => [Lifecycle!Next]_(Lifecycle!vars)
  <2> SUFFICES ASSUME IInv, StillAllowed, [Next]_vars
               PROVE  [Lifecycle!Next]_(Lifecycle!vars)
    OBVIOUS
  <2>1. ASSUME NEW e \in Expenses, NEW u \in Parents, CreateExpense(e, u)
        PROVE  Lifecycle!Next
    BY <2>1 DEF CreateExpense, Lifecycle!Next, Lifecycle!Create
  <2>2. ASSUME NEW h \in Handlers, WriteStatus(h)
        PROVE  Lifecycle!Next
    <3>1. /\ req[h].expense \in Expenses /\ req[h].actor \in Parents
          /\ Allowed(status[req[h].expense], req[h].to,
                     req[h].actor = paidBy[req[h].expense])
      BY <2>2 DEF WriteStatus, IInv, TypeOK, Request, StillAllowed
    <3>2. CASE req[h].to \in {"accepted", "disputed"}
      <4>1. Lifecycle!Answer(req[h].expense, req[h].actor, req[h].to)
        BY <2>2, <3>1, <3>2 DEF WriteStatus, Allowed, Lifecycle!Answer
      <4> QED
        BY <3>1, <3>2, <4>1 DEF Lifecycle!Next
    <3>3. CASE req[h].to = "settled"
      <4>1. Lifecycle!Settle(req[h].expense, req[h].actor)
        BY <2>2, <3>1, <3>3 DEF WriteStatus, Allowed, Lifecycle!Settle
      <4> QED
        BY <3>1, <4>1 DEF Lifecycle!Next
    <3> QED
      BY <3>1, <3>2, <3>3 DEF Allowed
  <2>3. ASSUME NEW h \in Handlers,
               (\E e \in Expenses, u \in Parents, to \in Statuses :
                   UpdateExpenseStatus(h, e, u, to)) \/ Fail(h)
        PROVE  UNCHANGED Lifecycle!vars
    BY <2>3 DEF UpdateExpenseStatus, Fail, Lifecycle!vars
  <2>4. CASE UNCHANGED vars
    BY <2>4 DEF vars, Lifecycle!vars
  <2> QED
    BY <2>1, <2>2, <2>3, <2>4 DEF Next
<1> QED
  BY <1>1, <1>2, OneHandlerStillAllowed, Invariance, PTL
  DEF Spec, Lifecycle!Spec
=============================================================================
