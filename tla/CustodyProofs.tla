---------------------------- MODULE CustodyProofs ---------------------------
(***************************************************************************)
(* Proofs about Custody for any number of parents, requests in flight,     *)
(* days, plans and rows: what holds however requests overlap and wherever  *)
(* they break off.                                                         *)
(***************************************************************************)
EXTENDS Custody, FiniteSetTheorems, TLAPS

UsedSchedule(s) == s \in ScheduleIds /\ schedules[s] \in Schedule
UsedException(e) == e \in ExceptionIds /\ exceptions[e] \in Exception
UsedSwap(w) == w \in SwapIds /\ swaps[w] \in Swap

Decided(e) == exceptions[e].status \in {"accepted", "rejected"}

(* The steps of an approval or a rejection, and those of them that follow  *)
(* the approval.                                                           *)
AnswerSteps == {"reject", "supersede active", "activate",
                "read protected", "delete own", "write slots"}
GenerationSteps == {"read protected", "delete own", "write slots"}

-----------------------------------------------------------------------------
(* The inductive invariant: what each request in flight can rely on.       *)

(* An answer to a schedule comes from the other parent, and a generation   *)
(* works for an approved schedule.                                         *)
ScheduleRequestOK(r) ==
    /\ r.step = "create schedule" => r.plan \in Plans /\ r.user \in Users
    /\ r.step \in AnswerSteps =>
         /\ UsedSchedule(r.id)
         /\ r.user \in Users \ {schedules[r.id].proposedBy}
    /\ r.step \in GenerationSteps => ApprovedByTheOther(r.id)

(* An answer to an exception comes from the other parent, and only days of *)
(* a decided exception are written.                                        *)
ExceptionRequestOK(r) ==
    /\ r.step = "create exception" => r.change \in Changes /\ r.user \in Users
    /\ r.step \in {"decide", "apply"} =>
         /\ UsedException(r.id)
         /\ r.user \in Users \ {exceptions[r.id].requester}
    /\ r.step = "decide" => r.answer \in {"accepted", "rejected"}
    /\ r.step = "apply" => Decided(r.id)
                           /\ r.rows \subseteq DaysOf(exceptions[r.id].change)

(* An answer to a swap comes from the other parent; a missing slot is made *)
(* from a schedule that is there; and a custodian that was read and not    *)
(* forgotten is that of a row that still exists.                           *)
SwapRequestOK(r) ==
    /\ r.step \in SwapSteps => UsedSwap(r.id) /\ r.user # swaps[r.id].requester
                               /\ r.answer \in SwapStatus
    /\ r.basis # NoId => UsedSchedule(r.basis)
    /\ r.step \in {"create original", "create proposed"} => r.basis # NoId
    /\ r.step \in {"ensure proposed", "create proposed", "swap slots"} =>
         r.original # "unread"
    /\ r.step = "swap slots" => r.proposed # "unread"
    /\ r.original # "unread" \/ r.proposed # "unread" => r.step \in SwapSteps
    /\ r.original \in Roles => HasSlot(swaps[r.id].original)
    /\ r.proposed \in Roles => HasSlot(swaps[r.id].proposed)

HandoverRequestOK(r) ==
    /\ r.slot # "unread" => r.step \in SlotSteps
    /\ r.step \in SlotSteps => r.slot # "unread" /\ r.id \in Days
    /\ r.slot \in Roles => HasSlot(r.id)

RequestOK(r) ==
    /\ r \in Request
    /\ ScheduleRequestOK(r)
    /\ ExceptionRequestOK(r)
    /\ SwapRequestOK(r)
    /\ HandoverRequestOK(r)

(* A slot names rows that exist, and shows what they say. *)
SlotOK(d) ==
    /\ HasSlot(d) /\ slots[d].schedule # NoId => UsedSchedule(slots[d].schedule)
    /\ HasSlot(d) /\ slots[d].schedule # NoId =>
         \/ ApprovedByTheOther(slots[d].schedule)
         \/ \E w \in SwapIds : /\ swaps[w].status # "unused"
                               /\ d \in {swaps[w].original, swaps[w].proposed}
    /\ slots[d].source = "schedule" =>
         /\ slots[d].schedule # NoId
         /\ slots[d].custodian = schedules[slots[d].schedule].plan.custodian[d]
    /\ slots[d].source = "exception" =>
         /\ UsedException(slots[d].exception) /\ Decided(slots[d].exception)
         /\ slots[d].custodian = exceptions[slots[d].exception].change.custodian
         /\ d \in DaysOf(exceptions[slots[d].exception].change)

IInv ==
    /\ TypeOK
    /\ \A h \in Handlers : RequestOK(req[h])
    /\ \A s \in ScheduleIds : schedules[s].status = "active" => ApprovedByTheOther(s)
    /\ \A d \in Days : SlotOK(d)

-----------------------------------------------------------------------------
(* How the tables change: rows are added, never removed or re-used, and    *)
(* what a row says about its request stays.                                *)

SchedulesGrow ==
    \A s \in ScheduleIds : UsedSchedule(s) =>
       /\ UsedSchedule(s)'
       /\ schedules'[s].plan = schedules[s].plan
       /\ schedules'[s].proposedBy = schedules[s].proposedBy
       /\ ApprovedByTheOther(s) => ApprovedByTheOther(s)'

ExceptionsGrow ==
    \A e \in ExceptionIds : UsedException(e) =>
       /\ UsedException(e)'
       /\ exceptions'[e].change = exceptions[e].change
       /\ exceptions'[e].requester = exceptions[e].requester
       /\ Decided(e) => Decided(e)'

SwapsGrow ==
    \A w \in SwapIds : UsedSwap(w) =>
       /\ UsedSwap(w)'
       /\ swaps'[w].original = swaps[w].original
       /\ swaps'[w].proposed = swaps[w].proposed
       /\ swaps'[w].requester = swaps[w].requester

Grow == SchedulesGrow /\ ExceptionsGrow /\ SwapsGrow

SlotsStay == \A d \in Days : HasSlot(d) => HasSlot(d)'

LEMMA SameSchedules == UNCHANGED schedules => SchedulesGrow
  BY DEF SchedulesGrow, UsedSchedule, ApprovedByTheOther

LEMMA SameExceptions == UNCHANGED exceptions => ExceptionsGrow
  BY DEF ExceptionsGrow, UsedException, Decided

LEMMA SameSwaps == UNCHANGED swaps => SwapsGrow
  BY DEF SwapsGrow, UsedSwap

LEMMA SameSlots == UNCHANGED slots => SlotsStay
  BY DEF SlotsStay, HasSlot

(* A row that is not used has none of the statuses of a used one. *)
LEMMA UsedRows ==
    ASSUME TypeOK
    PROVE  /\ \A s \in ScheduleIds : UsedSchedule(s) <=> schedules[s].status # "unused"
           /\ \A e \in ExceptionIds : UsedException(e) <=> exceptions[e].status # "unused"
           /\ \A w \in SwapIds : UsedSwap(w) <=> swaps[w].status # "unused"
  BY DEF TypeOK, UsedSchedule, UsedException, UsedSwap, Schedule, Exception,
         Swap, NoRow, ScheduleStatus, SwapStatus

(* What updateMany does to the schedules. *)
LEMMA WithStatusRows ==
    ASSUME TypeOK, NEW from \in ScheduleStatus, NEW to \in ScheduleStatus,
           schedules' = WithStatus(from, to)
    PROVE  /\ schedules' \in [ScheduleIds -> Schedule \cup {NoRow}]
           /\ SchedulesGrow
           /\ \A s \in ScheduleIds : schedules'[s].status =
                 IF schedules[s].status = from THEN to ELSE schedules[s].status
<1>1. ASSUME NEW s \in ScheduleIds, schedules[s].status # from
      PROVE  schedules'[s] = schedules[s]
  BY <1>1 DEF WithStatus
<1>2. ASSUME NEW s \in ScheduleIds, schedules[s].status = from
      PROVE  /\ schedules[s] \in Schedule
             /\ schedules'[s] = [schedules[s] EXCEPT !.status = to]
  BY <1>2, UsedRows DEF WithStatus, UsedSchedule, ScheduleStatus
<1>3. ASSUME NEW s \in ScheduleIds, schedules[s].status = from
      PROVE  /\ schedules'[s] \in Schedule
             /\ schedules'[s].status = to
             /\ schedules'[s].plan = schedules[s].plan
             /\ schedules'[s].proposedBy = schedules[s].proposedBy
             /\ schedules'[s].approvedBy = schedules[s].approvedBy
  BY <1>2, <1>3 DEF Schedule
<1>4. DOMAIN schedules' = ScheduleIds /\ schedules' = [s \in ScheduleIds |-> schedules'[s]]
  BY DEF WithStatus
<1>5. schedules' \in [ScheduleIds -> Schedule \cup {NoRow}]
  BY <1>1, <1>3, <1>4 DEF TypeOK
<1>6. SchedulesGrow
  BY <1>1, <1>3 DEF SchedulesGrow, UsedSchedule, ApprovedByTheOther
<1> QED
  BY <1>1, <1>3, <1>5, <1>6

(* A request keeps what it relies on while other requests work. *)
LEMMA RequestFrame ==
    ASSUME NEW r, RequestOK(r), TypeOK, Grow, SlotsStay
    PROVE  RequestOK(r)'
<1>1. ScheduleRequestOK(r)'
  BY DEF RequestOK, ScheduleRequestOK, Grow, SchedulesGrow, UsedSchedule,
         AnswerSteps, GenerationSteps
<1>2. ExceptionRequestOK(r)'
  BY DEF RequestOK, ExceptionRequestOK, Grow, ExceptionsGrow, UsedException
<1>3. SwapRequestOK(r)'
  <2>1. /\ r.step \in SwapSteps => UsedSwap(r.id)' /\ r.user # swaps'[r.id].requester
        /\ r.basis # NoId => UsedSchedule(r.basis)'
    BY DEF RequestOK, SwapRequestOK, Grow, SchedulesGrow, SwapsGrow, UsedSchedule, UsedSwap
  <2>2. r.original \in Roles => HasSlot(swaps[r.id].original)'
                                /\ swaps'[r.id].original = swaps[r.id].original
    BY DEF RequestOK, SwapRequestOK, Grow, SwapsGrow, UsedSwap, SlotsStay, Swap, Roles
  <2>3. r.proposed \in Roles => HasSlot(swaps[r.id].proposed)'
                                /\ swaps'[r.id].proposed = swaps[r.id].proposed
    BY DEF RequestOK, SwapRequestOK, Grow, SwapsGrow, UsedSwap, SlotsStay, Swap, Roles
  <2> QED
    BY <2>1, <2>2, <2>3 DEF RequestOK, SwapRequestOK, HasSlot
<1>4. HandoverRequestOK(r)'
  BY DEF RequestOK, HandoverRequestOK, SlotsStay, Roles
<1> QED
  BY <1>1, <1>2, <1>3, <1>4 DEF RequestOK

(* So does a slot that nobody writes. *)
LEMMA SlotFrame ==
    ASSUME NEW d \in Days, SlotOK(d), TypeOK, TypeOK', Grow, slots'[d] = slots[d]
    PROVE  SlotOK(d)'
<1> USE DEF HasSlot
<1>1. (slots[d].source # "unused" /\ slots[d].schedule # NoId) =>
        /\ UsedSchedule(slots[d].schedule)'
        /\ schedules'[slots[d].schedule].plan = schedules[slots[d].schedule].plan
        /\ ApprovedByTheOther(slots[d].schedule) => ApprovedByTheOther(slots[d].schedule)'
  BY DEF SlotOK, Grow, SchedulesGrow, UsedSchedule
<1>2. \A w \in SwapIds : swaps[w].status # "unused" =>
        /\ swaps'[w].status # "unused"
        /\ swaps'[w].original = swaps[w].original
        /\ swaps'[w].proposed = swaps[w].proposed
  BY UsedRows DEF Grow, SwapsGrow, UsedSwap, Swap, SwapStatus
<1>3. slots[d].source = "exception" =>
        /\ UsedException(slots[d].exception)' /\ Decided(slots[d].exception)'
        /\ exceptions'[slots[d].exception].change = exceptions[slots[d].exception].change
  BY DEF SlotOK, Grow, ExceptionsGrow, UsedException
<1>4. slots[d].source = "schedule" => slots[d].source # "unused" /\ slots[d].schedule # NoId
  BY DEF SlotOK
<1> QED
  BY <1>1, <1>2, <1>3, <1>4 DEF SlotOK

-----------------------------------------------------------------------------
(* One request moves on, or answers; the others are left as they are. *)
LEMMA Moved ==
    ASSUME NEW h \in Handlers, NEW r, req' = [req EXCEPT ![h] = r],
           IInv, Grow, SlotsStay, RequestOK(r)'
    PROVE  \A g \in Handlers : RequestOK(req[g])'
<1> SUFFICES ASSUME NEW g \in Handlers, NEW q, q = req'[g]
             PROVE  RequestOK(q)'
  BY DEF RequestOK
<1>1. CASE g = h
  BY <1>1 DEF IInv, TypeOK
<1>2. CASE g # h
  <2>1. q = req[g]
    BY <1>2 DEF IInv, TypeOK
  <2> QED
    BY <2>1, RequestFrame DEF IInv
<1> QED
  BY <1>1, <1>2

(* What an action has to show: that tables grow, and that its request, the  *)
(* rows and the days that it writes are as they should be.                 *)
LEMMA PreservedByAll ==
    ASSUME IInv, TypeOK', Grow, \A g \in Handlers : RequestOK(req[g])',
           \A s \in ScheduleIds : schedules'[s].status = "active" =>
              schedules[s].status = "active" \/ ApprovedByTheOther(s)',
           \A d \in Days : slots'[d] = slots[d] \/ SlotOK(d)'
    PROVE  IInv'
<1>1. \A s \in ScheduleIds : schedules'[s].status = "active" => ApprovedByTheOther(s)'
  <2> SUFFICES ASSUME NEW s \in ScheduleIds, schedules[s].status = "active"
               PROVE  ApprovedByTheOther(s)'
    OBVIOUS
  <2>1. UsedSchedule(s) /\ ApprovedByTheOther(s)
    BY UsedRows DEF IInv
  <2> QED
    BY <2>1 DEF Grow, SchedulesGrow
<1>2. \A d \in Days : SlotOK(d)'
  BY SlotFrame DEF IInv
<1> QED
  BY <1>1, <1>2 DEF IInv

LEMMA Preserved ==
    ASSUME NEW h \in Handlers, NEW r, req' = [req EXCEPT ![h] = r],
           IInv, TypeOK', Grow, SlotsStay, RequestOK(r)',
           \A s \in ScheduleIds : schedules'[s].status = "active" =>
              schedules[s].status = "active" \/ ApprovedByTheOther(s)',
           \A d \in Days : slots'[d] = slots[d] \/ SlotOK(d)'
    PROVE  IInv'
<1>1. \A g \in Handlers : RequestOK(req[g])'
  BY Moved
<1> QED
  BY <1>1, PreservedByAll

(* A request that has ended relies on nothing. *)
LEMMA IdleOK == RequestOK(Idle)'
  BY DEF RequestOK, Request, Idle, ScheduleRequestOK, ExceptionRequestOK, SwapRequestOK,
         HandoverRequestOK, AnswerSteps, GenerationSteps, SwapSteps, SlotSteps,
         Held, Roles, NoId

LEMMA IdleNow == RequestOK(Idle)
  BY DEF RequestOK, Request, Idle, ScheduleRequestOK, ExceptionRequestOK, SwapRequestOK,
         HandoverRequestOK, AnswerSteps, GenerationSteps, SwapSteps, SlotSteps,
         Held, Roles, NoId

(* An action that writes no table. *)
LEMMA OnlyMoved ==
    ASSUME NEW h \in Handlers, NEW r, req' = [req EXCEPT ![h] = r],
           IInv, RequestOK(r), failures' \in Nat,
           UNCHANGED <<schedules, exceptions, swaps, slots>>
    PROVE  IInv'
<1>1. Grow /\ SlotsStay
  BY SameSchedules, SameExceptions, SameSwaps, SameSlots DEF Grow
<1>2. TypeOK'
  BY DEF IInv, TypeOK, RequestOK
<1>3. RequestOK(r)'
  BY <1>1, RequestFrame DEF IInv
<1> QED
  BY <1>1, <1>2, <1>3, Preserved

LEMMA InitIInv == Init => IInv
<1> SUFFICES ASSUME Init PROVE IInv
  OBVIOUS
<1>1. TypeOK
  BY IdleNow DEF Init, TypeOK, RequestOK
<1>2. \A h \in Handlers : RequestOK(req[h])
  BY IdleNow DEF Init
<1>3. \A d \in Days : SlotOK(d)
  BY DEF Init, SlotOK, NoSlot, HasSlot
<1> QED
  BY <1>1, <1>2, <1>3 DEF Init, IInv, NoRow

(* A request that has read nothing yet. *)
Unread(r) == /\ r.original = "unread" /\ r.proposed = "unread"
             /\ r.slot = "unread" /\ r.basis = NoId

LEMMA IdleUnread == Idle \in Request /\ Unread(Idle) /\ Idle.step = "idle"
  BY IdleNow DEF RequestOK, Idle, Unread

-----------------------------------------------------------------------------
(* ScheduleActions *)

LEMMA ProposeIInv ==
    ASSUME IInv, NEW h \in Handlers, NEW u \in Users, NEW p \in Plans,
           ProposeCustodySchedule(h, u, p), UNCHANGED failures
    PROVE  IInv'
<1>1. PICK r : r = [Idle EXCEPT !.step = "create schedule", !.user = u, !.plan = p]
  OBVIOUS
<1>2. RequestOK(r)'
  <2>1. /\ r \in Request /\ Unread(r) /\ r.step = "create schedule"
        /\ r.user = u /\ r.plan = p
    BY <1>1, IdleUnread DEF Request, ScheduleSteps, Unread
  <2> QED
    BY <2>1 DEF RequestOK, ScheduleRequestOK, ExceptionRequestOK, SwapRequestOK,
       HandoverRequestOK, AnswerSteps, GenerationSteps, SwapSteps, SlotSteps, Unread, Roles
<1>3. req' = [req EXCEPT ![h] = r]
  BY <1>1 DEF ProposeCustodySchedule
<1>4. schedules' = WithStatus("pendingApproval", "superseded")
  BY DEF ProposeCustodySchedule
<1>5. TypeOK'
  <2>1. schedules' \in [ScheduleIds -> Schedule \cup {NoRow}]
    BY <1>4, WithStatusRows DEF IInv, ScheduleStatus
  <2>2. req' \in [Handlers -> Request]
    BY <1>2, <1>3 DEF IInv, TypeOK, RequestOK
  <2> QED
    BY <2>1, <2>2 DEF IInv, TypeOK, ProposeCustodySchedule
<1>6. Grow /\ SlotsStay
  BY <1>4, WithStatusRows, SameExceptions, SameSwaps, SameSlots
  DEF IInv, ScheduleStatus, Grow, ProposeCustodySchedule
<1>7. \A s \in ScheduleIds : schedules'[s].status = "active" =>
         schedules[s].status = "active"
  BY <1>4, WithStatusRows DEF IInv, ScheduleStatus
<1> QED
  BY <1>2, <1>3, <1>5, <1>6, <1>7, Preserved DEF ProposeCustodySchedule

LEMMA CreateScheduleIInv ==
    ASSUME IInv, NEW h \in Handlers, CreateSchedule(h), UNCHANGED failures
    PROVE  IInv'
<1>1. PICK s \in UnusedSchedules :
        schedules' = [schedules EXCEPT ![s] =
                        [status |-> "pendingApproval", plan |-> req[h].plan,
                         proposedBy |-> req[h].user, approvedBy |-> Null]]
  BY DEF CreateSchedule
<1>2. s \in ScheduleIds /\ ~UsedSchedule(s)
  BY <1>1, UsedRows DEF UnusedSchedules, HasStatus, IInv
<1>3. req[h].plan \in Plans /\ req[h].user \in Users
  BY DEF IInv, RequestOK, ScheduleRequestOK, CreateSchedule
<1>4. TypeOK'
  BY <1>1, <1>3, IdleOK
  DEF IInv, TypeOK, CreateSchedule, Schedule, ScheduleStatus, Finish, RequestOK
<1>5. Grow
  <2>1. SchedulesGrow
    BY <1>1, <1>2 DEF IInv, TypeOK, SchedulesGrow, UsedSchedule, ApprovedByTheOther
  <2> QED
    BY <2>1, SameExceptions, SameSwaps DEF Grow, CreateSchedule
<1>6. SlotsStay
  BY SameSlots DEF CreateSchedule
<1>7. \A t \in ScheduleIds : schedules'[t].status = "active" =>
         schedules[t].status = "active"
  BY <1>1, <1>2 DEF IInv, TypeOK
<1> QED
  BY <1>4, <1>5, <1>6, <1>7, IdleOK, Preserved DEF CreateSchedule, Finish

LEMMA RespondIInv ==
    ASSUME IInv, NEW h \in Handlers, NEW u \in Users, NEW s \in ScheduleIds,
           NEW approve \in BOOLEAN, RespondToCustodySchedule(h, u, s, approve),
           UNCHANGED failures
    PROVE  IInv'
<1> DEFINE step == IF approve THEN "supersede active" ELSE "reject"
<1>1. PICK r : r = [Idle EXCEPT !.step = step, !.user = u, !.id = s]
  OBVIOUS
<1>2. UsedSchedule(s) /\ u # schedules[s].proposedBy
  BY UsedRows DEF IInv, RespondToCustodySchedule
<1>3. RequestOK(r)
  <2>1. /\ r \in Request /\ Unread(r) /\ r.step \in {"supersede active", "reject"}
        /\ r.user = u /\ r.id = s
    <3>1. step \in {"supersede active", "reject"} /\ s \in Int
      BY DEF ScheduleIds
    <3> HIDE DEF step
    <3>2. step \in ScheduleSteps
      BY <3>1 DEF ScheduleSteps
    <3> QED
      BY <1>1, <3>1, <3>2, IdleUnread DEF Request, Unread
  <2> QED
    BY <1>2, <2>1 DEF RequestOK, ScheduleRequestOK, ExceptionRequestOK, SwapRequestOK,
       HandoverRequestOK, AnswerSteps, GenerationSteps, SwapSteps, SlotSteps, Unread, Roles
<1> QED
  BY <1>1, <1>3, OnlyMoved DEF RespondToCustodySchedule, AnswerOf, IInv, TypeOK

(* The update of one row. *)
LEMMA ScheduleUpdated ==
    ASSUME TypeOK, NEW s, UsedSchedule(s), NEW row \in Schedule,
           row.plan = schedules[s].plan, row.proposedBy = schedules[s].proposedBy,
           ApprovedByTheOther(s) => row.approvedBy \in Users \ {row.proposedBy},
           schedules' = [schedules EXCEPT ![s] = row]
    PROVE  /\ schedules' \in [ScheduleIds -> Schedule \cup {NoRow}]
           /\ SchedulesGrow
  BY DEF TypeOK, UsedSchedule, SchedulesGrow, ApprovedByTheOther

(* What an answer that has been let through knows. *)
LEMMA AnswerKnows ==
    ASSUME IInv, NEW h \in Handlers, req[h].step \in AnswerSteps
    PROVE  /\ UsedSchedule(req[h].id) /\ req[h] \in Request
           /\ req[h].user \in Users \ {schedules[req[h].id].proposedBy}
           /\ req[h].original = "unread" /\ req[h].proposed = "unread"
           /\ req[h].slot = "unread"
           /\ req[h].basis # NoId => UsedSchedule(req[h].basis)
  BY DEF IInv, RequestOK, ScheduleRequestOK, SwapRequestOK, HandoverRequestOK,
         AnswerSteps, SwapSteps, SlotSteps

LEMMA RejectIInv ==
    ASSUME IInv, NEW h \in Handlers, RejectSchedule(h), UNCHANGED failures
    PROVE  IInv'
<1> DEFINE s == req[h].id
<1>1. UsedSchedule(s)
  BY AnswerKnows DEF RejectSchedule, AnswerSteps
<1>2. PICK row : row = [schedules[s] EXCEPT !.status = "superseded"]
  OBVIOUS
<1>3. /\ row \in Schedule /\ row.status = "superseded"
      /\ row.plan = schedules[s].plan /\ row.proposedBy = schedules[s].proposedBy
      /\ row.approvedBy = schedules[s].approvedBy
  BY <1>1, <1>2 DEF UsedSchedule, Schedule, ScheduleStatus
<1>4. schedules' = [schedules EXCEPT ![s] = row]
  BY <1>2 DEF RejectSchedule
<1>5. /\ schedules' \in [ScheduleIds -> Schedule \cup {NoRow}]
      /\ SchedulesGrow
  BY <1>1, <1>3, <1>4, ScheduleUpdated DEF IInv, ApprovedByTheOther
<1>6. Grow /\ SlotsStay
  BY <1>5, SameExceptions, SameSwaps, SameSlots DEF Grow, RejectSchedule
<1>7. TypeOK'
  BY <1>5, IdleUnread DEF IInv, TypeOK, RejectSchedule, Finish
<1>8. \A t \in ScheduleIds : schedules'[t].status = "active" =>
         schedules[t].status = "active"
  BY <1>1, <1>3, <1>4 DEF IInv, TypeOK, UsedSchedule
<1> QED
  BY <1>6, <1>7, <1>8, IdleOK, Preserved DEF RejectSchedule, Finish

LEMMA SupersedeIInv ==
    ASSUME IInv, NEW h \in Handlers, SupersedeActive(h), UNCHANGED failures
    PROVE  IInv'
<1>1. schedules' = WithStatus("active", "superseded")
  BY DEF SupersedeActive
<1>2. /\ schedules' \in [ScheduleIds -> Schedule \cup {NoRow}]
      /\ SchedulesGrow
      /\ \A s \in ScheduleIds : schedules'[s].status # "active"
  BY <1>1, WithStatusRows DEF IInv, ScheduleStatus
<1>3. Grow /\ SlotsStay
  BY <1>2, SameExceptions, SameSwaps, SameSlots DEF Grow, SupersedeActive
<1>4. PICK r : r = [req[h] EXCEPT !.step = "activate"]
  OBVIOUS
<1>5. req' = [req EXCEPT ![h] = r]
  BY <1>4 DEF SupersedeActive, Goto
<1>6. RequestOK(r)
  <2>1. /\ UsedSchedule(req[h].id) /\ req[h] \in Request
        /\ req[h].user \in Users \ {schedules[req[h].id].proposedBy}
        /\ req[h].original = "unread" /\ req[h].proposed = "unread"
        /\ req[h].slot = "unread"
        /\ req[h].basis # NoId => UsedSchedule(req[h].basis)
    BY AnswerKnows DEF SupersedeActive, AnswerSteps
  <2>2. /\ r \in Request /\ r.step = "activate" /\ r.id = req[h].id
        /\ r.user = req[h].user /\ r.basis = req[h].basis
        /\ r.original = "unread" /\ r.proposed = "unread" /\ r.slot = "unread"
    BY <1>4, <2>1 DEF Request, ScheduleSteps
  <2> QED
    BY <2>1, <2>2 DEF RequestOK, ScheduleRequestOK, ExceptionRequestOK,
       SwapRequestOK, HandoverRequestOK, GenerationSteps, SwapSteps, SlotSteps, Roles
<1>7. TypeOK'
  BY <1>2, <1>5, <1>6 DEF IInv, TypeOK, SupersedeActive, RequestOK
<1>8. RequestOK(r)'
  BY <1>3, <1>6, RequestFrame DEF IInv
<1> QED
  BY <1>2, <1>3, <1>5, <1>7, <1>8, Preserved DEF SupersedeActive

LEMMA ActivateIInv ==
    ASSUME IInv, NEW h \in Handlers, Activate(h), UNCHANGED failures
    PROVE  IInv'
<1>0. PICK s, u : s = req[h].id /\ u = req[h].user
  OBVIOUS
<1>1. /\ UsedSchedule(s) /\ req[h] \in Request
      /\ u \in Users \ {schedules[s].proposedBy}
      /\ req[h].original = "unread" /\ req[h].proposed = "unread"
      /\ req[h].slot = "unread"
      /\ req[h].basis # NoId => UsedSchedule(req[h].basis)
  BY <1>0, AnswerKnows DEF Activate, AnswerSteps
<1>2. PICK row : row = [schedules[s] EXCEPT !.status = "active", !.approvedBy = u]
  OBVIOUS
<1>3. /\ row \in Schedule /\ row.approvedBy = u
      /\ row.plan = schedules[s].plan /\ row.proposedBy = schedules[s].proposedBy
  BY <1>1, <1>2 DEF UsedSchedule, Schedule, ScheduleStatus
<1>4. schedules' = [schedules EXCEPT ![s] = row]
  BY <1>0, <1>2 DEF Activate
<1>5. /\ schedules' \in [ScheduleIds -> Schedule \cup {NoRow}]
      /\ SchedulesGrow
  BY <1>1, <1>3, <1>4, ScheduleUpdated DEF IInv
<1>6. Grow /\ SlotsStay
  BY <1>5, SameExceptions, SameSwaps, SameSlots DEF Grow, Activate
<1>7. UsedSchedule(s)' /\ schedules'[s] = row /\ ApprovedByTheOther(s)'
  BY <1>1, <1>3, <1>4 DEF IInv, TypeOK, UsedSchedule, ApprovedByTheOther
<1>8. PICK r : r = [req[h] EXCEPT !.step = "read protected"]
  OBVIOUS
<1>9. req' = [req EXCEPT ![h] = r]
  BY <1>8 DEF Activate, Goto
<1>10. /\ r \in Request /\ r.step = "read protected" /\ r.id = s
       /\ r.user = u /\ r.basis = req[h].basis
       /\ r.original = "unread" /\ r.proposed = "unread" /\ r.slot = "unread"
  BY <1>0, <1>1, <1>8 DEF Request, ScheduleSteps
<1>11. RequestOK(r)'
  <2>1. r.basis # NoId => UsedSchedule(r.basis)'
    BY <1>1, <1>5, <1>10 DEF SchedulesGrow, UsedSchedule
  <2> QED
    BY <1>1, <1>3, <1>7, <1>10, <2>1
    DEF RequestOK, ScheduleRequestOK, ExceptionRequestOK, SwapRequestOK,
        HandoverRequestOK, SwapSteps, SlotSteps, Roles
<1>12. TypeOK'
  BY <1>5, <1>9, <1>10 DEF IInv, TypeOK, Activate
<1>13. \A t \in ScheduleIds : schedules'[t].status = "active" =>
          schedules[t].status = "active" \/ ApprovedByTheOther(t)'
  BY <1>1, <1>4, <1>7 DEF IInv, TypeOK, UsedSchedule
<1> QED
  BY <1>6, <1>9, <1>11, <1>12, <1>13, Preserved DEF Activate

LEMMA ReadProtectedIInv ==
    ASSUME IInv, NEW h \in Handlers, ReadProtectedDays(h), UNCHANGED failures
    PROVE  IInv'
<1>1. PICK r : r = [req[h] EXCEPT !.step = "delete own",
                                  !.rows = {d \in Generated(h) : ~AgreedChange(d)}]
  OBVIOUS
<1>2. req' = [req EXCEPT ![h] = r]
  BY <1>1 DEF ReadProtectedDays
<1>3. {d \in Generated(h) : ~AgreedChange(d)} \in SUBSET Days
  BY DEF Generated, DaysOf
<1>4. /\ UsedSchedule(req[h].id) /\ req[h] \in Request
      /\ req[h].user \in Users \ {schedules[req[h].id].proposedBy}
      /\ req[h].original = "unread" /\ req[h].proposed = "unread"
      /\ req[h].slot = "unread"
      /\ req[h].basis # NoId => UsedSchedule(req[h].basis)
  BY AnswerKnows DEF ReadProtectedDays, AnswerSteps
<1>5. /\ r \in Request /\ r.step = "delete own" /\ r.id = req[h].id
      /\ r.user = req[h].user /\ r.basis = req[h].basis
      /\ r.original = "unread" /\ r.proposed = "unread" /\ r.slot = "unread"
  BY <1>1, <1>3, <1>4 DEF Request, ScheduleSteps
<1>6. ApprovedByTheOther(r.id)
  BY <1>5 DEF IInv, RequestOK, ScheduleRequestOK, ReadProtectedDays, GenerationSteps
<1>7. RequestOK(r)
  BY <1>4, <1>5, <1>6 DEF RequestOK, ScheduleRequestOK, ExceptionRequestOK,
     SwapRequestOK, HandoverRequestOK, SwapSteps, SlotSteps, Roles
<1> QED
  BY <1>2, <1>7, OnlyMoved DEF ReadProtectedDays, IInv, TypeOK

(* A day that is written by a generation. *)
LEMMA WriteSlotIInv ==
    ASSUME IInv, NEW h \in Handlers, WriteSlot(h), UNCHANGED failures
    PROVE  IInv'
<1>0. PICK s : s = req[h].id
  OBVIOUS
<1>1. /\ UsedSchedule(s) /\ req[h] \in Request
      /\ req[h].user \in Users \ {schedules[s].proposedBy}
      /\ req[h].original = "unread" /\ req[h].proposed = "unread"
      /\ req[h].slot = "unread"
      /\ req[h].basis # NoId => UsedSchedule(req[h].basis)
  BY <1>0, AnswerKnows DEF WriteSlot, AnswerSteps
<1>2. ApprovedByTheOther(s)
  BY <1>0 DEF IInv, RequestOK, ScheduleRequestOK, WriteSlot, GenerationSteps
<1>day. PICK d \in Days : \E row :
        /\ row = [custodian |-> schedules[s].plan.custodian[d],
                  source |-> "schedule", schedule |-> s,
                  exception |-> NoId, handover |-> "schedule"]
        /\ slots' = [slots EXCEPT ![d] = row]
        /\ RowWritten(h, d)
  BY <1>0 DEF WriteSlot
<1>3. PICK row :
        /\ row = [custodian |-> schedules[s].plan.custodian[d],
                  source |-> "schedule", schedule |-> s,
                  exception |-> NoId, handover |-> "schedule"]
        /\ slots' = [slots EXCEPT ![d] = row]
        /\ RowWritten(h, d)
  BY <1>day
<1>4. row \in Slot /\ row.source = "schedule" /\ row.schedule = s
      /\ row.custodian = schedules[s].plan.custodian[d]
  <2>1. schedules[s].plan.custodian[d] \in Roles
    BY <1>1, <1>3, PlansAssumption DEF UsedSchedule, Schedule, PlanType
  <2> QED
    BY <1>1, <1>3, <2>1 DEF Slot, UsedSchedule
<1>5. Grow
  BY SameSchedules, SameExceptions, SameSwaps DEF Grow, WriteSlot
<1>6. slots' \in [Days -> Slot \cup {NoSlot}] /\ SlotsStay
  BY <1>3, <1>4 DEF IInv, TypeOK, SlotsStay, HasSlot
<1>7. PICK r : /\ req' = [req EXCEPT ![h] = r]
               /\ r = Idle \/ r = [req[h] EXCEPT !.rows = @ \ {d}]
  BY <1>3 DEF RowWritten, Finish
<1>8. RequestOK(r)
  <2>1. CASE r = Idle
    BY <2>1, IdleNow
  <2>2. CASE r = [req[h] EXCEPT !.rows = @ \ {d}]
    <3>1. /\ r \in Request /\ r.step = "write slots" /\ r.id = s
          /\ r.user = req[h].user /\ r.basis = req[h].basis
          /\ r.original = "unread" /\ r.proposed = "unread" /\ r.slot = "unread"
      BY <1>0, <1>1, <2>2 DEF Request, WriteSlot
    <3> QED
      BY <1>1, <1>2, <3>1 DEF RequestOK, ScheduleRequestOK, ExceptionRequestOK,
         SwapRequestOK, HandoverRequestOK, SwapSteps, SlotSteps, Roles
  <2> QED
    BY <1>7, <2>1, <2>2
<1>9. TypeOK'
  BY <1>6, <1>7, <1>8 DEF IInv, TypeOK, WriteSlot, RequestOK
<1>10. SlotOK(d)'
  <2>1. UsedSchedule(s)' /\ ApprovedByTheOther(s)' /\ schedules'[s] = schedules[s]
    BY <1>1, <1>2 DEF WriteSlot, UsedSchedule, ApprovedByTheOther
  <2>2. slots'[d] = row
    BY <1>3 DEF IInv, TypeOK
  <2> QED
    BY <1>1, <1>4, <2>1, <2>2, BoundsAssumption
    DEF SlotOK, HasSlot, UsedSchedule, ScheduleIds, NoId
<1>11. \A e \in Days : slots'[e] = slots[e] \/ SlotOK(e)'
  BY <1>3, <1>10 DEF IInv, TypeOK
<1>12. RequestOK(r)'
  BY <1>5, <1>6, <1>8, RequestFrame DEF IInv
<1> QED
  BY <1>5, <1>6, <1>7, <1>9, <1>11, <1>12, Preserved DEF WriteSlot

(* What a request has read in rows that are deleted is forgotten. *)
LEMMA ForgetOK ==
    ASSUME IInv, NEW r, RequestOK(r), NEW gone \in SUBSET Days, NEW q, q = Forget(r, gone),
           UNCHANGED <<schedules, exceptions, swaps>>,
           \A d \in Days \ gone : slots'[d] = slots[d]
    PROVE  RequestOK(q)'
<1>1. r \in Request
  BY DEF RequestOK
<1>2. /\ q.step = r.step /\ q.user = r.user /\ q.id = r.id /\ q.plan = r.plan
      /\ q.change = r.change /\ q.answer = r.answer /\ q.rows = r.rows
      /\ q.basis = r.basis
      /\ q.original = IF r.original \in Roles /\ swaps[r.id].original \in gone
                      THEN "deleted" ELSE r.original
      /\ q.proposed = IF r.proposed \in Roles /\ swaps[r.id].proposed \in gone
                      THEN "deleted" ELSE r.proposed
      /\ q.slot = IF r.slot \in Roles /\ r.id \in gone THEN "deleted" ELSE r.slot
  BY <1>1 DEF Forget, Request
<1>3. q \in Request
  <2>1. q = [r EXCEPT !.original = q.original, !.proposed = q.proposed, !.slot = q.slot]
    BY <1>1 DEF Forget, Request
  <2>2. q.original \in Held /\ q.proposed \in Held /\ q.slot \in Held
    BY <1>1, <1>2 DEF Request, Held
  <2> QED
    BY <1>1, <2>1, <2>2 DEF Request
<1>4. ScheduleRequestOK(q)'
  BY <1>2 DEF RequestOK, ScheduleRequestOK, UsedSchedule, ApprovedByTheOther
<1>5. ExceptionRequestOK(q)'
  BY <1>2 DEF RequestOK, ExceptionRequestOK, UsedException, Decided
<1>6. SwapRequestOK(q)'
  <2>1. /\ q.original \in Roles => HasSlot(swaps[r.id].original)'
        /\ q.proposed \in Roles => HasSlot(swaps[r.id].proposed)'
    <3>1. r.original # "unread" \/ r.proposed # "unread" => UsedSwap(r.id)
      BY DEF RequestOK, SwapRequestOK
    <3>2. UsedSwap(r.id) => swaps[r.id].original \in Days /\ swaps[r.id].proposed \in Days
      BY DEF UsedSwap, Swap
    <3> QED
      BY <1>2, <3>1, <3>2 DEF RequestOK, SwapRequestOK, HasSlot, Roles
  <2>2. q.original = "unread" <=> r.original = "unread"
    BY <1>2 DEF Roles
  <2>3. q.proposed = "unread" <=> r.proposed = "unread"
    BY <1>2 DEF Roles
  <2> QED
    BY <1>2, <2>1, <2>2, <2>3 DEF RequestOK, SwapRequestOK, UsedSwap, UsedSchedule, HasSlot
<1>7. HandoverRequestOK(q)'
  BY <1>2 DEF RequestOK, HandoverRequestOK, HasSlot, Roles
<1> QED
  BY <1>3, <1>4, <1>5, <1>6, <1>7 DEF RequestOK

LEMMA DeleteIInv ==
    ASSUME IInv, NEW h \in Handlers, DeleteOwnSlots(h), UNCHANGED failures
    PROVE  IInv'
<1>1. PICK gone : gone = OwnSlots(h)
  OBVIOUS
<1>2. gone \in SUBSET Days
  BY <1>1 DEF OwnSlots, Generated, DaysOf
<1>3. slots' = [d \in Days |-> IF d \in gone THEN NoSlot ELSE slots[d]]
  BY <1>1 DEF DeleteOwnSlots
<1>4. ASSUME NEW g \in Handlers
      PROVE  RequestOK(req[g])'
  <2>1. PICK q : q = req'[g]
    OBVIOUS
  <2>2. CASE g # h
    <3>1. q = Forget(req[g], gone)
      BY <1>1, <2>1, <2>2 DEF DeleteOwnSlots
    <3>2. RequestOK(q)'
      BY <1>2, <1>3, <3>1, ForgetOK DEF IInv, DeleteOwnSlots
    <3> QED
      BY <2>1, <3>2 DEF RequestOK
  <2>3. CASE g = h /\ req[h].rows = {}
    BY <2>3, IdleOK DEF DeleteOwnSlots, RequestOK
  <2>4. CASE g = h /\ req[h].rows # {}
    <3>1. q = [req[h] EXCEPT !.step = "write slots"]
      BY <2>1, <2>4 DEF DeleteOwnSlots
    <3>2. /\ UsedSchedule(req[h].id) /\ req[h] \in Request
          /\ req[h].user \in Users \ {schedules[req[h].id].proposedBy}
          /\ req[h].original = "unread" /\ req[h].proposed = "unread"
          /\ req[h].slot = "unread"
          /\ req[h].basis # NoId => UsedSchedule(req[h].basis)
      BY AnswerKnows DEF DeleteOwnSlots, AnswerSteps
    <3>3. ApprovedByTheOther(req[h].id)
      BY DEF IInv, RequestOK, ScheduleRequestOK, DeleteOwnSlots, GenerationSteps
    <3>4. /\ q \in Request /\ q.step = "write slots" /\ q.id = req[h].id
          /\ q.user = req[h].user /\ q.basis = req[h].basis
          /\ q.original = "unread" /\ q.proposed = "unread" /\ q.slot = "unread"
      BY <3>1, <3>2 DEF Request, ScheduleSteps
    <3>5. /\ UsedSchedule(q.id)' /\ q.user \in Users \ {schedules'[q.id].proposedBy}
          /\ ApprovedByTheOther(q.id)'
          /\ q.basis # NoId => UsedSchedule(q.basis)'
      BY <3>2, <3>3, <3>4 DEF DeleteOwnSlots, UsedSchedule, ApprovedByTheOther
    <3>6. RequestOK(q)'
      BY <3>4, <3>5 DEF RequestOK, ScheduleRequestOK, ExceptionRequestOK,
         SwapRequestOK, HandoverRequestOK, SwapSteps, SlotSteps, Roles
    <3> QED
      BY <2>1, <3>6 DEF RequestOK
  <2> QED
    BY <2>2, <2>3, <2>4
<1>5. Grow
  BY SameSchedules, SameExceptions, SameSwaps DEF Grow, DeleteOwnSlots
<1>6. TypeOK'
  <2>1. slots' \in [Days -> Slot \cup {NoSlot}]
    BY <1>3 DEF IInv, TypeOK
  <2>2. req' \in [Handlers -> Request]
    BY <1>4 DEF DeleteOwnSlots, RequestOK
  <2> QED
    BY <2>1, <2>2 DEF IInv, TypeOK, DeleteOwnSlots
<1>7. \A d \in Days : slots'[d] = slots[d] \/ SlotOK(d)'
  BY <1>3 DEF SlotOK, HasSlot, NoSlot
<1> QED
  BY <1>4, <1>5, <1>6, <1>7, PreservedByAll DEF DeleteOwnSlots

-----------------------------------------------------------------------------
(* ExceptionActions *)

LEMMA AskExceptionIInv ==
    ASSUME IInv, NEW h \in Handlers, NEW u \in Users, NEW c \in Changes,
           CreateCustodyException(h, u, c), UNCHANGED failures
    PROVE  IInv'
<1>1. PICK r : r = [Idle EXCEPT !.step = "create exception", !.user = u, !.change = c]
  OBVIOUS
<1>2. /\ r \in Request /\ Unread(r) /\ r.step = "create exception"
      /\ r.user = u /\ r.change = c
  BY <1>1, IdleUnread DEF Request, ExceptionSteps, Unread
<1>3. RequestOK(r)
  BY <1>2 DEF RequestOK, ScheduleRequestOK, ExceptionRequestOK, SwapRequestOK,
     HandoverRequestOK, AnswerSteps, GenerationSteps, SwapSteps, SlotSteps, Unread, Roles
<1> QED
  BY <1>1, <1>3, OnlyMoved DEF CreateCustodyException, IInv, TypeOK

LEMMA CreateExceptionIInv ==
    ASSUME IInv, NEW h \in Handlers, CreateException(h), UNCHANGED failures
    PROVE  IInv'
<1>1. PICK e \in UnusedExceptions :
        exceptions' = [exceptions EXCEPT ![e] =
                         [status |-> "pending", change |-> req[h].change,
                          requester |-> req[h].user]]
  BY DEF CreateException
<1>2. e \in ExceptionIds /\ ~UsedException(e)
  BY <1>1, UsedRows DEF UnusedExceptions, IInv
<1>3. req[h].change \in Changes /\ req[h].user \in Users
  BY DEF IInv, RequestOK, ExceptionRequestOK, CreateException
<1>4. TypeOK'
  BY <1>1, <1>3, IdleUnread DEF IInv, TypeOK, CreateException, Exception, Finish
<1>5. Grow
  <2>1. ExceptionsGrow
    BY <1>1, <1>2 DEF IInv, TypeOK, ExceptionsGrow, UsedException, Decided
  <2> QED
    BY <2>1, SameSchedules, SameSwaps DEF Grow, CreateException
<1>6. SlotsStay
  BY SameSlots DEF CreateException
<1> QED
  BY <1>4, <1>5, <1>6, IdleOK, Preserved DEF CreateException, Finish

LEMMA RespondExceptionIInv ==
    ASSUME IInv, NEW h \in Handlers, NEW u \in Users, NEW e \in ExceptionIds,
           NEW answer \in {"accepted", "rejected"},
           RespondToCustodyException(h, u, e, answer), UNCHANGED failures
    PROVE  IInv'
<1>1. PICK r : r = [Idle EXCEPT !.step = "decide", !.user = u, !.id = e, !.answer = answer]
  OBVIOUS
<1>2. UsedException(e) /\ u # exceptions[e].requester
  BY UsedRows DEF IInv, RespondToCustodyException
<1>3. /\ r \in Request /\ Unread(r) /\ r.step = "decide"
      /\ r.user = u /\ r.id = e /\ r.answer = answer
  <2>1. answer \in SwapStatus /\ e \in Int
    BY DEF SwapStatus, ExceptionIds
  <2> QED
    BY <1>1, <2>1, IdleUnread DEF Request, ExceptionSteps, Unread
<1>4. RequestOK(r)
  BY <1>2, <1>3 DEF RequestOK, ScheduleRequestOK, ExceptionRequestOK, SwapRequestOK,
     HandoverRequestOK, AnswerSteps, GenerationSteps, SwapSteps, SlotSteps, Unread, Roles
<1> QED
  BY <1>1, <1>4, OnlyMoved DEF RespondToCustodyException, IInv, TypeOK

(* What an answer to an exception that has been let through knows. *)
LEMMA DecisionKnows ==
    ASSUME IInv, NEW h \in Handlers, req[h].step \in {"decide", "apply"}
    PROVE  /\ UsedException(req[h].id) /\ req[h] \in Request
           /\ req[h].user \in Users \ {exceptions[req[h].id].requester}
           /\ req[h].original = "unread" /\ req[h].proposed = "unread"
           /\ req[h].slot = "unread"
           /\ req[h].basis # NoId => UsedSchedule(req[h].basis)
  BY DEF IInv, RequestOK, ExceptionRequestOK, SwapRequestOK, HandoverRequestOK,
         SwapSteps, SlotSteps

LEMMA DecideIInv ==
    ASSUME IInv, NEW h \in Handlers, DecideException(h), UNCHANGED failures
    PROVE  IInv'
<1>0. PICK e, days, answer :
        /\ e = req[h].id /\ days = DaysOf(exceptions[e].change)
        /\ answer = req[h].answer
  OBVIOUS
<1>1. /\ UsedException(e) /\ req[h] \in Request
      /\ req[h].user \in Users \ {exceptions[e].requester}
      /\ req[h].original = "unread" /\ req[h].proposed = "unread"
      /\ req[h].slot = "unread"
      /\ req[h].basis # NoId => UsedSchedule(req[h].basis)
  BY <1>0, DecisionKnows DEF DecideException
<1>2. answer \in {"accepted", "rejected"}
  BY <1>0 DEF IInv, RequestOK, ExceptionRequestOK, DecideException
<1>3. PICK row : row = [exceptions[e] EXCEPT !.status = answer]
  OBVIOUS
<1>4. /\ row \in Exception /\ row.status = answer
      /\ row.change = exceptions[e].change /\ row.requester = exceptions[e].requester
  BY <1>1, <1>2, <1>3 DEF UsedException, Exception
<1>5. exceptions' = [exceptions EXCEPT ![e] = row]
  BY <1>0, <1>3 DEF DecideException
<1>6. exceptions' \in [ExceptionIds -> Exception \cup {NoRow}]
  BY <1>4, <1>5 DEF IInv, TypeOK
<1>7. Grow
  <2>1. ExceptionsGrow
    BY <1>1, <1>2, <1>4, <1>5 DEF IInv, TypeOK, UsedException, ExceptionsGrow, Decided
  <2> QED
    BY <2>1, SameSchedules, SameSwaps DEF Grow, DecideException
<1>8. UsedException(e)' /\ exceptions'[e] = row /\ Decided(e)'
  BY <1>1, <1>2, <1>4, <1>5 DEF IInv, TypeOK, UsedException, Decided
<1>9. SlotsStay
  BY SameSlots DEF DecideException
<1>10. PICK r : /\ req' = [req EXCEPT ![h] = r]
                /\ r = Idle \/ r = [req[h] EXCEPT !.step = "apply", !.rows = days]
  BY <1>0 DEF DecideException, Finish
<1>11. RequestOK(r)'
  <2>1. CASE r = Idle
    BY <2>1, IdleOK
  <2>2. CASE r = [req[h] EXCEPT !.step = "apply", !.rows = days]
    <3>1. days \in SUBSET Days
      BY <1>0 DEF DaysOf
    <3>2. /\ r \in Request /\ r.step = "apply" /\ r.id = e /\ r.rows = days
          /\ r.user = req[h].user /\ r.basis = req[h].basis
          /\ r.original = "unread" /\ r.proposed = "unread" /\ r.slot = "unread"
      BY <1>0, <1>1, <2>2, <3>1 DEF Request, ExceptionSteps
    <3>3. r.user \in Users \ {exceptions'[r.id].requester}
      BY <1>1, <1>4, <1>8, <3>2
    <3>4. r.rows \subseteq DaysOf(exceptions'[r.id].change)
      BY <1>0, <1>4, <1>8, <3>2
    <3>5. r.basis # NoId => UsedSchedule(r.basis)'
      BY <1>1, <3>2 DEF DecideException, UsedSchedule
    <3> QED
      BY <1>8, <3>2, <3>3, <3>4, <3>5
      DEF RequestOK, ScheduleRequestOK, ExceptionRequestOK, SwapRequestOK,
          HandoverRequestOK, AnswerSteps, GenerationSteps, SwapSteps, SlotSteps, Roles
  <2> QED
    BY <1>10, <2>1, <2>2
<1>12. TypeOK'
  <2>1. req' \in [Handlers -> Request]
    BY <1>10, <1>11 DEF IInv, TypeOK, RequestOK
  <2> QED
    BY <1>6, <2>1 DEF IInv, TypeOK, DecideException
<1> QED
  BY <1>7, <1>9, <1>10, <1>11, <1>12, Preserved DEF DecideException

LEMMA ApplyIInv ==
    ASSUME IInv, NEW h \in Handlers, ApplyException(h), UNCHANGED failures
    PROVE  IInv'
<1>0. PICK e : e = req[h].id
  OBVIOUS
<1>1. /\ UsedException(e) /\ req[h] \in Request
      /\ req[h].user \in Users \ {exceptions[e].requester}
      /\ req[h].original = "unread" /\ req[h].proposed = "unread"
      /\ req[h].slot = "unread"
      /\ req[h].basis # NoId => UsedSchedule(req[h].basis)
  BY <1>0, DecisionKnows DEF ApplyException
<1>2. Decided(e) /\ req[h].rows \subseteq DaysOf(exceptions[e].change)
  BY <1>0 DEF IInv, RequestOK, ExceptionRequestOK, ApplyException
<1>day. PICK d \in Days : \E row :
        /\ row = [custodian |-> exceptions[e].change.custodian,
                  source |-> "exception", exception |-> e,
                  schedule |-> IF HasSlot(d) THEN slots[d].schedule ELSE NoId,
                  handover |-> IF HasSlot(d) THEN slots[d].handover ELSE "none"]
        /\ d \in req[h].rows
        /\ slots' = [slots EXCEPT ![d] = row]
        /\ RowWritten(h, d)
  BY <1>0 DEF ApplyException, NextRow
<1>3. PICK row :
        /\ row = [custodian |-> exceptions[e].change.custodian,
                  source |-> "exception", exception |-> e,
                  schedule |-> IF HasSlot(d) THEN slots[d].schedule ELSE NoId,
                  handover |-> IF HasSlot(d) THEN slots[d].handover ELSE "none"]
        /\ d \in req[h].rows
        /\ slots' = [slots EXCEPT ![d] = row]
        /\ RowWritten(h, d)
  BY <1>day
<1>4. /\ row \in Slot /\ row.source = "exception" /\ row.exception = e
      /\ row.custodian = exceptions[e].change.custodian
      /\ row.schedule = IF HasSlot(d) THEN slots[d].schedule ELSE NoId
  <2>1. exceptions[e].change.custodian \in Roles
    BY <1>1, ChangesAssumption DEF UsedException, Exception, ChangeType
  <2>2. HasSlot(d) => slots[d] \in Slot
    BY DEF IInv, TypeOK, HasSlot, NoSlot
  <2>3. (IF HasSlot(d) THEN slots[d].schedule ELSE NoId) \in ScheduleIds \cup {NoId}
    BY <2>2 DEF Slot
  <2>4. (IF HasSlot(d) THEN slots[d].handover ELSE "none") \in {"none", "schedule", "manual"}
    BY <2>2 DEF Slot
  <2> QED
    BY <1>1, <1>3, <2>1, <2>3, <2>4 DEF Slot, UsedException
<1>5. Grow
  BY SameSchedules, SameExceptions, SameSwaps DEF Grow, ApplyException
<1>6. slots' \in [Days -> Slot \cup {NoSlot}] /\ SlotsStay
  BY <1>3, <1>4 DEF IInv, TypeOK, SlotsStay, HasSlot
<1>7. PICK r : /\ req' = [req EXCEPT ![h] = r]
               /\ r = Idle \/ r = [req[h] EXCEPT !.rows = @ \ {d}]
  BY <1>3 DEF RowWritten, Finish
<1>8. RequestOK(r)
  <2>1. CASE r = Idle
    BY <2>1, IdleNow
  <2>2. CASE r = [req[h] EXCEPT !.rows = @ \ {d}]
    <3>1. /\ r \in Request /\ r.step = "apply" /\ r.id = e
          /\ r.rows \subseteq req[h].rows
          /\ r.user = req[h].user /\ r.basis = req[h].basis
          /\ r.original = "unread" /\ r.proposed = "unread" /\ r.slot = "unread"
      BY <1>0, <1>1, <2>2 DEF Request, ApplyException
    <3> QED
      BY <1>1, <1>2, <3>1 DEF RequestOK, ScheduleRequestOK, ExceptionRequestOK,
         SwapRequestOK, HandoverRequestOK, AnswerSteps, GenerationSteps,
         SwapSteps, SlotSteps, Roles
  <2> QED
    BY <1>7, <2>1, <2>2
<1>9. TypeOK'
  BY <1>6, <1>7, <1>8 DEF IInv, TypeOK, ApplyException, RequestOK
<1>10. SlotOK(d)'
  <2>1. UsedException(e)' /\ Decided(e)' /\ exceptions'[e] = exceptions[e]
    BY <1>1, <1>2 DEF ApplyException, UsedException, Decided
  <2>2. slots'[d] = row /\ d \in DaysOf(exceptions[e].change)
    BY <1>2, <1>3 DEF IInv, TypeOK
  <2>3. row.schedule # NoId =>
          /\ UsedSchedule(row.schedule)'
          /\ \/ ApprovedByTheOther(row.schedule)'
             \/ \E w \in SwapIds : /\ swaps'[w].status # "unused"
                                   /\ d \in {swaps'[w].original, swaps'[w].proposed}
    BY <1>4 DEF IInv, SlotOK, ApplyException, UsedSchedule, ApprovedByTheOther
  <2> QED
    BY <1>4, <2>1, <2>2, <2>3 DEF SlotOK, HasSlot
<1>11. \A c \in Days : slots'[c] = slots[c] \/ SlotOK(c)'
  BY <1>3, <1>10 DEF IInv, TypeOK
<1>12. RequestOK(r)'
  BY <1>5, <1>6, <1>8, RequestFrame DEF IInv
<1> QED
  BY <1>5, <1>6, <1>7, <1>9, <1>11, <1>12, Preserved DEF ApplyException

-----------------------------------------------------------------------------
(* SwapActions *)

LEMMA AskSwapIInv ==
    ASSUME IInv, NEW h \in Handlers, NEW u \in Users, NEW dates \in SwapDates,
           CreateSwapRequest(h, u, dates), UNCHANGED failures
    PROVE  IInv'
<1>1. PICK w \in UnusedSwaps :
        swaps' = [swaps EXCEPT ![w] =
                    [status |-> "pending", original |-> dates[1],
                     proposed |-> dates[2], requester |-> u]]
  BY DEF CreateSwapRequest
<1>2. w \in SwapIds /\ ~UsedSwap(w)
  BY <1>1, UsedRows DEF UnusedSwaps, IInv
<1>3. dates[1] \in Days /\ dates[2] \in Days
  BY SwapDatesAssumption
<1>4. TypeOK'
  BY <1>1, <1>3 DEF IInv, TypeOK, CreateSwapRequest, Swap, SwapStatus
<1>5. Grow
  <2>1. SwapsGrow
    BY <1>1, <1>2 DEF IInv, TypeOK, SwapsGrow, UsedSwap
  <2> QED
    BY <2>1, SameSchedules, SameExceptions DEF Grow, CreateSwapRequest
<1>6. SlotsStay
  BY SameSlots DEF CreateSwapRequest
<1>7. PICK r : r = req[h]
  OBVIOUS
<1>8. req' = [req EXCEPT ![h] = r] /\ RequestOK(r)
  BY <1>7 DEF CreateSwapRequest, IInv, TypeOK
<1>9. RequestOK(r)'
  BY <1>5, <1>6, <1>8, RequestFrame DEF IInv
<1> QED
  BY <1>4, <1>5, <1>6, <1>8, <1>9, Preserved DEF CreateSwapRequest

LEMMA RespondSwapIInv ==
    ASSUME IInv, NEW h \in Handlers, NEW u \in Users, NEW w \in SwapIds,
           NEW answer \in SwapStatus,
           RespondToSwapRequest(h, u, w, answer), UNCHANGED failures
    PROVE  IInv'
<1> DEFINE step == IF answer = "accepted" THEN "read pending" ELSE "answer swap"
<1>1. PICK r : r = [Idle EXCEPT !.step = step, !.user = u, !.id = w, !.answer = answer]
  OBVIOUS
<1>2. UsedSwap(w) /\ u # swaps[w].requester
  BY UsedRows DEF IInv, RespondToSwapRequest
<1>3. /\ r \in Request /\ Unread(r) /\ r.step \in {"read pending", "answer swap"}
      /\ r.user = u /\ r.id = w /\ r.answer = answer
  <2>1. step \in {"read pending", "answer swap"} /\ w \in Int
    BY DEF SwapIds
  <2> HIDE DEF step
  <2>2. step \in SwapSteps
    BY <2>1 DEF SwapSteps
  <2> QED
    BY <1>1, <2>1, <2>2, IdleUnread DEF Request, Unread
<1>4. RequestOK(r)
  BY <1>2, <1>3 DEF RequestOK, ScheduleRequestOK, ExceptionRequestOK, SwapRequestOK,
     HandoverRequestOK, AnswerSteps, GenerationSteps, SwapSteps, SlotSteps, Unread, Roles
<1> QED
  BY <1>1, <1>4, OnlyMoved DEF RespondToSwapRequest, IInv, TypeOK

(* What an answer to a swap that has been let through knows. *)
SwapKnown(r) ==
    /\ r \in Request /\ UsedSwap(r.id) /\ r.user # swaps[r.id].requester
    /\ r.answer \in SwapStatus /\ r.slot = "unread"
    /\ r.basis # NoId => UsedSchedule(r.basis)
    /\ r.original \in Roles => HasSlot(swaps[r.id].original)
    /\ r.proposed \in Roles => HasSlot(swaps[r.id].proposed)

LEMMA SwapKnows ==
    ASSUME IInv, NEW h \in Handlers, req[h].step \in SwapSteps
    PROVE  /\ SwapKnown(req[h])
           /\ swaps[req[h].id].original \in Days
           /\ swaps[req[h].id].proposed \in Days
           /\ req[h].step \in {"ensure proposed", "create proposed", "swap slots"} =>
                 req[h].original # "unread"
           /\ req[h].step = "swap slots" => req[h].proposed # "unread"
           /\ req[h].step \in {"create original", "create proposed"} => req[h].basis # NoId
  BY DEF IInv, RequestOK, SwapRequestOK, HandoverRequestOK, SwapKnown,
         SwapSteps, SlotSteps, UsedSwap, Swap

(* A request that goes on answering the swap. *)
LEMMA SwapGoesOn ==
    ASSUME NEW r, SwapKnown(r), r.step \in SwapSteps,
           r.step \in {"create original", "create proposed"} => r.basis # NoId,
           r.step \in {"ensure proposed", "create proposed", "swap slots"} =>
              r.original # "unread",
           r.step = "swap slots" => r.proposed # "unread"
    PROVE  RequestOK(r)
<1>1. ScheduleRequestOK(r) /\ ExceptionRequestOK(r)
  BY DEF ScheduleRequestOK, ExceptionRequestOK, AnswerSteps, GenerationSteps, SwapSteps
<1>2. HandoverRequestOK(r)
  BY DEF HandoverRequestOK, SwapKnown, SwapSteps, SlotSteps, Roles
<1> QED
  BY <1>1, <1>2 DEF RequestOK, SwapRequestOK, SwapKnown

(* findFirst returns an existing row, or none. *)
LEMMA NewestUsed ==
    ASSUME TypeOK, NEW status \in ScheduleStatus, NEW s \in ScheduleIds \cup {NoId},
           IsNewest(s, HasStatus(status)), s # NoId
    PROVE  UsedSchedule(s)
  BY UsedRows DEF HasStatus, ScheduleStatus, IsNewest

LEMMA ReadPendingIInv ==
    ASSUME IInv, NEW h \in Handlers, ReadPendingSchedule(h), UNCHANGED failures
    PROVE  IInv'
<1>1. PICK s \in ScheduleIds \cup {NoId} :
        /\ IsNewest(s, HasStatus("pendingApproval"))
        /\ req' = [req EXCEPT ![h].basis = s,
                              ![h].step = IF s = NoId THEN "read active"
                                                      ELSE "ensure original"]
  BY DEF ReadPendingSchedule
<1> DEFINE step == IF s = NoId THEN "read active" ELSE "ensure original"
<1>2. PICK r : r = [req[h] EXCEPT !.basis = s, !.step = step]
  OBVIOUS
<1>3. SwapKnown(req[h])
  BY SwapKnows DEF ReadPendingSchedule, SwapSteps
<1>4. s # NoId => UsedSchedule(s)
  BY <1>1, NewestUsed DEF IInv, ScheduleStatus
<1>5. step \in SwapSteps /\ step \in {"read active", "ensure original"}
  BY DEF SwapSteps
<1>6. req' = [req EXCEPT ![h] = r]
  BY <1>1, <1>2
<1> HIDE DEF step
<1>7. /\ r \in Request /\ r.step = step /\ r.id = req[h].id /\ r.user = req[h].user
      /\ r.answer = req[h].answer /\ r.basis = s /\ r.slot = req[h].slot
      /\ r.original = req[h].original /\ r.proposed = req[h].proposed
  BY <1>2, <1>3, <1>5 DEF SwapKnown, Request
<1>8. RequestOK(r)
  BY <1>3, <1>4, <1>5, <1>7, SwapGoesOn DEF SwapKnown
<1> QED
  BY <1>6, <1>8, OnlyMoved DEF ReadPendingSchedule, IInv, TypeOK

LEMMA ReadActiveIInv ==
    ASSUME IInv, NEW h \in Handlers, ReadActiveSchedule(h), UNCHANGED failures
    PROVE  IInv'
<1>1. PICK s \in ScheduleIds \cup {NoId} :
        /\ IsNewest(s, HasStatus("active"))
        /\ req' = [req EXCEPT ![h].basis = s, ![h].step = "ensure original"]
  BY DEF ReadActiveSchedule
<1>2. PICK r : r = [req[h] EXCEPT !.basis = s, !.step = "ensure original"]
  OBVIOUS
<1>3. SwapKnown(req[h])
  BY SwapKnows DEF ReadActiveSchedule, SwapSteps
<1>4. s # NoId => UsedSchedule(s)
  BY <1>1, NewestUsed DEF IInv, ScheduleStatus
<1>5. req' = [req EXCEPT ![h] = r]
  BY <1>1, <1>2
<1>6. /\ r \in Request /\ r.step = "ensure original" /\ r.id = req[h].id
      /\ r.user = req[h].user /\ r.answer = req[h].answer /\ r.basis = s
      /\ r.slot = req[h].slot
      /\ r.original = req[h].original /\ r.proposed = req[h].proposed
  BY <1>2, <1>3 DEF SwapKnown, Request, SwapSteps
<1>7. RequestOK(r)
  BY <1>3, <1>4, <1>6, SwapGoesOn DEF SwapKnown, SwapSteps
<1> QED
  BY <1>5, <1>7, OnlyMoved DEF ReadActiveSchedule, IInv, TypeOK

(* The custodian of a row that is there. *)
LEMMA SlotCustodian ==
    ASSUME TypeOK, NEW d \in Days, HasSlot(d)
    PROVE  slots[d] \in Slot /\ slots[d].custodian \in Roles
  BY DEF TypeOK, HasSlot, NoSlot, Slot

LEMMA EnsureOriginalIInv ==
    ASSUME IInv, NEW h \in Handlers, EnsureOriginalSlot(h), UNCHANGED failures
    PROVE  IInv'
<1>0. PICK d : d = swaps[req[h].id].original
  OBVIOUS
<1>1. SwapKnown(req[h]) /\ d \in Days
  BY <1>0, SwapKnows DEF EnsureOriginalSlot, SwapSteps
<1>2. CASE HasSlot(d) /\ req' = [req EXCEPT ![h].original = slots[d].custodian,
                                             ![h].step = "ensure proposed"]
  <2>1. PICK r : r = [req[h] EXCEPT !.original = slots[d].custodian,
                                    !.step = "ensure proposed"]
    OBVIOUS
  <2>2. req' = [req EXCEPT ![h] = r]
    BY <1>2, <2>1
  <2>3. /\ r \in Request /\ r.step = "ensure proposed" /\ r.id = req[h].id
        /\ r.user = req[h].user /\ r.answer = req[h].answer
        /\ r.basis = req[h].basis /\ r.slot = req[h].slot
        /\ r.original \in Roles /\ r.proposed = req[h].proposed
    BY <1>1, <1>2, <2>1, SlotCustodian DEF IInv, SwapKnown, Request, Held, SwapSteps
  <2>4. RequestOK(r)
    BY <1>0, <1>1, <1>2, <2>3, SwapGoesOn DEF SwapKnown, SwapSteps, Roles
  <2> QED
    BY <2>2, <2>4, OnlyMoved DEF EnsureOriginalSlot, EnsureSlot, IInv, TypeOK
<1>3. CASE /\ ~HasSlot(d)
           /\ \/ req[h].basis # NoId /\ Goto(h, "create original")
              \/ req[h].basis = NoId /\ Goto(h, "answer swap")
  <2>1. PICK step \in {"create original", "answer swap"} :
           /\ step = "create original" => req[h].basis # NoId
           /\ Goto(h, step)
    BY <1>3
  <2>2. PICK r : r = [req[h] EXCEPT !.step = step]
    OBVIOUS
  <2>3. req' = [req EXCEPT ![h] = r]
    BY <2>1, <2>2 DEF Goto
  <2>4. /\ r \in Request /\ r.step = step /\ r.id = req[h].id
        /\ r.user = req[h].user /\ r.answer = req[h].answer
        /\ r.basis = req[h].basis /\ r.slot = req[h].slot
        /\ r.original = req[h].original /\ r.proposed = req[h].proposed
    BY <1>1, <2>1, <2>2 DEF SwapKnown, Request, SwapSteps
  <2>5. RequestOK(r)
    BY <1>1, <2>1, <2>4, SwapGoesOn DEF SwapKnown, SwapSteps
  <2> QED
    BY <2>3, <2>5, OnlyMoved DEF EnsureOriginalSlot, EnsureSlot, IInv, TypeOK
<1> QED
  BY <1>0, <1>2, <1>3 DEF EnsureOriginalSlot, EnsureSlot

LEMMA EnsureProposedIInv ==
    ASSUME IInv, NEW h \in Handlers, EnsureProposedSlot(h), UNCHANGED failures
    PROVE  IInv'
<1>0. PICK d : d = swaps[req[h].id].proposed
  OBVIOUS
<1>1. SwapKnown(req[h]) /\ d \in Days /\ req[h].original # "unread"
  BY <1>0, SwapKnows DEF EnsureProposedSlot, SwapSteps
<1>2. CASE HasSlot(d) /\ req' = [req EXCEPT ![h].proposed = slots[d].custodian,
                                             ![h].step = "swap slots"]
  <2>1. PICK r : r = [req[h] EXCEPT !.proposed = slots[d].custodian,
                                    !.step = "swap slots"]
    OBVIOUS
  <2>2. req' = [req EXCEPT ![h] = r]
    BY <1>2, <2>1
  <2>3. /\ r \in Request /\ r.step = "swap slots" /\ r.id = req[h].id
        /\ r.user = req[h].user /\ r.answer = req[h].answer
        /\ r.basis = req[h].basis /\ r.slot = req[h].slot
        /\ r.original = req[h].original /\ r.proposed \in Roles
    BY <1>1, <1>2, <2>1, SlotCustodian DEF IInv, SwapKnown, Request, Held, SwapSteps
  <2>4. RequestOK(r)
    BY <1>0, <1>1, <1>2, <2>3, SwapGoesOn DEF SwapKnown, SwapSteps, Roles
  <2> QED
    BY <2>2, <2>4, OnlyMoved DEF EnsureProposedSlot, EnsureSlot, IInv, TypeOK
<1>3. CASE /\ ~HasSlot(d)
           /\ \/ req[h].basis # NoId /\ Goto(h, "create proposed")
              \/ req[h].basis = NoId /\ Goto(h, "answer swap")
  <2>1. PICK step \in {"create proposed", "answer swap"} :
           /\ step = "create proposed" => req[h].basis # NoId
           /\ Goto(h, step)
    BY <1>3
  <2>2. PICK r : r = [req[h] EXCEPT !.step = step]
    OBVIOUS
  <2>3. req' = [req EXCEPT ![h] = r]
    BY <2>1, <2>2 DEF Goto
  <2>4. /\ r \in Request /\ r.step = step /\ r.id = req[h].id
        /\ r.user = req[h].user /\ r.answer = req[h].answer
        /\ r.basis = req[h].basis /\ r.slot = req[h].slot
        /\ r.original = req[h].original /\ r.proposed = req[h].proposed
    BY <1>1, <2>1, <2>2 DEF SwapKnown, Request, SwapSteps
  <2>5. RequestOK(r)
    BY <1>1, <2>1, <2>4, SwapGoesOn DEF SwapKnown, SwapSteps
  <2> QED
    BY <2>3, <2>5, OnlyMoved DEF EnsureProposedSlot, EnsureSlot, IInv, TypeOK
<1> QED
  BY <1>0, <1>2, <1>3 DEF EnsureProposedSlot, EnsureSlot

(* The row that a swap makes for a day that has none. *)
LEMMA CreatedSlot ==
    ASSUME IInv, NEW d \in Days, NEW s, UsedSchedule(s), NEW w, UsedSwap(w),
           d \in {swaps[w].original, swaps[w].proposed},
           NEW row,
           row = [custodian |-> schedules[s].plan.custodian[d], source |-> "schedule",
                  schedule |-> s, exception |-> NoId, handover |-> "schedule"],
           slots' = [slots EXCEPT ![d] = row],
           UNCHANGED <<schedules, exceptions, swaps>>
    PROVE  /\ row \in Slot /\ row.custodian \in Roles
           /\ slots' \in [Days -> Slot \cup {NoSlot}]
           /\ SlotsStay /\ HasSlot(d)'
           /\ \A c \in Days : slots'[c] = slots[c] \/ SlotOK(c)'
<1>1. schedules[s].plan.custodian[d] \in Roles
  BY PlansAssumption DEF UsedSchedule, Schedule, PlanType
<1>2. /\ row \in Slot /\ row.custodian \in Roles /\ row.source = "schedule"
      /\ row.schedule = s /\ row.custodian = schedules[s].plan.custodian[d]
  BY <1>1 DEF Slot, UsedSchedule
<1>3. slots'[d] = row /\ slots' \in [Days -> Slot \cup {NoSlot}]
  BY <1>2 DEF IInv, TypeOK
<1>4. SlotsStay /\ HasSlot(d)'
  BY <1>2, <1>3 DEF IInv, TypeOK, SlotsStay, HasSlot
<1>5. SlotOK(d)'
  <2>1. UsedSchedule(s)' /\ schedules'[s] = schedules[s]
    BY DEF UsedSchedule
  <2>2. /\ w \in SwapIds /\ swaps'[w].status # "unused"
        /\ d \in {swaps'[w].original, swaps'[w].proposed}
    BY UsedRows DEF IInv, UsedSwap
  <2>3. s # NoId
    BY BoundsAssumption DEF UsedSchedule, ScheduleIds, NoId
  <2> QED
    BY <1>2, <1>3, <2>1, <2>2, <2>3 DEF SlotOK, HasSlot
<1> QED
  BY <1>2, <1>3, <1>4, <1>5 DEF IInv, TypeOK

LEMMA CreateOriginalIInv ==
    ASSUME IInv, NEW h \in Handlers, CreateOriginalSlot(h), UNCHANGED failures
    PROVE  IInv'
<1>0. PICK d, s, w : d = swaps[req[h].id].original /\ s = req[h].basis /\ w = req[h].id
  OBVIOUS
<1>1. SwapKnown(req[h]) /\ d \in Days /\ UsedSchedule(s) /\ UsedSwap(w)
  BY <1>0, SwapKnows DEF CreateOriginalSlot, SwapSteps, SwapKnown
<1>2. CASE HasSlot(d)
  <2>1. Finish(h) /\ UNCHANGED slots
    BY <1>0, <1>2 DEF CreateOriginalSlot, CreateSlot
  <2> QED
    BY <2>1, IdleNow, OnlyMoved
    DEF CreateOriginalSlot, CreateSlot, Finish, IInv, TypeOK
<1>3. CASE ~HasSlot(d)
  <2>1. PICK row : row = [custodian |-> schedules[s].plan.custodian[d],
                          source |-> "schedule", schedule |-> s,
                          exception |-> NoId, handover |-> "schedule"]
    OBVIOUS
  <2>2. PICK r : r = [req[h] EXCEPT !.original = row.custodian, !.step = "ensure proposed"]
    OBVIOUS
  <2>3. /\ slots' = [slots EXCEPT ![d] = row] /\ req' = [req EXCEPT ![h] = r]
        /\ UNCHANGED <<schedules, exceptions, swaps>>
    BY <1>0, <1>3, <2>1, <2>2 DEF CreateOriginalSlot, CreateSlot
  <2>4. /\ row \in Slot /\ row.custodian \in Roles
        /\ slots' \in [Days -> Slot \cup {NoSlot}]
        /\ SlotsStay /\ HasSlot(d)'
        /\ \A c \in Days : slots'[c] = slots[c] \/ SlotOK(c)'
    BY <1>0, <1>1, <2>1, <2>3, CreatedSlot
  <2>5. /\ r \in Request /\ r.step = "ensure proposed" /\ r.id = req[h].id
        /\ r.user = req[h].user /\ r.answer = req[h].answer
        /\ r.basis = req[h].basis /\ r.slot = req[h].slot
        /\ r.original \in Roles /\ r.proposed = req[h].proposed
    BY <1>1, <2>2, <2>4 DEF SwapKnown, Request, Held, SwapSteps
  <2>6. Grow
    BY <2>3, SameSchedules, SameExceptions, SameSwaps DEF Grow
  <2>7. RequestOK(r)'
    <3>1. SwapKnown(r)'
      <4>1. r.original \in Roles => HasSlot(swaps[r.id].original)'
        BY <1>0, <2>3, <2>4, <2>5 DEF HasSlot
      <4>2. r.proposed \in Roles => HasSlot(swaps[r.id].proposed)'
        BY <1>1, <2>3, <2>4, <2>5 DEF SwapKnown, UsedSwap, Swap, SlotsStay, HasSlot
      <4> QED
        BY <1>1, <2>3, <2>5, <4>1, <4>2 DEF SwapKnown, UsedSwap, UsedSchedule
    <3> QED
      BY <2>5, <3>1
      DEF RequestOK, SwapKnown, SwapRequestOK, ScheduleRequestOK, ExceptionRequestOK,
          HandoverRequestOK, AnswerSteps, GenerationSteps, SwapSteps, SlotSteps, Roles
  <2>8. TypeOK'
    BY <2>3, <2>4, <2>5 DEF IInv, TypeOK
  <2> QED
    BY <2>3, <2>4, <2>6, <2>7, <2>8, Preserved
<1> QED
  BY <1>2, <1>3

LEMMA CreateProposedIInv ==
    ASSUME IInv, NEW h \in Handlers, CreateProposedSlot(h), UNCHANGED failures
    PROVE  IInv'
<1>0. PICK d, s, w : d = swaps[req[h].id].proposed /\ s = req[h].basis /\ w = req[h].id
  OBVIOUS
<1>1. /\ SwapKnown(req[h]) /\ d \in Days /\ UsedSchedule(s) /\ UsedSwap(w)
      /\ req[h].original # "unread"
  BY <1>0, SwapKnows DEF CreateProposedSlot, SwapSteps, SwapKnown
<1>2. CASE HasSlot(d)
  <2>1. Finish(h) /\ UNCHANGED slots
    BY <1>0, <1>2 DEF CreateProposedSlot, CreateSlot
  <2> QED
    BY <2>1, IdleNow, OnlyMoved
    DEF CreateProposedSlot, CreateSlot, Finish, IInv, TypeOK
<1>3. CASE ~HasSlot(d)
  <2>1. PICK row : row = [custodian |-> schedules[s].plan.custodian[d],
                          source |-> "schedule", schedule |-> s,
                          exception |-> NoId, handover |-> "schedule"]
    OBVIOUS
  <2>2. PICK r : r = [req[h] EXCEPT !.proposed = row.custodian, !.step = "swap slots"]
    OBVIOUS
  <2>3. /\ slots' = [slots EXCEPT ![d] = row] /\ req' = [req EXCEPT ![h] = r]
        /\ UNCHANGED <<schedules, exceptions, swaps>>
    BY <1>0, <1>3, <2>1, <2>2 DEF CreateProposedSlot, CreateSlot
  <2>4. /\ row \in Slot /\ row.custodian \in Roles
        /\ slots' \in [Days -> Slot \cup {NoSlot}]
        /\ SlotsStay /\ HasSlot(d)'
        /\ \A c \in Days : slots'[c] = slots[c] \/ SlotOK(c)'
    BY <1>0, <1>1, <2>1, <2>3, CreatedSlot
  <2>5. /\ r \in Request /\ r.step = "swap slots" /\ r.id = req[h].id
        /\ r.user = req[h].user /\ r.answer = req[h].answer
        /\ r.basis = req[h].basis /\ r.slot = req[h].slot
        /\ r.proposed \in Roles /\ r.original = req[h].original
    BY <1>1, <2>2, <2>4 DEF SwapKnown, Request, Held, SwapSteps
  <2>6. Grow
    BY <2>3, SameSchedules, SameExceptions, SameSwaps DEF Grow
  <2>7. RequestOK(r)'
    <3>1. SwapKnown(r)'
      <4>1. r.proposed \in Roles => HasSlot(swaps[r.id].proposed)'
        BY <1>0, <2>3, <2>4, <2>5 DEF HasSlot
      <4>2. r.original \in Roles => HasSlot(swaps[r.id].original)'
        BY <1>1, <2>3, <2>4, <2>5 DEF SwapKnown, UsedSwap, Swap, SlotsStay, HasSlot
      <4> QED
        BY <1>1, <2>3, <2>5, <4>1, <4>2 DEF SwapKnown, UsedSwap, UsedSchedule
    <3> QED
      BY <1>1, <2>5, <3>1
      DEF RequestOK, SwapKnown, SwapRequestOK, ScheduleRequestOK, ExceptionRequestOK,
          HandoverRequestOK, AnswerSteps, GenerationSteps, SwapSteps, SlotSteps, Roles
  <2>8. TypeOK'
    BY <2>3, <2>4, <2>5 DEF IInv, TypeOK
  <2> QED
    BY <2>3, <2>4, <2>6, <2>7, <2>8, Preserved
<1> QED
  BY <1>2, <1>3

LEMMA SwapSlotsIInv ==
    ASSUME IInv, NEW h \in Handlers, SwapSlots(h), UNCHANGED failures
    PROVE  IInv'
<1>0. PICK o, p, a, b : /\ o = swaps[req[h].id].original /\ p = swaps[req[h].id].proposed
                        /\ a = req[h].original /\ b = req[h].proposed
  OBVIOUS
<1>1. /\ SwapKnown(req[h]) /\ o \in Days /\ p \in Days
      /\ a # "unread" /\ b # "unread"
  BY <1>0, SwapKnows DEF SwapSlots, SwapSteps
<1>2. CASE "deleted" \in {a, b}
  <2>1. Finish(h) /\ UNCHANGED slots
    BY <1>0, <1>2 DEF SwapSlots
  <2> QED
    BY <2>1, IdleNow, OnlyMoved DEF SwapSlots, Finish, IInv, TypeOK
<1>3. CASE "deleted" \notin {a, b}
  <2>1. a \in Roles /\ b \in Roles
    BY <1>0, <1>1, <1>3 DEF SwapKnown, Request, Held
  <2>2. HasSlot(o) /\ HasSlot(p)
    BY <1>0, <1>1, <2>1 DEF SwapKnown
  <2>3. slots[o] \in Slot /\ slots[p] \in Slot
    BY <1>1, <2>2, SlotCustodian DEF IInv
  <2>4. slots' = [slots EXCEPT ![o].custodian = b, ![o].source = "swap",
                               ![p].custodian = a, ![p].source = "swap"]
    BY <1>0, <1>3 DEF SwapSlots
  <2>5. /\ \A d \in Days \ {o, p} : slots'[d] = slots[d]
        /\ \A d \in {o, p} : /\ slots'[d] \in Slot /\ slots'[d].source = "swap"
                             /\ slots'[d].schedule = slots[d].schedule
        /\ slots' \in [Days -> Slot \cup {NoSlot}]
    <3>1. slots \in [Days -> Slot \cup {NoSlot}]
      BY DEF IInv, TypeOK
    <3>2. CASE o = p
      <4>1. slots' = [slots EXCEPT ![p] = [slots[p] EXCEPT !.custodian = a, !.source = "swap"]]
        BY <1>1, <2>3, <2>4, <3>1, <3>2 DEF Slot
      <4>2. PICK row : row = [slots[p] EXCEPT !.custodian = a, !.source = "swap"]
        OBVIOUS
      <4>3. row \in Slot /\ row.source = "swap" /\ row.schedule = slots[p].schedule
        BY <2>1, <2>3, <4>2 DEF Slot
      <4> QED
        BY <1>1, <3>1, <3>2, <4>1, <4>2, <4>3
    <3>3. CASE o # p
      <4>1. PICK row, other : /\ row = [slots[o] EXCEPT !.custodian = b, !.source = "swap"]
                              /\ other = [slots[p] EXCEPT !.custodian = a, !.source = "swap"]
        OBVIOUS
      <4>2. slots' = [slots EXCEPT ![o] = row, ![p] = other]
        BY <1>1, <2>4, <3>1, <3>3, <4>1
      <4>3. /\ row \in Slot /\ row.source = "swap" /\ row.schedule = slots[o].schedule
            /\ other \in Slot /\ other.source = "swap" /\ other.schedule = slots[p].schedule
        BY <2>1, <2>3, <4>1 DEF Slot
      <4> QED
        BY <1>1, <3>1, <3>3, <4>2, <4>3
    <3> QED
      BY <3>2, <3>3
  <2>6. Grow
    BY SameSchedules, SameExceptions, SameSwaps DEF Grow, SwapSlots
  <2>7. SlotsStay
    BY <2>5 DEF SlotsStay, HasSlot
  <2>8. ASSUME NEW d \in Days
        PROVE  slots'[d] = slots[d] \/ SlotOK(d)'
    <3>1. CASE d \in {o, p}
      <4>1. SlotOK(d) /\ HasSlot(d)
        BY <2>2, <3>1 DEF IInv
      <4>2. slots[d].schedule # NoId =>
              /\ UsedSchedule(slots[d].schedule)
              /\ \/ ApprovedByTheOther(slots[d].schedule)
                 \/ \E w \in SwapIds : /\ swaps[w].status # "unused"
                                       /\ d \in {swaps[w].original, swaps[w].proposed}
        BY <4>1 DEF SlotOK
      <4>3. /\ slots'[d].source = "swap" /\ slots'[d].schedule = slots[d].schedule
            /\ UNCHANGED <<schedules, exceptions, swaps>>
        BY <2>5, <3>1 DEF SwapSlots
      <4> QED
        BY <4>2, <4>3 DEF SlotOK, HasSlot, UsedSchedule, ApprovedByTheOther
    <3> QED
      BY <2>5, <3>1
  <2>9. PICK r : r = [req[h] EXCEPT !.step = "answer swap"]
    OBVIOUS
  <2>10. req' = [req EXCEPT ![h] = r]
    BY <1>0, <1>3, <2>9 DEF SwapSlots, Goto
  <2>11. /\ r \in Request /\ r.step = "answer swap" /\ r.id = req[h].id
         /\ r.user = req[h].user /\ r.answer = req[h].answer
         /\ r.basis = req[h].basis /\ r.slot = req[h].slot
         /\ r.original = req[h].original /\ r.proposed = req[h].proposed
    BY <1>1, <2>9 DEF SwapKnown, Request, SwapSteps
  <2>12. RequestOK(r)
    BY <1>1, <2>11, SwapGoesOn DEF SwapKnown, SwapSteps
  <2>13. RequestOK(r)'
    BY <2>6, <2>7, <2>12, RequestFrame DEF IInv
  <2>14. TypeOK'
    BY <2>5, <2>10, <2>11 DEF IInv, TypeOK, SwapSlots
  <2> QED
    BY <2>6, <2>7, <2>8, <2>10, <2>13, <2>14, Preserved DEF SwapSlots
<1> QED
  BY <1>2, <1>3

LEMMA AnswerSwapIInv ==
    ASSUME IInv, NEW h \in Handlers, AnswerSwap(h), UNCHANGED failures
    PROVE  IInv'
<1>0. PICK w : w = req[h].id
  OBVIOUS
<1>1. UsedSwap(w) /\ req[h].answer \in SwapStatus
  BY <1>0, SwapKnows DEF AnswerSwap, SwapSteps, SwapKnown
<1>2. PICK row : row = [swaps[w] EXCEPT !.status = req[h].answer]
  OBVIOUS
<1>3. /\ row \in Swap /\ row.original = swaps[w].original
      /\ row.proposed = swaps[w].proposed /\ row.requester = swaps[w].requester
  BY <1>1, <1>2 DEF UsedSwap, Swap
<1>4. swaps' = [swaps EXCEPT ![w] = row]
  BY <1>0, <1>2 DEF AnswerSwap
<1>5. TypeOK'
  BY <1>3, <1>4, IdleUnread DEF IInv, TypeOK, AnswerSwap, Finish
<1>6. Grow
  <2>1. SwapsGrow
    BY <1>1, <1>3, <1>4 DEF IInv, TypeOK, UsedSwap, SwapsGrow
  <2> QED
    BY <2>1, SameSchedules, SameExceptions DEF Grow, AnswerSwap
<1>7. SlotsStay
  BY SameSlots DEF AnswerSwap
<1> QED
  BY <1>5, <1>6, <1>7, IdleOK, Preserved DEF AnswerSwap, Finish

-----------------------------------------------------------------------------
(* SlotActions, failures, and all of them together *)

LEMMA HandoverIInv ==
    ASSUME IInv, NEW h \in Handlers, NEW u \in Users, NEW d \in Days,
           UpdateCustodySlotHandover(h, u, d), UNCHANGED failures
    PROVE  IInv'
<1>1. PICK r : r = [Idle EXCEPT !.step = "find slot", !.user = u, !.id = d,
                                !.slot = slots[d].custodian]
  OBVIOUS
<1>2. HasSlot(d) /\ slots[d].custodian \in Roles
  BY SlotCustodian DEF IInv, UpdateCustodySlotHandover
<1>3. /\ r \in Request /\ r.step = "find slot" /\ r.user = u /\ r.id = d
      /\ r.slot = slots[d].custodian /\ r.basis = NoId
      /\ r.original = "unread" /\ r.proposed = "unread"
  BY <1>1, <1>2, IdleUnread, DaysAssumption DEF Request, SlotSteps, Held, Unread
<1>4. RequestOK(r)
  BY <1>2, <1>3 DEF RequestOK, ScheduleRequestOK, ExceptionRequestOK, SwapRequestOK,
     HandoverRequestOK, AnswerSteps, GenerationSteps, SwapSteps, SlotSteps, Roles
<1> QED
  BY <1>1, <1>4, OnlyMoved DEF UpdateCustodySlotHandover, IInv, TypeOK

LEMMA FindIInv ==
    ASSUME IInv, NEW h \in Handlers, FindSlot(h), UNCHANGED failures
    PROVE  IInv'
<1>1. PICK r : /\ req' = [req EXCEPT ![h] = r]
               /\ r = Idle \/ r = [req[h] EXCEPT !.step = "update slot"]
  BY DEF FindSlot, Finish, Goto
<1>2. RequestOK(r)
  <2>1. CASE r = Idle
    BY <2>1, IdleNow
  <2>2. CASE r = [req[h] EXCEPT !.step = "update slot"]
    <3>1. RequestOK(req[h]) /\ req[h].step = "find slot"
      BY DEF IInv, FindSlot
    <3>2. /\ r \in Request /\ r.step = "update slot" /\ r.id = req[h].id
          /\ r.slot = req[h].slot /\ r.basis = req[h].basis
          /\ r.original = req[h].original /\ r.proposed = req[h].proposed
      BY <2>2, <3>1 DEF RequestOK, Request, SlotSteps
    <3> QED
      BY <3>1, <3>2 DEF RequestOK, ScheduleRequestOK, ExceptionRequestOK,
         SwapRequestOK, HandoverRequestOK, AnswerSteps, GenerationSteps,
         SwapSteps, SlotSteps, Roles
  <2> QED
    BY <1>1, <2>1, <2>2
<1> QED
  BY <1>1, <1>2, OnlyMoved DEF FindSlot, IInv, TypeOK

LEMMA UpdateIInv ==
    ASSUME IInv, NEW h \in Handlers, UpdateSlot(h), UNCHANGED failures
    PROVE  IInv'
<1>1. CASE req[h].slot = "deleted"
  BY <1>1, IdleNow, OnlyMoved DEF UpdateSlot, Finish, IInv, TypeOK
<1>2. CASE req[h].slot # "deleted"
  <2>1. PICK d, row : d = req[h].id /\ row = [slots[d] EXCEPT !.handover = "manual"]
    OBVIOUS
  <2>2. d \in Days /\ HasSlot(d)
    BY <1>2, <2>1 DEF IInv, RequestOK, HandoverRequestOK, UpdateSlot, SlotSteps, Request, Held
  <2>3. slots[d] \in Slot
    BY <2>2, SlotCustodian DEF IInv
  <2>4. /\ row \in Slot /\ row.source = slots[d].source
        /\ row.custodian = slots[d].custodian /\ row.schedule = slots[d].schedule
        /\ row.exception = slots[d].exception
    BY <2>1, <2>3 DEF Slot
  <2>5. slots' = [slots EXCEPT ![d] = row]
    BY <1>2, <2>1 DEF UpdateSlot
  <2>6. slots' \in [Days -> Slot \cup {NoSlot}] /\ slots'[d] = row
    BY <2>2, <2>4, <2>5 DEF IInv, TypeOK
  <2>7. Grow
    BY SameSchedules, SameExceptions, SameSwaps DEF Grow, UpdateSlot
  <2>8. SlotsStay
    BY <2>2, <2>4, <2>5 DEF IInv, TypeOK, SlotsStay, HasSlot
  <2>9. SlotOK(d)'
    <3>1. SlotOK(d) /\ UNCHANGED <<schedules, exceptions, swaps>>
      BY <2>2 DEF IInv, UpdateSlot
    <3> QED
      BY <2>2, <2>4, <2>6, <3>1
      DEF SlotOK, HasSlot, UsedSchedule, ApprovedByTheOther, UsedException, Decided
  <2>10. TypeOK'
    BY <2>6, IdleUnread DEF IInv, TypeOK, UpdateSlot, Finish
  <2>11. \A c \in Days : slots'[c] = slots[c] \/ SlotOK(c)'
    BY <2>5, <2>9 DEF IInv, TypeOK
  <2> QED
    BY <2>7, <2>8, <2>10, <2>11, IdleOK, Preserved DEF UpdateSlot, Finish
<1> QED
  BY <1>1, <1>2

LEMMA FailIInv ==
    ASSUME IInv, NEW h \in Handlers, Fail(h)
    PROVE  IInv'
<1>1. failures' \in Nat
  BY DEF IInv, TypeOK, Fail
<1> QED
  BY <1>1, IdleNow, OnlyMoved DEF Fail, Finish

LEMMA ScheduleIInv ==
    ASSUME IInv, NEW h \in Handlers, ScheduleRequest(h) \/ ScheduleStep(h),
           UNCHANGED failures
    PROVE  IInv'
  BY ProposeIInv, RespondIInv, CreateScheduleIInv, RejectIInv, SupersedeIInv,
     ActivateIInv, ReadProtectedIInv, DeleteIInv, WriteSlotIInv
  DEF ScheduleRequest, ScheduleStep

LEMMA ExceptionIInv ==
    ASSUME IInv, NEW h \in Handlers, ExceptionRequest(h) \/ ExceptionStep(h),
           UNCHANGED failures
    PROVE  IInv'
  BY AskExceptionIInv, RespondExceptionIInv, CreateExceptionIInv, DecideIInv, ApplyIInv
  DEF ExceptionRequest, ExceptionStep

LEMMA SwapIInv ==
    ASSUME IInv, NEW h \in Handlers, SwapRequest(h) \/ SwapStep(h),
           UNCHANGED failures
    PROVE  IInv'
  BY AskSwapIInv, RespondSwapIInv, ReadPendingIInv, ReadActiveIInv,
     EnsureOriginalIInv, CreateOriginalIInv, EnsureProposedIInv, CreateProposedIInv,
     SwapSlotsIInv, AnswerSwapIInv
  DEF SwapRequest, SwapStep

LEMMA SlotIInv ==
    ASSUME IInv, NEW h \in Handlers, SlotRequest(h) \/ SlotStep(h),
           UNCHANGED failures
    PROVE  IInv'
  BY HandoverIInv, FindIInv, UpdateIInv DEF SlotRequest, SlotStep

LEMMA StutterIInv == IInv /\ UNCHANGED vars => IInv'
<1> SUFFICES ASSUME IInv, UNCHANGED vars PROVE IInv'
  OBVIOUS
<1>1. Grow /\ SlotsStay
  BY SameSchedules, SameExceptions, SameSwaps, SameSlots DEF vars, Grow
<1>2. TypeOK'
  BY DEF IInv, TypeOK, vars
<1>3. ASSUME NEW g \in Handlers
      PROVE  RequestOK(req[g])'
  <2>1. PICK q : q = req[g]
    OBVIOUS
  <2>2. RequestOK(q)'
    BY <1>1, <2>1, RequestFrame DEF IInv
  <2> QED
    BY <2>1, <2>2 DEF RequestOK, vars
<1> QED
  BY <1>1, <1>2, <1>3, PreservedByAll DEF vars

LEMMA NextIInv == IInv /\ [Next]_vars => IInv'
  BY ScheduleIInv, ExceptionIInv, SwapIInv, SlotIInv, FailIInv, StutterIInv
  DEF Next, NewRequest, Step

THEOREM Invariance == Spec => []IInv
  BY InitIInv, NextIInv, PTL DEF Spec

-----------------------------------------------------------------------------

(* The tables and the requests keep their types. *)
THEOREM TypeCorrect == Spec => []TypeOK
<1>1. IInv => TypeOK
  BY DEF IInv
<1> QED
  BY <1>1, Invariance, PTL

(* respondToCustodySchedule, generateSlotsFromSchedule and                 *)
(* ensureCustodySlotForDay: nothing comes into force that one parent wants *)
(* alone.                                                                  *)
THEOREM DaysAgreed == Spec => []DaysAreAgreed
<1>1. IInv => DaysAreAgreed
  BY DEF IInv, DaysAreAgreed, SlotOK, HasStatus
<1> QED
  BY <1>1, Invariance, PTL

(* The four writers of CustodySlot keep custodian, source and ids together. *)
THEOREM SourcesAreTrue == Spec => []SlotsCarryTheirSource
<1>1. IInv => SlotsCarryTheirSource
  BY DEF IInv, SlotsCarryTheirSource, SlotOK, Decided
<1> QED
  BY <1>1, Invariance, PTL

-----------------------------------------------------------------------------
(* Steps. *)

(* The five actions that write the schedules. *)
LEMMA SchedulesWriters ==
    ASSUME [Next]_vars
    PROVE  \/ UNCHANGED schedules
           \/ \E h \in Handlers :
                \/ \E u \in Users, p \in Plans : ProposeCustodySchedule(h, u, p)
                \/ CreateSchedule(h) \/ RejectSchedule(h) \/ SupersedeActive(h)
                \/ Activate(h)
<1>1. ASSUME NEW h \in Handlers, ScheduleRequest(h) \/ ScheduleStep(h)
      PROVE  \/ UNCHANGED schedules
             \/ \E u \in Users, p \in Plans : ProposeCustodySchedule(h, u, p)
             \/ CreateSchedule(h) \/ RejectSchedule(h) \/ SupersedeActive(h) \/ Activate(h)
  BY <1>1 DEF ScheduleRequest, ScheduleStep, RespondToCustodySchedule,
     ReadProtectedDays, DeleteOwnSlots, WriteSlot
<1>2. ASSUME NEW h \in Handlers, \/ ExceptionRequest(h) \/ ExceptionStep(h)
                                 \/ SlotRequest(h) \/ SlotStep(h) \/ Fail(h)
      PROVE  UNCHANGED schedules
  BY <1>2 DEF ExceptionRequest, ExceptionStep, CreateCustodyException,
     RespondToCustodyException, CreateException, DecideException, ApplyException,
     SlotRequest, SlotStep, UpdateCustodySlotHandover, FindSlot, UpdateSlot, Fail
<1>3. ASSUME NEW h \in Handlers, SwapRequest(h) \/ SwapStep(h)
      PROVE  UNCHANGED schedules
  BY <1>3 DEF SwapRequest, SwapStep, CreateSwapRequest, RespondToSwapRequest,
     ReadPendingSchedule, ReadActiveSchedule, EnsureOriginalSlot, EnsureProposedSlot,
     EnsureSlot, CreateOriginalSlot, CreateProposedSlot, CreateSlot, SwapSlots, AnswerSwap
<1> QED
  BY <1>1, <1>2, <1>3 DEF Next, NewRequest, Step, vars

(* A request that writes its remaining days moves on with each of them. *)
LEMMA RowsShrink ==
    ASSUME IInv, NEW h \in Handlers, NEW d, NextRow(h, d), RowWritten(h, d),
           req[h].step # "idle"
    PROVE  req'[h] # req[h]
<1>1. req[h] \in Request /\ req \in [Handlers -> Request]
  BY DEF IInv, TypeOK
<1>2. CASE req[h].rows = {d}
  <2>1. req'[h] = Idle
    BY <1>1, <1>2 DEF RowWritten, Finish
  <2> QED
    BY <2>1, IdleUnread
<1>3. CASE req[h].rows # {d}
  <2>1. PICK r : r = [req[h] EXCEPT !.rows = @ \ {d}]
    OBVIOUS
  <2>2. r.rows = req[h].rows \ {d}
    BY <1>1, <2>1 DEF Request
  <2>3. req'[h] = r
    BY <1>1, <1>3, <2>1 DEF RowWritten
  <2> QED
    BY <2>2, <2>3 DEF NextRow
<1> QED
  BY <1>2, <1>3

(* The seven actions that write the slots. *)
LEMMA SlotsWriters ==
    ASSUME [Next]_vars
    PROVE  \/ UNCHANGED slots
           \/ \E h \in Handlers :
                \/ DeleteOwnSlots(h) \/ WriteSlot(h) \/ ApplyException(h)
                \/ CreateOriginalSlot(h) \/ CreateProposedSlot(h) \/ SwapSlots(h)
                \/ UpdateSlot(h)
<1>1. ASSUME NEW h \in Handlers, \/ ScheduleRequest(h) \/ ScheduleStep(h)
                                 \/ SlotRequest(h) \/ SlotStep(h) \/ Fail(h)
      PROVE  UNCHANGED slots \/ DeleteOwnSlots(h) \/ WriteSlot(h) \/ UpdateSlot(h)
  BY <1>1 DEF ScheduleRequest, ScheduleStep, ProposeCustodySchedule,
     RespondToCustodySchedule, CreateSchedule, RejectSchedule, SupersedeActive,
     Activate, ReadProtectedDays,
     SlotRequest, SlotStep, UpdateCustodySlotHandover, FindSlot, Fail
<1>2. ASSUME NEW h \in Handlers, ExceptionRequest(h) \/ ExceptionStep(h)
      PROVE  UNCHANGED slots \/ ApplyException(h)
  BY <1>2 DEF ExceptionRequest, ExceptionStep, CreateCustodyException,
     RespondToCustodyException, CreateException, DecideException
<1>3. ASSUME NEW h \in Handlers, SwapRequest(h) \/ SwapStep(h)
      PROVE  \/ UNCHANGED slots
             \/ CreateOriginalSlot(h) \/ CreateProposedSlot(h) \/ SwapSlots(h)
  BY <1>3 DEF SwapRequest, SwapStep, CreateSwapRequest, RespondToSwapRequest,
     ReadPendingSchedule, ReadActiveSchedule, EnsureOriginalSlot, EnsureProposedSlot,
     EnsureSlot, AnswerSwap
<1> QED
  BY <1>1, <1>2, <1>3 DEF Next, NewRequest, Step, vars

(* The six actions that change whose day it is, and the one that does not. *)
LEMMA ChangeNeedsBoth ==
    ASSUME IInv, [Next]_vars, NEW d \in Days, slots'[d] # slots[d],
           HasSlot(d) => \/ slots'[d].source = "unused"
                         \/ slots'[d].custodian # slots[d].custodian
    PROVE  \E h \in Handlers : req'[h] # req[h] /\ req[h].user # Requester(h)
<1>1. ASSUME NEW h \in Handlers, DeleteOwnSlots(h) \/ WriteSlot(h)
      PROVE  req'[h] # req[h] /\ req[h].user # Requester(h)
  <2>1. /\ req[h].step \in {"delete own", "write slots"}
        /\ req[h] \in Request /\ req \in [Handlers -> Request]
    BY <1>1 DEF DeleteOwnSlots, WriteSlot, IInv, TypeOK
  <2>2. req[h].user # Requester(h)
    <3>1. Requester(h) = schedules[req[h].id].proposedBy
      BY <2>1 DEF Requester, SwapSteps
    <3> QED
      BY <2>1, <3>1, AnswerKnows DEF AnswerSteps
  <2> SUFFICES req'[h] # req[h]
    BY <2>2
  <2>3. CASE DeleteOwnSlots(h)
    <3>1. CASE req[h].rows = {}
      BY <2>1, <2>3, <3>1, IdleUnread DEF DeleteOwnSlots
    <3>2. CASE req[h].rows # {}
      <4>1. PICK r : r = [req[h] EXCEPT !.step = "write slots"]
        OBVIOUS
      <4>2. r.step = "write slots"
        BY <2>1, <4>1 DEF Request
      <4>3. req'[h] = r /\ req[h].step = "delete own"
        BY <2>3, <3>2, <4>1 DEF DeleteOwnSlots
      <4> QED
        BY <4>2, <4>3
    <3> QED
      BY <3>1, <3>2
  <2>4. CASE WriteSlot(h)
    <3>1. PICK e \in Days : NextRow(h, e) /\ RowWritten(h, e)
      BY <2>4 DEF WriteSlot
    <3> QED
      BY <2>1, <3>1, RowsShrink
  <2> QED
    BY <1>1, <2>3, <2>4
<1>2. ASSUME NEW h \in Handlers, ApplyException(h)
      PROVE  req'[h] # req[h] /\ req[h].user # Requester(h)
  <2>1. PICK e \in Days : NextRow(h, e) /\ RowWritten(h, e)
    BY <1>2 DEF ApplyException
  <2>2. req[h].step = "apply"
    BY <1>2 DEF ApplyException
  <2> QED
    <3>1. Requester(h) = exceptions[req[h].id].requester
      BY <2>2 DEF Requester, SwapSteps
    <3>2. req'[h] # req[h]
      BY <2>1, <2>2, RowsShrink
    <3> QED
      BY <2>2, <3>1, <3>2, DecisionKnows
<1>3. ASSUME NEW h \in Handlers,
             CreateOriginalSlot(h) \/ CreateProposedSlot(h) \/ SwapSlots(h)
      PROVE  req'[h] # req[h] /\ req[h].user # Requester(h)
  <2>1. /\ req[h].step \in {"create original", "create proposed", "swap slots"}
        /\ req[h] \in Request /\ req \in [Handlers -> Request]
    BY <1>3 DEF CreateOriginalSlot, CreateProposedSlot, SwapSlots, IInv, TypeOK
  <2>2. req[h].user # Requester(h)
    <3>1. SwapKnown(req[h])
      BY <2>1, SwapKnows DEF SwapSteps
    <3>2. Requester(h) = swaps[req[h].id].requester
      BY <2>1 DEF Requester, SwapSteps
    <3> QED
      BY <3>1, <3>2 DEF SwapKnown
  <2> SUFFICES req'[h] # req[h]
    BY <2>2
  <2>3. CASE Finish(h)
    BY <2>1, <2>3, IdleUnread DEF Finish
  <2>4. CASE ~Finish(h)
    <3>1. CASE CreateOriginalSlot(h)
      <4>1. PICK o : req' = [req EXCEPT ![h].original = o, ![h].step = "ensure proposed"]
        BY <2>4, <3>1 DEF CreateOriginalSlot, CreateSlot
      <4>2. req'[h].step = "ensure proposed"
        BY <2>1, <4>1 DEF Request
      <4> QED
        BY <3>1, <4>2 DEF CreateOriginalSlot
    <3>2. CASE CreateProposedSlot(h)
      <4>1. PICK p : req' = [req EXCEPT ![h].proposed = p, ![h].step = "swap slots"]
        BY <2>4, <3>2 DEF CreateProposedSlot, CreateSlot
      <4>2. req'[h].step = "swap slots"
        BY <2>1, <4>1 DEF Request
      <4> QED
        BY <3>2, <4>2 DEF CreateProposedSlot
    <3>3. CASE SwapSlots(h)
      <4>1. req' = [req EXCEPT ![h].step = "answer swap"]
        BY <2>4, <3>3 DEF SwapSlots, Goto
      <4>2. req'[h].step = "answer swap"
        BY <2>1, <4>1 DEF Request
      <4> QED
        BY <3>3, <4>2 DEF SwapSlots
    <3> QED
      BY <1>3, <3>1, <3>2, <3>3
  <2> QED
    BY <2>3, <2>4
<1>4. ASSUME NEW h \in Handlers, UpdateSlot(h)
      PROVE  FALSE
  <2>1. PICK c, row : c = req[h].id /\ row = [slots[c] EXCEPT !.handover = "manual"]
    OBVIOUS
  <2>2. slots' = [slots EXCEPT ![c] = row] /\ req[h].slot # "deleted"
    BY <1>4, <2>1 DEF UpdateSlot, IInv, TypeOK
  <2>3. c = d
    BY <2>2 DEF IInv, TypeOK
  <2>4. HasSlot(d)
    <3>1. RequestOK(req[h]) /\ req[h].step \in SlotSteps
      BY <1>4 DEF IInv, UpdateSlot, SlotSteps
    <3>2. HasSlot(req[h].id)
      BY <2>2, <3>1 DEF RequestOK, HandoverRequestOK, Request, Held
    <3> QED
      BY <2>1, <2>3, <3>2
  <2>5. slots[d] \in Slot
    BY <2>4, SlotCustodian DEF IInv
  <2>6. row.source = slots[d].source /\ row.custodian = slots[d].custodian
    BY <2>1, <2>3, <2>5 DEF Slot
  <2>7. slots'[d] = row
    BY <2>2, <2>3 DEF IInv, TypeOK
  <2> QED
    BY <2>4, <2>6, <2>7 DEF HasSlot
<1> QED
  BY <1>1, <1>2, <1>3, <1>4, SlotsWriters

(* However requests overlap, whose day it is changes only by an answer of   *)
(* one parent to the other's request.                                      *)
THEOREM NoChangeAlone == Spec => NoUnilateralChange
<1>1. IInv /\ [Next]_vars =>
        [\A d \in Days :
           slots'[d] # slots[d] /\ (HasSlot(d) => slots'[d].source = "unused"
                                      \/ slots'[d].custodian # slots[d].custodian)
           => \E h \in Handlers : req'[h] # req[h] /\ req[h].user # Requester(h)]_vars
  BY ChangeNeedsBoth
<1> QED
  BY <1>1, Invariance, PTL DEF Spec, NoUnilateralChange

-----------------------------------------------------------------------------
(* How many schedules can be in force, or proposed, at once.  The two      *)
(* updates of a proposal (supersede, then create) and of an approval       *)
(* (supersede, then activate) are statements of their own, so "at most     *)
(* one" cannot be proved; "at most as many as requests in flight" can, by  *)
(* counting with every open row the requests that are about to open one.   *)

Active == HasStatus("active")
Pending == HasStatus("pendingApproval")
Activating == At("activate")
Creating == At("create schedule")

BoundsInv ==
    /\ Cardinality(Active) + Cardinality(Activating) <= Cardinality(Handlers)
    /\ Cardinality(Pending) + Cardinality(Creating) <= Cardinality(Handlers)

LEMMA FiniteSets ==
    /\ IsFiniteSet(Active) /\ IsFiniteSet(Activating)
    /\ IsFiniteSet(Pending) /\ IsFiniteSet(Creating)
<1>1. IsFiniteSet(ScheduleIds)
  BY FS_Interval, BoundsAssumption DEF ScheduleIds
<1>2. /\ Active \subseteq ScheduleIds /\ Pending \subseteq ScheduleIds
      /\ Activating \subseteq Handlers /\ Creating \subseteq Handlers
  BY DEF Active, Pending, Activating, Creating, HasStatus, At
<1> QED
  BY <1>1, <1>2, HandlersAssumption, FS_Subset

(* Three ways in which the open rows (A) and the requests about to open   *)
(* one (B) may change: both shrink; the rows are closed; a request is      *)
(* served and opens a row.                                                 *)
LEMMA BothShrink ==
    ASSUME NEW A, NEW B, NEW A1, NEW B1, NEW n \in Nat, IsFiniteSet(A), IsFiniteSet(B),
           A1 \subseteq A, B1 \subseteq B, Cardinality(A) + Cardinality(B) <= n
    PROVE  Cardinality(A1) + Cardinality(B1) <= n
<1>1. /\ Cardinality(A1) <= Cardinality(A) /\ Cardinality(B1) <= Cardinality(B)
      /\ IsFiniteSet(A1) /\ IsFiniteSet(B1)
  BY FS_Subset
<1>2. /\ Cardinality(A) \in Nat /\ Cardinality(B) \in Nat
      /\ Cardinality(A1) \in Nat /\ Cardinality(B1) \in Nat
  BY <1>1, FS_CardinalityType
<1> QED
  BY <1>1, <1>2

LEMMA RowsClosed ==
    ASSUME NEW A1, NEW B1, A1 = {}, B1 \subseteq Handlers
    PROVE  Cardinality(A1) + Cardinality(B1) <= Cardinality(Handlers)
<1>1. Cardinality(A1) = 0
  BY FS_EmptySet
<1>2. Cardinality(B1) <= Cardinality(Handlers) /\ IsFiniteSet(B1)
  BY FS_Subset, HandlersAssumption
<1>3. Cardinality(B1) \in Nat
  BY <1>2, FS_CardinalityType
<1> QED
  BY <1>1, <1>2, <1>3

LEMMA RowOpened ==
    ASSUME NEW A, NEW A1, NEW s, IsFiniteSet(A), A1 \subseteq A \cup {s}
    PROVE  /\ Cardinality(A) \in Nat /\ Cardinality(A1) \in Nat
           /\ Cardinality(A1) <= Cardinality(A) + 1
<1>1. /\ IsFiniteSet(A \cup {s})
      /\ Cardinality(A \cup {s}) = IF s \in A THEN Cardinality(A)
                                              ELSE Cardinality(A) + 1
  BY FS_AddElement
<1>2. IsFiniteSet(A1) /\ Cardinality(A1) <= Cardinality(A \cup {s})
  BY <1>1, FS_Subset
<1>3. /\ Cardinality(A) \in Nat /\ Cardinality(A1) \in Nat
      /\ Cardinality(A \cup {s}) \in Nat
  BY <1>1, <1>2, FS_CardinalityType
<1> QED
  BY <1>1, <1>2, <1>3

LEMMA RequestServed ==
    ASSUME NEW B, NEW B1, NEW h, IsFiniteSet(B), h \in B, B1 \subseteq B \ {h}
    PROVE  /\ Cardinality(B) \in Nat /\ Cardinality(B1) \in Nat
           /\ Cardinality(B1) + 1 <= Cardinality(B)
<1>1. IsFiniteSet(B \ {h}) /\ Cardinality(B \ {h}) = Cardinality(B) - 1
  BY FS_RemoveElement
<1>2. IsFiniteSet(B1) /\ Cardinality(B1) <= Cardinality(B \ {h})
  BY <1>1, FS_Subset
<1>3. /\ Cardinality(B) \in Nat /\ Cardinality(B1) \in Nat
      /\ Cardinality(B \ {h}) \in Nat
  BY <1>1, <1>2, FS_CardinalityType
<1> QED
  BY <1>1, <1>2, <1>3

-----------------------------------------------------------------------------
(* What each action does to the four sets. *)

(* Request h moves, to a step that is not about to open a row or not at     *)
(* all, and no schedule is opened.                                         *)
Quiet(h) ==
    /\ \A g \in Handlers \ {h} : req'[g].step = req[g].step
    /\ \/ req'[h].step \notin {"activate", "create schedule"}
       \/ req'[h].step = req[h].step
    /\ \A s \in ScheduleIds : \/ schedules'[s].status = schedules[s].status
                              \/ schedules'[s].status = "superseded"

LEMMA QuietBounds ==
    ASSUME BoundsInv, NEW h \in Handlers, Quiet(h)
    PROVE  BoundsInv'
<1>1. Cardinality(Handlers) \in Nat
  BY HandlersAssumption, FS_CardinalityType
<1>2. Active' \subseteq Active /\ Pending' \subseteq Pending
  BY DEF Active, Pending, HasStatus, Quiet
<1>3. Activating' \subseteq Activating /\ Creating' \subseteq Creating
  BY DEF Activating, Creating, At, Quiet
<1> QED
  BY <1>1, <1>2, <1>3, FiniteSets, BothShrink DEF BoundsInv

LEMMA ProposeBounds ==
    ASSUME IInv, BoundsInv, NEW h \in Handlers, NEW u \in Users, NEW p \in Plans,
           ProposeCustodySchedule(h, u, p)
    PROVE  BoundsInv'
<1>1. schedules' = WithStatus("pendingApproval", "superseded")
  BY DEF ProposeCustodySchedule
<1>2. Active' \subseteq Active /\ Pending' = {}
  BY <1>1, WithStatusRows DEF IInv, Active, Pending, HasStatus, ScheduleStatus
<1>3. PICK r : /\ req' = [req EXCEPT ![h] = r]
               /\ r = [Idle EXCEPT !.step = "create schedule", !.user = u, !.plan = p]
  BY DEF ProposeCustodySchedule
<1>4. r.step = "create schedule"
  BY <1>3, IdleUnread DEF Request
<1>5. Activating' \subseteq Activating /\ Creating' \subseteq Handlers
  BY <1>3, <1>4 DEF Activating, Creating, At, IInv, TypeOK
<1>6. Cardinality(Handlers) \in Nat
  BY HandlersAssumption, FS_CardinalityType
<1> QED
  BY <1>2, <1>5, <1>6, FiniteSets, BothShrink, RowsClosed DEF BoundsInv

LEMMA CreateBounds ==
    ASSUME IInv, BoundsInv, NEW h \in Handlers, CreateSchedule(h)
    PROVE  BoundsInv'
<1>1. PICK s \in UnusedSchedules : \E row :
        /\ schedules' = [schedules EXCEPT ![s] = row]
        /\ row = [status |-> "pendingApproval", plan |-> req[h].plan,
                  proposedBy |-> req[h].user, approvedBy |-> Null]
  BY DEF CreateSchedule
<1>2. Active' \subseteq Active /\ Pending' \subseteq Pending \cup {s}
  BY <1>1 DEF IInv, TypeOK, Active, Pending, HasStatus
<1>3. req' = [req EXCEPT ![h] = Idle] /\ h \in Creating
  BY DEF CreateSchedule, Finish, Creating, At
<1>4. Activating' \subseteq Activating /\ Creating' \subseteq Creating \ {h}
  BY <1>3, IdleUnread DEF Activating, Creating, At, IInv, TypeOK
<1>5. Cardinality(Handlers) \in Nat
  BY HandlersAssumption, FS_CardinalityType
<1>6. Cardinality(Active') + Cardinality(Activating') <= Cardinality(Handlers)
  BY <1>2, <1>4, <1>5, FiniteSets, BothShrink DEF BoundsInv
<1>7. Cardinality(Pending') + Cardinality(Creating') <= Cardinality(Handlers)
  <2>1. /\ Cardinality(Pending) \in Nat /\ Cardinality(Pending') \in Nat
        /\ Cardinality(Pending') <= Cardinality(Pending) + 1
    BY <1>2, FiniteSets, RowOpened
  <2>2. /\ Cardinality(Creating) \in Nat /\ Cardinality(Creating') \in Nat
        /\ Cardinality(Creating') + 1 <= Cardinality(Creating)
    BY <1>3, <1>4, FiniteSets, RequestServed
  <2> QED
    BY <1>5, <2>1, <2>2 DEF BoundsInv
<1> QED
  BY <1>6, <1>7 DEF BoundsInv

LEMMA SupersedeBounds ==
    ASSUME IInv, BoundsInv, NEW h \in Handlers, SupersedeActive(h)
    PROVE  BoundsInv'
<1>1. schedules' = WithStatus("active", "superseded")
  BY DEF SupersedeActive
<1>2. Active' = {} /\ Pending' \subseteq Pending
  BY <1>1, WithStatusRows DEF IInv, Active, Pending, HasStatus, ScheduleStatus
<1>3. PICK r : /\ req' = [req EXCEPT ![h] = r]
               /\ r = [req[h] EXCEPT !.step = "activate"]
  BY DEF SupersedeActive, Goto
<1>4. r.step = "activate"
  BY <1>3 DEF IInv, TypeOK, Request
<1>5. Activating' \subseteq Handlers /\ Creating' \subseteq Creating
  BY <1>3, <1>4 DEF Activating, Creating, At, IInv, TypeOK
<1>6. Cardinality(Handlers) \in Nat
  BY HandlersAssumption, FS_CardinalityType
<1> QED
  BY <1>2, <1>5, <1>6, FiniteSets, BothShrink, RowsClosed DEF BoundsInv

LEMMA ActivateBounds ==
    ASSUME IInv, BoundsInv, NEW h \in Handlers, Activate(h)
    PROVE  BoundsInv'
<1>1. PICK s, row : /\ s = req[h].id
                    /\ row = [schedules[s] EXCEPT !.status = "active",
                                                  !.approvedBy = req[h].user]
  OBVIOUS
<1>2. row.status = "active"
  <2>1. schedules[s] \in Schedule
    BY <1>1, AnswerKnows DEF Activate, AnswerSteps, UsedSchedule
  <2> QED
    BY <1>1, <2>1 DEF Schedule
<1>3. schedules' = [schedules EXCEPT ![s] = row]
  BY <1>1 DEF Activate
<1>4. Active' \subseteq Active \cup {s} /\ Pending' \subseteq Pending
  BY <1>2, <1>3 DEF IInv, TypeOK, Active, Pending, HasStatus
<1>5. PICK r : /\ req' = [req EXCEPT ![h] = r]
               /\ r = [req[h] EXCEPT !.step = "read protected"]
  BY DEF Activate, Goto
<1>6. r.step = "read protected"
  BY <1>5 DEF IInv, TypeOK, Request
<1>7. /\ Activating' \subseteq Activating \ {h} /\ h \in Activating
      /\ Creating' \subseteq Creating
  BY <1>5, <1>6 DEF Activating, Creating, At, Activate, IInv, TypeOK
<1>8. Cardinality(Handlers) \in Nat
  BY HandlersAssumption, FS_CardinalityType
<1>9. Cardinality(Active') + Cardinality(Activating') <= Cardinality(Handlers)
  <2>1. /\ Cardinality(Active) \in Nat /\ Cardinality(Active') \in Nat
        /\ Cardinality(Active') <= Cardinality(Active) + 1
    BY <1>4, FiniteSets, RowOpened
  <2>2. /\ Cardinality(Activating) \in Nat /\ Cardinality(Activating') \in Nat
        /\ Cardinality(Activating') + 1 <= Cardinality(Activating)
    BY <1>7, FiniteSets, RequestServed
  <2> QED
    BY <1>8, <2>1, <2>2 DEF BoundsInv
<1>10. Cardinality(Pending') + Cardinality(Creating') <= Cardinality(Handlers)
  BY <1>4, <1>7, <1>8, FiniteSets, BothShrink DEF BoundsInv
<1> QED
  BY <1>9, <1>10 DEF BoundsInv

-----------------------------------------------------------------------------
(* The actions that are quiet. *)

LEMMA QuietMove ==
    ASSUME IInv, NEW h \in Handlers, NEW r, req' = [req EXCEPT ![h] = r],
           r.step \notin {"activate", "create schedule"} \/ r.step = req[h].step,
           \A s \in ScheduleIds : \/ schedules'[s].status = schedules[s].status
                                 \/ schedules'[s].status = "superseded"
    PROVE  Quiet(h)
  BY DEF Quiet, IInv, TypeOK

LEMMA QuietFinish ==
    ASSUME IInv, NEW h \in Handlers, Finish(h), UNCHANGED schedules
    PROVE  Quiet(h)
  BY QuietMove, IdleUnread DEF Finish

LEMMA QuietGoto ==
    ASSUME IInv, NEW h \in Handlers, NEW step, Goto(h, step), UNCHANGED schedules,
           step \notin {"activate", "create schedule"}
    PROVE  Quiet(h)
<1>1. PICK r : r = [req[h] EXCEPT !.step = step]
  OBVIOUS
<1>2. r.step = step
  BY <1>1 DEF IInv, TypeOK, Request
<1> QED
  BY <1>1, <1>2, QuietMove DEF Goto

LEMMA QuietRow ==
    ASSUME IInv, NEW h \in Handlers, NEW d, RowWritten(h, d), UNCHANGED schedules
    PROVE  Quiet(h)
<1>1. CASE req[h].rows = {d}
  BY <1>1, QuietFinish DEF RowWritten
<1>2. CASE req[h].rows # {d}
  <2>1. PICK r : r = [req[h] EXCEPT !.rows = @ \ {d}]
    OBVIOUS
  <2>2. r.step = req[h].step
    BY <2>1 DEF IInv, TypeOK, Request
  <2> QED
    BY <1>2, <2>1, <2>2, QuietMove DEF RowWritten
<1> QED
  BY <1>1, <1>2

LEMMA QuietRespond ==
    ASSUME IInv, NEW h \in Handlers, NEW u \in Users, NEW s \in ScheduleIds,
           NEW approve \in BOOLEAN, RespondToCustodySchedule(h, u, s, approve)
    PROVE  Quiet(h)
<1>1. PICK r : r = [Idle EXCEPT !.step = IF approve THEN "supersede active"
                                                    ELSE "reject",
                                !.user = u, !.id = s]
  OBVIOUS
<1>2. r.step \in {"supersede active", "reject"}
  BY <1>1, IdleUnread DEF Request
<1>3. req' = [req EXCEPT ![h] = r] /\ UNCHANGED schedules
  BY <1>1 DEF RespondToCustodySchedule, AnswerOf
<1> QED
  BY <1>2, <1>3, QuietMove

LEMMA QuietReject ==
    ASSUME IInv, NEW h \in Handlers, RejectSchedule(h)
    PROVE  Quiet(h)
<1>1. UsedSchedule(req[h].id)
  BY AnswerKnows DEF RejectSchedule, AnswerSteps
<1>2. \A s \in ScheduleIds : \/ schedules'[s].status = schedules[s].status
                            \/ schedules'[s].status = "superseded"
  BY <1>1 DEF RejectSchedule, UsedSchedule, Schedule, IInv, TypeOK
<1> QED
  BY <1>2, QuietMove, IdleUnread DEF RejectSchedule, Finish

LEMMA QuietReadProtected ==
    ASSUME IInv, NEW h \in Handlers, ReadProtectedDays(h)
    PROVE  Quiet(h)
<1>1. PICK r : r = [req[h] EXCEPT !.step = "delete own",
                                  !.rows = {d \in Generated(h) : ~AgreedChange(d)}]
  OBVIOUS
<1>2. r.step = "delete own"
  BY <1>1 DEF IInv, TypeOK, Request
<1>3. req' = [req EXCEPT ![h] = r] /\ UNCHANGED schedules
  BY <1>1 DEF ReadProtectedDays
<1> QED
  BY <1>2, <1>3, QuietMove

LEMMA QuietDelete ==
    ASSUME IInv, NEW h \in Handlers, DeleteOwnSlots(h)
    PROVE  Quiet(h)
<1>1. ASSUME NEW g \in Handlers \ {h}
      PROVE  req'[g].step = req[g].step
  <2>1. req'[g] = Forget(req[g], OwnSlots(h))
    BY <1>1 DEF DeleteOwnSlots
  <2>2. req[g] \in Request
    BY <1>1 DEF IInv, TypeOK
  <2> QED
    BY <2>1, <2>2 DEF Forget, Request
<1>2. req'[h].step \in {"idle", "write slots"}
  <2>1. CASE req[h].rows = {}
    BY <2>1, IdleUnread DEF DeleteOwnSlots
  <2>2. CASE req[h].rows # {}
    <3>1. req'[h] = [req[h] EXCEPT !.step = "write slots"]
      BY <2>2 DEF DeleteOwnSlots
    <3> QED
      BY <3>1 DEF IInv, TypeOK, Request
  <2> QED
    BY <2>1, <2>2
<1>3. UNCHANGED schedules
  BY DEF DeleteOwnSlots
<1> QED
  BY <1>1, <1>2, <1>3 DEF Quiet

LEMMA ScheduleBounds ==
    ASSUME IInv, BoundsInv, NEW h \in Handlers, ScheduleRequest(h) \/ ScheduleStep(h)
    PROVE  BoundsInv'
<1>1. CASE \E u \in Users, p \in Plans : ProposeCustodySchedule(h, u, p)
  BY <1>1, ProposeBounds
<1>2. CASE \E u \in Users, s \in ScheduleIds, approve \in BOOLEAN :
             RespondToCustodySchedule(h, u, s, approve)
  BY <1>2, QuietRespond, QuietBounds
<1>3. CASE CreateSchedule(h)
  BY <1>3, CreateBounds
<1>4. CASE RejectSchedule(h)
  BY <1>4, QuietReject, QuietBounds
<1>5. CASE SupersedeActive(h)
  BY <1>5, SupersedeBounds
<1>6. CASE Activate(h)
  BY <1>6, ActivateBounds
<1>7. CASE ReadProtectedDays(h)
  BY <1>7, QuietReadProtected, QuietBounds
<1>8. CASE DeleteOwnSlots(h)
  BY <1>8, QuietDelete, QuietBounds
<1>9. CASE WriteSlot(h)
  BY <1>9, QuietRow, QuietBounds DEF WriteSlot
<1> QED
  BY <1>1, <1>2, <1>3, <1>4, <1>5, <1>6, <1>7, <1>8, <1>9
  DEF ScheduleRequest, ScheduleStep

LEMMA QuietException ==
    ASSUME IInv, NEW h \in Handlers, ExceptionRequest(h) \/ ExceptionStep(h)
    PROVE  Quiet(h)
<1>1. ASSUME NEW u \in Users, NEW c \in Changes, CreateCustodyException(h, u, c)
      PROVE  Quiet(h)
  <2>1. PICK r : r = [Idle EXCEPT !.step = "create exception", !.user = u,
                                  !.change = c]
    OBVIOUS
  <2>2. r.step = "create exception"
    BY <2>1, IdleUnread DEF Request
  <2>3. req' = [req EXCEPT ![h] = r] /\ UNCHANGED schedules
    BY <1>1, <2>1 DEF CreateCustodyException
  <2> QED
    BY <2>2, <2>3, QuietMove
<1>2. ASSUME NEW u \in Users, NEW e \in ExceptionIds, NEW answer,
             RespondToCustodyException(h, u, e, answer)
      PROVE  Quiet(h)
  <2>1. PICK r : r = [Idle EXCEPT !.step = "decide", !.user = u, !.id = e,
                                  !.answer = answer]
    OBVIOUS
  <2>2. r.step = "decide"
    BY <2>1, IdleUnread DEF Request
  <2>3. req' = [req EXCEPT ![h] = r] /\ UNCHANGED schedules
    BY <1>2, <2>1 DEF RespondToCustodyException
  <2> QED
    BY <2>2, <2>3, QuietMove
<1>3. CASE CreateException(h)
  BY <1>3, QuietFinish DEF CreateException
<1>4. CASE DecideException(h)
  <2>1. PICK r : r = [req[h] EXCEPT !.step = "apply",
                                    !.rows = DaysOf(exceptions[req[h].id].change)]
    OBVIOUS
  <2>2. r.step = "apply"
    BY <2>1 DEF IInv, TypeOK, Request
  <2>3. Finish(h) \/ req' = [req EXCEPT ![h] = r]
    BY <1>4, <2>1 DEF DecideException
  <2>4. UNCHANGED schedules
    BY <1>4 DEF DecideException
  <2> QED
    BY <2>2, <2>3, <2>4, QuietMove, QuietFinish
<1>5. CASE ApplyException(h)
  BY <1>5, QuietRow DEF ApplyException
<1> QED
  BY <1>1, <1>2, <1>3, <1>4, <1>5 DEF ExceptionRequest, ExceptionStep

LEMMA QuietSlot ==
    ASSUME IInv, NEW h \in Handlers, SlotRequest(h) \/ SlotStep(h)
    PROVE  Quiet(h)
<1>1. ASSUME NEW u \in Users, NEW d \in Days, UpdateCustodySlotHandover(h, u, d)
      PROVE  Quiet(h)
  <2>1. PICK r : r = [Idle EXCEPT !.step = "find slot", !.user = u, !.id = d,
                                  !.slot = slots[d].custodian]
    OBVIOUS
  <2>2. r.step = "find slot"
    BY <2>1, IdleUnread DEF Request
  <2>3. req' = [req EXCEPT ![h] = r] /\ UNCHANGED schedules
    BY <1>1, <2>1 DEF UpdateCustodySlotHandover
  <2> QED
    BY <2>2, <2>3, QuietMove
<1>2. CASE FindSlot(h)
  BY <1>2, QuietFinish, QuietGoto DEF FindSlot
<1>3. CASE UpdateSlot(h)
  BY <1>3, QuietFinish DEF UpdateSlot
<1> QED
  BY <1>1, <1>2, <1>3 DEF SlotRequest, SlotStep

LEMMA QuietEnsure ==
    ASSUME IInv, NEW h \in Handlers, EnsureOriginalSlot(h) \/ EnsureProposedSlot(h)
    PROVE  Quiet(h)
<1>1. req[h] \in Request /\ UNCHANGED schedules
  BY DEF IInv, TypeOK, EnsureOriginalSlot, EnsureProposedSlot, EnsureSlot
<1>2. PICK ro, rp :
        /\ ro = [req[h] EXCEPT
                   !.original = slots[swaps[req[h].id].original].custodian,
                   !.step = "ensure proposed"]
        /\ rp = [req[h] EXCEPT
                   !.proposed = slots[swaps[req[h].id].proposed].custodian,
                   !.step = "swap slots"]
  OBVIOUS
<1>3. ro.step = "ensure proposed" /\ rp.step = "swap slots"
  BY <1>1, <1>2 DEF Request
<1>4. \/ req' = [req EXCEPT ![h] = ro]
      \/ req' = [req EXCEPT ![h] = rp]
      \/ Goto(h, "create original")
      \/ Goto(h, "create proposed")
      \/ Goto(h, "answer swap")
  BY <1>1, <1>2 DEF EnsureOriginalSlot, EnsureProposedSlot, EnsureSlot, Request
<1> QED
  BY <1>1, <1>3, <1>4, QuietMove, QuietGoto

LEMMA QuietCreate ==
    ASSUME IInv, NEW h \in Handlers, CreateOriginalSlot(h) \/ CreateProposedSlot(h)
    PROVE  Quiet(h)
<1>1. req[h] \in Request /\ UNCHANGED schedules
  BY DEF IInv, TypeOK, CreateOriginalSlot, CreateProposedSlot, CreateSlot
<1>2. PICK ro, rp :
        /\ ro = [req[h] EXCEPT
                   !.original = schedules[req[h].basis].plan.custodian
                                  [swaps[req[h].id].original],
                   !.step = "ensure proposed"]
        /\ rp = [req[h] EXCEPT
                   !.proposed = schedules[req[h].basis].plan.custodian
                                  [swaps[req[h].id].proposed],
                   !.step = "swap slots"]
  OBVIOUS
<1>3. ro.step = "ensure proposed" /\ rp.step = "swap slots"
  BY <1>1, <1>2 DEF Request
<1>4. \/ req' = [req EXCEPT ![h] = ro]
      \/ req' = [req EXCEPT ![h] = rp]
      \/ Finish(h)
  BY <1>1, <1>2 DEF CreateOriginalSlot, CreateProposedSlot, CreateSlot, Request
<1> QED
  BY <1>1, <1>3, <1>4, QuietMove, QuietFinish

LEMMA QuietSwap ==
    ASSUME IInv, BoundsInv, NEW h \in Handlers, SwapRequest(h) \/ SwapStep(h)
    PROVE  Quiet(h)
<1>1. ASSUME NEW u \in Users, NEW dates \in SwapDates, CreateSwapRequest(h, u, dates)
      PROVE  Quiet(h)
  BY <1>1 DEF CreateSwapRequest, Quiet
<1>2. ASSUME NEW u \in Users, NEW w \in SwapIds, NEW answer,
             RespondToSwapRequest(h, u, w, answer)
      PROVE  Quiet(h)
  <2>1. PICK r : r = [Idle EXCEPT !.step = IF answer = "accepted"
                                           THEN "read pending" ELSE "answer swap",
                                  !.user = u, !.id = w, !.answer = answer]
    OBVIOUS
  <2>2. r.step \in {"read pending", "answer swap"}
    BY <2>1, IdleUnread DEF Request
  <2>3. req' = [req EXCEPT ![h] = r] /\ UNCHANGED schedules
    BY <1>2, <2>1 DEF RespondToSwapRequest
  <2> QED
    BY <2>2, <2>3, QuietMove
<1>3. ASSUME NEW s, NEW step \in {"read active", "ensure original"},
             req' = [req EXCEPT ![h] = [req[h] EXCEPT !.basis = s, !.step = step]],
             UNCHANGED schedules
      PROVE  Quiet(h)
  <2>1. PICK r : r = [req[h] EXCEPT !.basis = s, !.step = step]
    OBVIOUS
  <2>2. r.step = step
    BY <2>1 DEF IInv, TypeOK, Request
  <2> QED
    BY <1>3, <2>1, <2>2, QuietMove
<1>4. CASE ReadPendingSchedule(h)
  <2>1. PICK s : req' = [req EXCEPT ![h].basis = s,
                                    ![h].step = IF s = NoId THEN "read active"
                                                            ELSE "ensure original"]
    BY <1>4 DEF ReadPendingSchedule
  <2>2. req' = [req EXCEPT ![h] =
                  [req[h] EXCEPT !.basis = s,
                                 !.step = IF s = NoId THEN "read active"
                                                      ELSE "ensure original"]]
    BY <2>1
  <2>3. UNCHANGED schedules
    BY <1>4 DEF ReadPendingSchedule
  <2> QED
    BY <1>3, <2>2, <2>3
<1>5. CASE ReadActiveSchedule(h)
  <2>1. PICK s : req' = [req EXCEPT ![h].basis = s, ![h].step = "ensure original"]
    BY <1>5 DEF ReadActiveSchedule
  <2>2. req' = [req EXCEPT ![h] =
                  [req[h] EXCEPT !.basis = s, !.step = "ensure original"]]
    BY <2>1
  <2>3. UNCHANGED schedules
    BY <1>5 DEF ReadActiveSchedule
  <2> QED
    BY <1>3, <2>2, <2>3
<1>6. CASE SwapSlots(h)
  BY <1>6, QuietFinish, QuietGoto DEF SwapSlots
<1>7. CASE AnswerSwap(h)
  BY <1>7, QuietFinish DEF AnswerSwap
<1> QED
  BY <1>1, <1>2, <1>4, <1>5, <1>6, <1>7, QuietEnsure, QuietCreate
  DEF SwapRequest, SwapStep

-----------------------------------------------------------------------------

LEMMA InitBounds == Init => BoundsInv
<1> SUFFICES ASSUME Init PROVE BoundsInv
  OBVIOUS
<1>1. Active = {} /\ Pending = {}
  BY DEF Init, Active, Pending, HasStatus, NoRow
<1>2. Activating \subseteq Handlers /\ Creating \subseteq Handlers
  BY DEF Activating, Creating, At
<1> QED
  BY <1>1, <1>2, RowsClosed DEF BoundsInv

LEMMA NextBounds == IInv /\ BoundsInv /\ [Next]_vars => BoundsInv'
<1> SUFFICES ASSUME IInv, BoundsInv, [Next]_vars PROVE BoundsInv'
  OBVIOUS
<1>1. ASSUME NEW h \in Handlers, NewRequest(h) \/ Step(h)
      PROVE  BoundsInv'
  BY <1>1, ScheduleBounds, QuietException, QuietSwap, QuietSlot, QuietBounds
  DEF NewRequest, Step
<1>2. ASSUME NEW h \in Handlers, Fail(h)
      PROVE  BoundsInv'
  BY <1>2, QuietFinish, QuietBounds DEF Fail
<1>3. CASE UNCHANGED vars
  BY <1>3 DEF vars, BoundsInv, Active, Pending, Activating, Creating, HasStatus, At
<1> QED
  BY <1>1, <1>2, <1>3 DEF Next

(* There are never more schedules in force, nor more open proposals, than  *)
(* requests in flight: updateMany clears the old rows before every update  *)
(* or create that opens a new one, and nothing else opens any.             *)
THEOREM SchedulesAreBounded == Spec => []SchedulesBounded
<1>1. IInv /\ BoundsInv => SchedulesBounded
  <2> SUFFICES ASSUME IInv, BoundsInv PROVE SchedulesBounded
    OBVIOUS
  <2>1. /\ Cardinality(Active) \in Nat /\ Cardinality(Activating) \in Nat
        /\ Cardinality(Pending) \in Nat /\ Cardinality(Creating) \in Nat
        /\ Cardinality(Handlers) \in Nat
    BY FiniteSets, HandlersAssumption, FS_CardinalityType
  <2> QED
    BY <2>1 DEF BoundsInv, SchedulesBounded, Active, Pending
<1> QED
  BY <1>1, InitBounds, NextBounds, Invariance, PTL DEF Spec

-----------------------------------------------------------------------------
(* Late answers. *)

LateSteps == {"reject", "supersede active", "activate", "decide"}

(* A handler whose next statement is no answer is not late with one. *)
LEMMA MovesOn ==
    ASSUME IInv, NEW h \in Handlers, NEW r, req' = [req EXCEPT ![h] = r],
           r.step \notin LateSteps
    PROVE  h \notin LateAnswers'
  BY DEF IInv, TypeOK, LateAnswers, LateSteps

LEMMA FinishedInTime ==
    ASSUME IInv, NEW h \in Handlers, Finish(h)
    PROVE  h \notin LateAnswers'
  BY MovesOn, IdleUnread DEF Finish, LateSteps

LEMMA GoneOn ==
    ASSUME IInv, NEW h \in Handlers, NEW step, Goto(h, step), step \notin LateSteps
    PROVE  h \notin LateAnswers'
<1>1. PICK r : r = [req[h] EXCEPT !.step = step]
  OBVIOUS
<1>2. r.step = step
  BY <1>1 DEF IInv, TypeOK, Request
<1> QED
  BY <1>1, <1>2, MovesOn DEF Goto

LEMMA RowInTime ==
    ASSUME IInv, NEW h \in Handlers, NEW d, RowWritten(h, d),
           req[h].step \notin LateSteps
    PROVE  h \notin LateAnswers'
<1>1. CASE req[h].rows = {d}
  BY <1>1, FinishedInTime DEF RowWritten
<1>2. CASE req[h].rows # {d}
  <2>1. PICK r : r = [req[h] EXCEPT !.rows = @ \ {d}]
    OBVIOUS
  <2>2. r.step = req[h].step
    BY <2>1 DEF IInv, TypeOK, Request
  <2> QED
    BY <1>2, <2>1, <2>2, MovesOn DEF RowWritten
<1> QED
  BY <1>1, <1>2

LEMMA RespondsInTime ==
    ASSUME IInv, NEW h \in Handlers, NEW u \in Users, NEW s \in ScheduleIds,
           NEW approve \in BOOLEAN, RespondToCustodySchedule(h, u, s, approve)
    PROVE  h \notin LateAnswers'
<1>1. PICK r : r = [Idle EXCEPT !.step = IF approve THEN "supersede active"
                                                    ELSE "reject",
                                !.user = u, !.id = s]
  OBVIOUS
<1>2. r.step \in {"supersede active", "reject"} /\ r.id = s
  BY <1>1, IdleUnread DEF Request
<1>3. req' = [req EXCEPT ![h] = r] /\ UNCHANGED schedules
  BY <1>1 DEF RespondToCustodySchedule, AnswerOf
<1>4. schedules[s].status = "pendingApproval"
  BY DEF RespondToCustodySchedule
<1> QED
  BY <1>2, <1>3, <1>4 DEF LateAnswers, IInv, TypeOK

LEMMA RowsInTime ==
    ASSUME IInv, NEW h \in Handlers, ReadProtectedDays(h) \/ DeleteOwnSlots(h)
    PROVE  h \notin LateAnswers'
<1>1. CASE ReadProtectedDays(h)
  <2>1. PICK r : r = [req[h] EXCEPT !.step = "delete own",
                                    !.rows = {d \in Generated(h) : ~AgreedChange(d)}]
    OBVIOUS
  <2>2. r.step = "delete own"
    BY <2>1 DEF IInv, TypeOK, Request
  <2>3. req' = [req EXCEPT ![h] = r]
    BY <1>1, <2>1 DEF ReadProtectedDays
  <2> QED
    BY <2>2, <2>3, MovesOn DEF LateSteps
<1>2. CASE DeleteOwnSlots(h)
  <2>1. PICK r : r = [req[h] EXCEPT !.step = "write slots"]
    OBVIOUS
  <2>2. r.step = "write slots"
    BY <2>1 DEF IInv, TypeOK, Request
  <2>3. req'[h] = Idle \/ req'[h] = r
    BY <1>2, <2>1 DEF DeleteOwnSlots
  <2> QED
    BY <2>2, <2>3, IdleUnread DEF LateAnswers
<1> QED
  BY <1>1, <1>2

LEMMA ScheduleInTime ==
    ASSUME IInv, NEW h \in Handlers, ScheduleRequest(h) \/ ScheduleStep(h)
    PROVE  h \notin LateAnswers' \/ SupersedeActive(h)
<1>1. ASSUME NEW u \in Users, NEW p \in Plans, ProposeCustodySchedule(h, u, p)
      PROVE  h \notin LateAnswers'
  <2>1. PICK r : r = [Idle EXCEPT !.step = "create schedule", !.user = u, !.plan = p]
    OBVIOUS
  <2>2. r.step = "create schedule"
    BY <2>1, IdleUnread DEF Request
  <2>3. req' = [req EXCEPT ![h] = r]
    BY <1>1, <2>1 DEF ProposeCustodySchedule
  <2> QED
    BY <2>2, <2>3, MovesOn DEF LateSteps
<1>2. CASE CreateSchedule(h) \/ RejectSchedule(h)
  BY <1>2, FinishedInTime DEF CreateSchedule, RejectSchedule
<1>3. CASE Activate(h)
  BY <1>3, GoneOn DEF Activate, LateSteps
<1>4. CASE WriteSlot(h)
  BY <1>4, RowInTime DEF WriteSlot, LateSteps
<1> QED
  BY <1>1, <1>2, <1>3, <1>4, RespondsInTime, RowsInTime
  DEF ScheduleRequest, ScheduleStep

LEMMA ExceptionInTime ==
    ASSUME IInv, NEW h \in Handlers, ExceptionRequest(h) \/ ExceptionStep(h)
    PROVE  h \notin LateAnswers'
<1>1. ASSUME NEW u \in Users, NEW c \in Changes, CreateCustodyException(h, u, c)
      PROVE  h \notin LateAnswers'
  <2>1. PICK r : r = [Idle EXCEPT !.step = "create exception", !.user = u,
                                  !.change = c]
    OBVIOUS
  <2>2. r.step = "create exception"
    BY <2>1, IdleUnread DEF Request
  <2>3. req' = [req EXCEPT ![h] = r]
    BY <1>1, <2>1 DEF CreateCustodyException
  <2> QED
    BY <2>2, <2>3, MovesOn DEF LateSteps
<1>2. ASSUME NEW u \in Users, NEW e \in ExceptionIds, NEW answer,
             RespondToCustodyException(h, u, e, answer)
      PROVE  h \notin LateAnswers'
  <2>1. PICK r : r = [Idle EXCEPT !.step = "decide", !.user = u, !.id = e,
                                  !.answer = answer]
    OBVIOUS
  <2>2. r.step = "decide" /\ r.id = e
    BY <2>1, IdleUnread DEF Request
  <2>3. req' = [req EXCEPT ![h] = r] /\ UNCHANGED exceptions
    BY <1>2, <2>1 DEF RespondToCustodyException
  <2>4. exceptions[e].status = "pending"
    BY <1>2 DEF RespondToCustodyException
  <2> QED
    BY <2>2, <2>3, <2>4 DEF LateAnswers, IInv, TypeOK
<1>3. CASE CreateException(h)
  BY <1>3, FinishedInTime DEF CreateException
<1>4. CASE DecideException(h)
  <2>1. PICK r : r = [req[h] EXCEPT !.step = "apply",
                                    !.rows = DaysOf(exceptions[req[h].id].change)]
    OBVIOUS
  <2>2. r.step = "apply"
    BY <2>1 DEF IInv, TypeOK, Request
  <2>3. Finish(h) \/ req' = [req EXCEPT ![h] = r]
    BY <1>4, <2>1 DEF DecideException
  <2> QED
    BY <2>2, <2>3, MovesOn, FinishedInTime DEF LateSteps
<1>5. CASE ApplyException(h)
  BY <1>5, RowInTime DEF ApplyException, LateSteps
<1> QED
  BY <1>1, <1>2, <1>3, <1>4, <1>5 DEF ExceptionRequest, ExceptionStep

LEMMA SlotInTime ==
    ASSUME IInv, NEW h \in Handlers, SlotRequest(h) \/ SlotStep(h)
    PROVE  h \notin LateAnswers'
<1>1. ASSUME NEW u \in Users, NEW d \in Days, UpdateCustodySlotHandover(h, u, d)
      PROVE  h \notin LateAnswers'
  <2>1. PICK r : r = [Idle EXCEPT !.step = "find slot", !.user = u, !.id = d,
                                  !.slot = slots[d].custodian]
    OBVIOUS
  <2>2. r.step = "find slot"
    BY <2>1, IdleUnread DEF Request
  <2>3. req' = [req EXCEPT ![h] = r]
    BY <1>1, <2>1 DEF UpdateCustodySlotHandover
  <2> QED
    BY <2>2, <2>3, MovesOn DEF LateSteps
<1>2. CASE FindSlot(h)
  BY <1>2, FinishedInTime, GoneOn DEF FindSlot, LateSteps
<1>3. CASE UpdateSlot(h)
  BY <1>3, FinishedInTime DEF UpdateSlot
<1> QED
  BY <1>1, <1>2, <1>3 DEF SlotRequest, SlotStep

LEMMA EnsuresInTime ==
    ASSUME IInv, NEW h \in Handlers, EnsureOriginalSlot(h) \/ EnsureProposedSlot(h)
    PROVE  h \notin LateAnswers'
<1>1. req[h] \in Request
  BY DEF IInv, TypeOK
<1>2. PICK ro, rp :
        /\ ro = [req[h] EXCEPT
                   !.original = slots[swaps[req[h].id].original].custodian,
                   !.step = "ensure proposed"]
        /\ rp = [req[h] EXCEPT
                   !.proposed = slots[swaps[req[h].id].proposed].custodian,
                   !.step = "swap slots"]
  OBVIOUS
<1>3. ro.step = "ensure proposed" /\ rp.step = "swap slots"
  BY <1>1, <1>2 DEF Request
<1>4. \/ req' = [req EXCEPT ![h] = ro]
      \/ req' = [req EXCEPT ![h] = rp]
      \/ Goto(h, "create original")
      \/ Goto(h, "create proposed")
      \/ Goto(h, "answer swap")
  BY <1>1, <1>2 DEF EnsureOriginalSlot, EnsureProposedSlot, EnsureSlot, Request
<1> QED
  BY <1>3, <1>4, MovesOn, GoneOn DEF LateSteps

LEMMA CreatesInTime ==
    ASSUME IInv, NEW h \in Handlers, CreateOriginalSlot(h) \/ CreateProposedSlot(h)
    PROVE  h \notin LateAnswers'
<1>1. req[h] \in Request
  BY DEF IInv, TypeOK
<1>2. PICK ro, rp :
        /\ ro = [req[h] EXCEPT
                   !.original = schedules[req[h].basis].plan.custodian
                                  [swaps[req[h].id].original],
                   !.step = "ensure proposed"]
        /\ rp = [req[h] EXCEPT
                   !.proposed = schedules[req[h].basis].plan.custodian
                                  [swaps[req[h].id].proposed],
                   !.step = "swap slots"]
  OBVIOUS
<1>3. ro.step = "ensure proposed" /\ rp.step = "swap slots"
  BY <1>1, <1>2 DEF Request
<1>4. \/ req' = [req EXCEPT ![h] = ro]
      \/ req' = [req EXCEPT ![h] = rp]
      \/ Finish(h)
  BY <1>1, <1>2 DEF CreateOriginalSlot, CreateProposedSlot, CreateSlot, Request
<1> QED
  BY <1>3, <1>4, MovesOn, FinishedInTime DEF LateSteps

LEMMA SwapInTime ==
    ASSUME IInv, NEW h \in Handlers, SwapRequest(h) \/ SwapStep(h)
    PROVE  h \notin LateAnswers'
<1>0. SwapSteps \cap LateSteps = {}
  BY DEF SwapSteps, LateSteps
<1>1. ASSUME NEW u \in Users, NEW dates \in SwapDates, CreateSwapRequest(h, u, dates)
      PROVE  h \notin LateAnswers'
  BY <1>1 DEF CreateSwapRequest, LateAnswers
<1>2. ASSUME NEW u \in Users, NEW w \in SwapIds, NEW answer,
             RespondToSwapRequest(h, u, w, answer)
      PROVE  h \notin LateAnswers'
  <2>1. PICK r : r = [Idle EXCEPT !.step = IF answer = "accepted"
                                           THEN "read pending" ELSE "answer swap",
                                  !.user = u, !.id = w, !.answer = answer]
    OBVIOUS
  <2>2. r.step \in {"read pending", "answer swap"}
    BY <2>1, IdleUnread DEF Request
  <2>3. req' = [req EXCEPT ![h] = r]
    BY <1>2, <2>1 DEF RespondToSwapRequest
  <2> QED
    BY <2>2, <2>3, MovesOn DEF LateSteps
<1>3. ASSUME NEW s, NEW step \in SwapSteps,
             req' = [req EXCEPT ![h] = [req[h] EXCEPT !.basis = s, !.step = step]]
      PROVE  h \notin LateAnswers'
  <2>1. PICK r : r = [req[h] EXCEPT !.basis = s, !.step = step]
    OBVIOUS
  <2>2. r.step = step
    BY <2>1 DEF IInv, TypeOK, Request
  <2> QED
    BY <1>0, <1>3, <2>1, <2>2, MovesOn
<1>4. CASE ReadPendingSchedule(h)
  <2>1. PICK s : req' = [req EXCEPT ![h].basis = s,
                                    ![h].step = IF s = NoId THEN "read active"
                                                            ELSE "ensure original"]
    BY <1>4 DEF ReadPendingSchedule
  <2>2. req' = [req EXCEPT ![h] =
                  [req[h] EXCEPT !.basis = s,
                                 !.step = IF s = NoId THEN "read active"
                                                      ELSE "ensure original"]]
    BY <2>1
  <2> QED
    BY <1>3, <2>2 DEF SwapSteps
<1>5. CASE ReadActiveSchedule(h)
  <2>1. PICK s : req' = [req EXCEPT ![h].basis = s, ![h].step = "ensure original"]
    BY <1>5 DEF ReadActiveSchedule
  <2>2. req' = [req EXCEPT ![h] =
                  [req[h] EXCEPT !.basis = s, !.step = "ensure original"]]
    BY <2>1
  <2> QED
    BY <1>3, <2>2 DEF SwapSteps
<1>6. CASE SwapSlots(h)
  BY <1>6, FinishedInTime, GoneOn DEF SwapSlots, LateSteps
<1>7. CASE AnswerSwap(h)
  BY <1>7, FinishedInTime DEF AnswerSwap
<1> QED
  BY <1>1, <1>2, <1>4, <1>5, <1>6, <1>7, EnsuresInTime, CreatesInTime
  DEF SwapRequest, SwapStep

(* Some handler is not late: whoever makes others late by writing an       *)
(* answer has then answered, and superseding what is in force makes nobody *)
(* late.                                                                   *)
SomeoneInTime == LateAnswers # Handlers

LEMMA SomeoneIsInTime ==
    IInv /\ SomeoneInTime /\ [Next]_vars => SomeoneInTime'
<1> SUFFICES ASSUME IInv, SomeoneInTime, [Next]_vars
             PROVE  SomeoneInTime'
  OBVIOUS
<1>1. ASSUME NEW h \in Handlers, SupersedeActive(h)
      PROVE  SomeoneInTime'
  <2>1. PICK g \in Handlers : g \notin LateAnswers
    BY DEF LateAnswers, SomeoneInTime
  <2>2. PICK r : r = [req[h] EXCEPT !.step = "activate"] /\ req' = [req EXCEPT ![h] = r]
    BY <1>1 DEF SupersedeActive, Goto
  <2>3. r.step = "activate" /\ r.id = req[h].id
    BY <2>2 DEF IInv, TypeOK, Request
  <2>4. /\ req[h].step = "supersede active" /\ UNCHANGED exceptions
        /\ schedules' = WithStatus("active", "superseded")
    BY <1>1 DEF SupersedeActive
  <2>5. CASE g = h
    <3>1. schedules[req[h].id].status = "pendingApproval" /\ req[h].id \in ScheduleIds
      BY <2>1, <2>4, <2>5 DEF LateAnswers, IInv, RequestOK, ScheduleRequestOK,
         AnswerSteps, UsedSchedule
    <3>2. schedules'[req[h].id] = schedules[req[h].id]
      BY <2>4, <3>1 DEF WithStatus
    <3>3. req'[h] = r
      BY <2>2 DEF IInv, TypeOK
    <3> QED
      BY <2>3, <3>1, <3>2, <3>3 DEF LateAnswers, SomeoneInTime
  <2>6. CASE g # h
    <3>1. req'[g] = req[g]
      BY <2>2, <2>6 DEF IInv, TypeOK
    <3>2. ASSUME req[g].step \in {"reject", "supersede active", "activate"}
          PROVE  schedules'[req[g].id].status = "pendingApproval"
      <4>1. schedules[req[g].id].status = "pendingApproval" /\ req[g].id \in ScheduleIds
        BY <2>1, <3>2 DEF LateAnswers, IInv, RequestOK, ScheduleRequestOK,
           AnswerSteps, UsedSchedule
      <4> QED
        BY <2>4, <4>1 DEF WithStatus
    <3> QED
      BY <2>1, <2>4, <3>1, <3>2 DEF LateAnswers, SomeoneInTime
  <2> QED
    BY <2>5, <2>6
<1>2. ASSUME NEW h \in Handlers, NewRequest(h) \/ Step(h) \/ Fail(h)
      PROVE  h \notin LateAnswers' \/ SupersedeActive(h)
  BY <1>2, ScheduleInTime, ExceptionInTime, SwapInTime, SlotInTime, FinishedInTime
  DEF NewRequest, Step, Fail
<1>3. CASE UNCHANGED vars
  BY <1>3 DEF vars, LateAnswers, SomeoneInTime
<1> QED
  BY <1>1, <1>2, <1>3 DEF Next, SomeoneInTime

(* respondToCustodySchedule and respondToCustodyException check the status *)
(* in one statement and write it in another: of any number of requests at  *)
(* least one is not about to overwrite an answer.                          *)
THEOREM FewAnswersAreLate == Spec => []LateAnswersBounded
<1>1. Init => SomeoneInTime
  BY HandlersAssumption, IdleUnread DEF Init, LateAnswers, SomeoneInTime
<1>2. SomeoneInTime => LateAnswersBounded
  <2> SUFFICES ASSUME SomeoneInTime PROVE LateAnswersBounded
    OBVIOUS
  <2>1. PICK g \in Handlers : g \notin LateAnswers
    BY DEF LateAnswers, SomeoneInTime
  <2>2. IsFiniteSet(LateAnswers) /\ Cardinality(LateAnswers) <= Cardinality(Handlers \ {g})
    BY <2>1, HandlersAssumption, FS_Subset, FS_RemoveElement DEF LateAnswers
  <2>3. Cardinality(Handlers \ {g}) = Cardinality(Handlers) - 1
    BY <2>1, HandlersAssumption, FS_RemoveElement
  <2> QED
    BY <2>2, <2>3 DEF LateAnswersBounded
<1> QED
  BY <1>1, <1>2, SomeoneIsInTime, Invariance, PTL DEF Spec
=============================================================================
