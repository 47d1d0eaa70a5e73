------------------------ MODULE CustodySerialProofs -------------------------
(***************************************************************************)
(* Proofs about Custody with one request at a time, for any number of      *)
(* parents, days, plans and rows, and wherever requests break off.         *)
(***************************************************************************)
EXTENDS CustodyProofs

(* Requests do not overlap: there is a single handler. *)
OneAtATime == \E h : Handlers = {h}

-----------------------------------------------------------------------------
(* The inductive invariant: what the only request in flight can rely on    *)
(* besides, as nobody else writes between its statements.                  *)

(* An answer finds the proposal still open; from "supersede active" on no  *)
(* other schedule is in force; and the days that are still to be written   *)
(* are the ones that nobody has changed.                                   *)
ScheduleFacts(r) ==
    /\ r.step \in {"reject", "supersede active", "activate"} =>
         schedules[r.id].status = "pendingApproval"
    /\ r.step = "activate" => HasStatus("active") = {}
    /\ r.step \in GenerationSteps => HasStatus("active") \subseteq {r.id}
    /\ r.step \in {"delete own", "write slots"} => \A d \in r.rows : ~AgreedChange(d)
    /\ r.step = "delete own" =>
         \A d \in DaysOf(schedules[r.id].plan) \ r.rows : AgreedChange(d)

ExceptionFacts(r) ==
    /\ r.step = "decide" => exceptions[r.id].status = "pending"
    /\ r.step = "apply" => exceptions[r.id].status = "accepted"

(* The custodians that were read are still those of the two rows. *)
SwapFacts(r) ==
    /\ r.step \in {"ensure proposed", "create proposed", "swap slots"} =>
         r.original \in Roles /\ r.original = slots[swaps[r.id].original].custodian
    /\ r.step = "swap slots" =>
         r.proposed \in Roles /\ r.proposed = slots[swaps[r.id].proposed].custodian

HandoverFacts(r) ==
    r.step \in SlotSteps => HasStatus("active") \cup HasStatus("pendingApproval") = {}

(* The day shows schedule s, or an agreed change of it. *)
Shown(s, d) ==
    HasSlot(d) /\ (slots[d].source = "schedule" => slots[d].schedule = s)

(* The days that a generation has still to write. *)
ToCome(r) ==
    CASE r.step = "read protected" -> Days
      [] r.step \in {"delete own", "write slots"} -> r.rows
      [] OTHER -> {}

CalendarFacts(r) ==
    failures = 0 => \A s \in HasStatus("active") :
                      \A d \in DaysOf(schedules[s].plan) \ ToCome(r) : Shown(s, d)

SerialRequest(r) ==
    /\ ScheduleFacts(r)
    /\ ExceptionFacts(r)
    /\ SwapFacts(r)
    /\ HandoverFacts(r)
    /\ CalendarFacts(r)

SInv ==
    /\ IInv
    /\ AppliedExceptionsAreAccepted
    /\ \A h \in Handlers : SerialRequest(req[h])

-----------------------------------------------------------------------------
(* Frames. *)

(* A request that is neither answering a schedule nor an exception, nor    *)
(* has read rows of the calendar, relies on the calendar alone.            *)
Plain(r) ==
    r.step \in {"idle", "create schedule", "create exception", "read pending",
                "read active", "ensure original", "create original", "answer swap"}

LEMMA PlainFacts ==
    ASSUME NEW r, Plain(r)
    PROVE  /\ ScheduleFacts(r) /\ ExceptionFacts(r) /\ SwapFacts(r) /\ HandoverFacts(r)
           /\ ToCome(r) = {}
  BY DEF Plain, ScheduleFacts, ExceptionFacts, SwapFacts, HandoverFacts, ToCome,
         GenerationSteps, SlotSteps

LEMMA PlainFactsNext ==
    ASSUME NEW r, Plain(r)
    PROVE  ScheduleFacts(r)' /\ ExceptionFacts(r)' /\ SwapFacts(r)' /\ HandoverFacts(r)'
  BY DEF Plain, ScheduleFacts, ExceptionFacts, SwapFacts, HandoverFacts,
         GenerationSteps, SlotSteps

(* Slots keep the schedule that they show, or come to show another source. *)
SlotsKept ==
    \A d \in Days : HasSlot(d) =>
       /\ HasSlot(d)'
       /\ slots'[d].source = "schedule" =>
            slots[d].source = "schedule" /\ slots'[d].schedule = slots[d].schedule

LEMMA SameSlotsKept == UNCHANGED slots => SlotsKept
  BY DEF SlotsKept, HasSlot

LEMMA CalendarFrame ==
    ASSUME NEW q, NEW r, TypeOK, CalendarFacts(q), ToCome(q) \subseteq ToCome(r),
           SchedulesGrow, HasStatus("active")' \subseteq HasStatus("active"), SlotsKept,
           failures' = failures
    PROVE  CalendarFacts(r)'
<1> SUFFICES ASSUME failures' = 0, NEW s \in HasStatus("active")',
                    NEW d \in DaysOf(schedules'[s].plan) \ ToCome(r)
             PROVE  Shown(s, d)'
  BY DEF CalendarFacts, ToCome
<1>1. s \in HasStatus("active") /\ UsedSchedule(s)
  BY UsedRows DEF HasStatus
<1>2. schedules'[s].plan = schedules[s].plan
  BY <1>1 DEF SchedulesGrow, HasStatus
<1>3. d \in Days /\ Shown(s, d)
  BY <1>1, <1>2 DEF CalendarFacts, DaysOf
<1> QED
  BY <1>3 DEF Shown, SlotsKept, HasSlot

(* The only request in flight moves on, or answers. *)
LEMMA OnlyOneMoves ==
    ASSUME OneAtATime, SInv, NEW h \in Handlers, NEW r, req' = [req EXCEPT ![h] = r],
           SerialRequest(r)'
    PROVE  \A g \in Handlers : SerialRequest(req[g])'
<1> SUFFICES ASSUME NEW g \in Handlers PROVE SerialRequest(req[g])'
  OBVIOUS
<1>1. g = h
  BY DEF OneAtATime
<1>2. req'[g] = r
  BY <1>1 DEF SInv, IInv, TypeOK
<1> QED
  BY <1>2 DEF SerialRequest, ScheduleFacts, ExceptionFacts, SwapFacts, HandoverFacts,
     CalendarFacts, ToCome

(* What an action has to show: its request, and that exceptions that are   *)
(* shown stay accepted.                                                    *)
LEMMA SerialStep ==
    ASSUME OneAtATime, SInv, IInv', NEW h \in Handlers, NEW r,
           req' = [req EXCEPT ![h] = r], SerialRequest(r)', AppliedExceptionsAreAccepted'
    PROVE  SInv'
  BY OnlyOneMoves DEF SInv

LEMMA AppliedFrame ==
    ASSUME SInv, UNCHANGED exceptions,
           \A d \in Days : slots'[d].source = "exception" => 
              \/ slots[d].source = "exception" /\ slots'[d].exception = slots[d].exception
              \/ exceptions[slots'[d].exception].status = "accepted"
    PROVE  AppliedExceptionsAreAccepted'
  BY DEF SInv, AppliedExceptionsAreAccepted

(* An action that only moves its request, which relies on nothing new.     *)
LEMMA QuietStep ==
    ASSUME OneAtATime, SInv, IInv', NEW h \in Handlers, NEW r,
           req' = [req EXCEPT ![h] = r], UNCHANGED <<schedules, exceptions, swaps, slots>>,
           failures' = failures, ToCome(req[h]) \subseteq ToCome(r),
           ScheduleFacts(r), ExceptionFacts(r), SwapFacts(r), HandoverFacts(r)
    PROVE  SInv'
<1>1. CalendarFacts(r)'
  BY CalendarFrame, SameSchedules, SameSlotsKept DEF SInv, IInv, SerialRequest, HasStatus
<1>2. ScheduleFacts(r)' /\ ExceptionFacts(r)' /\ SwapFacts(r)' /\ HandoverFacts(r)'
  BY DEF ScheduleFacts, ExceptionFacts, SwapFacts, HandoverFacts, HasStatus, AgreedChange
<1>3. AppliedExceptionsAreAccepted'
  BY DEF SInv, AppliedExceptionsAreAccepted
<1> QED
  BY <1>1, <1>2, <1>3, SerialStep DEF SerialRequest

(* One that is idle has no day to write. *)
LEMMA IdlePlain ==
    /\ Plain(Idle)
    /\ \A r : r.step = "idle" => Plain(r)
    /\ \A r : Plain(r) => ToCome(r) = {}
<1>1. Plain(Idle)
  BY IdleUnread DEF Plain
<1>2. \A r : r.step = "idle" => Plain(r)
  BY DEF Plain
<1>3. \A r : Plain(r) => ToCome(r) = {}
  BY PlainFacts
<1> QED
  BY <1>1, <1>2, <1>3

(* A plain request that becomes another plain one. *)
LEMMA PlainStep ==
    ASSUME OneAtATime, SInv, IInv', NEW h \in Handlers, NEW r,
           req' = [req EXCEPT ![h] = r], Plain(req[h]), Plain(r),
           UNCHANGED <<slots, failures>>, SchedulesGrow,
           HasStatus("active")' \subseteq HasStatus("active"),
           AppliedExceptionsAreAccepted'
    PROVE  SInv'
<1>1. CalendarFacts(r)'
  BY CalendarFrame, SameSlotsKept, PlainFacts DEF SInv, IInv, SerialRequest
<1> QED
  BY <1>1, PlainFactsNext, SerialStep DEF SerialRequest

-----------------------------------------------------------------------------
(* ScheduleActions *)

LEMMA ProposeSerial ==
    ASSUME OneAtATime, SInv, IInv', NEW h \in Handlers, NEW u \in Users, NEW p \in Plans,
           ProposeCustodySchedule(h, u, p), UNCHANGED failures
    PROVE  SInv'
<1>1. PICK r : r = [Idle EXCEPT !.step = "create schedule", !.user = u, !.plan = p]
  OBVIOUS
<1>2. Plain(r) /\ Plain(req[h])
  BY <1>1 DEF Plain, Idle, ProposeCustodySchedule
<1>3. SchedulesGrow /\ HasStatus("active")' \subseteq HasStatus("active")
  <2>1. "pendingApproval" \in ScheduleStatus /\ "superseded" \in ScheduleStatus
    BY DEF ScheduleStatus
  <2>2. schedules' = WithStatus("pendingApproval", "superseded") /\ TypeOK
    BY DEF SInv, IInv, ProposeCustodySchedule
  <2>3. SchedulesGrow /\ \A s \in ScheduleIds : schedules'[s].status =
          IF schedules[s].status = "pendingApproval" THEN "superseded" ELSE schedules[s].status
    BY <2>1, <2>2, WithStatusRows
  <2> QED
    BY <2>3 DEF HasStatus
<1>4. AppliedExceptionsAreAccepted'
  BY AppliedFrame DEF ProposeCustodySchedule
<1> QED
  BY <1>1, <1>2, <1>3, <1>4, PlainStep DEF ProposeCustodySchedule

LEMMA CreateScheduleSerial ==
    ASSUME OneAtATime, SInv, IInv', NEW h \in Handlers, CreateSchedule(h), UNCHANGED failures
    PROVE  SInv'
<1>1. PICK s \in UnusedSchedules :
        schedules' = [schedules EXCEPT ![s] =
                        [status |-> "pendingApproval", plan |-> req[h].plan,
                         proposedBy |-> req[h].user, approvedBy |-> Null]]
  BY DEF CreateSchedule
<1>2. s \in ScheduleIds /\ ~UsedSchedule(s)
  BY <1>1, UsedRows DEF UnusedSchedules, HasStatus, SInv, IInv
<1>3. SchedulesGrow /\ HasStatus("active")' \subseteq HasStatus("active")
  <2>1. \A t \in ScheduleIds \ {s} : schedules'[t] = schedules[t]
    BY <1>1 DEF SInv, IInv, TypeOK
  <2>2. schedules'[s].status = "pendingApproval"
    BY <1>1, <1>2 DEF SInv, IInv, TypeOK
  <2> QED
    BY <1>2, <2>1, <2>2 DEF SchedulesGrow, UsedSchedule, HasStatus, ApprovedByTheOther
<1>4. AppliedExceptionsAreAccepted'
  BY AppliedFrame DEF CreateSchedule
<1>5. Plain(req[h])
  BY DEF Plain, CreateSchedule
<1> QED
  BY <1>3, <1>4, <1>5, IdlePlain, PlainStep DEF CreateSchedule, Finish

LEMMA RespondSerial ==
    ASSUME OneAtATime, SInv, IInv', NEW h \in Handlers, NEW u \in Users,
           NEW s \in ScheduleIds, NEW approve \in BOOLEAN,
           RespondToCustodySchedule(h, u, s, approve), UNCHANGED failures
    PROVE  SInv'
<1>1. PICK r : r = [Idle EXCEPT !.step = IF approve THEN "supersede active" ELSE "reject",
                                !.user = u, !.id = s]
  OBVIOUS
<1>2. r.step \in {"supersede active", "reject"} /\ r.id = s
  BY <1>1 DEF Idle
<1>3. ScheduleFacts(r) /\ ExceptionFacts(r) /\ SwapFacts(r) /\ HandoverFacts(r)
  BY <1>2 DEF ScheduleFacts, ExceptionFacts, SwapFacts, HandoverFacts, GenerationSteps,
     SlotSteps, RespondToCustodySchedule
<1>4. ToCome(req[h]) = {}
  BY IdlePlain DEF RespondToCustodySchedule
<1> QED
  BY <1>1, <1>3, <1>4, QuietStep DEF RespondToCustodySchedule, AnswerOf

LEMMA RequestType ==
    ASSUME SInv, NEW h \in Handlers
    PROVE  req[h] \in Request
  BY DEF SInv, IInv, TypeOK

LEMMA RejectSerial ==
    ASSUME OneAtATime, SInv, IInv', NEW h \in Handlers, RejectSchedule(h), UNCHANGED failures
    PROVE  SInv'
<1>1. PICK s : s = req[h].id
  OBVIOUS
<1>2. UsedSchedule(s)
  BY <1>1, AnswerKnows DEF SInv, RejectSchedule, AnswerSteps
<1>3. /\ schedules' = [schedules EXCEPT ![s].status = "superseded"]
      /\ schedules'[s].status = "superseded"
      /\ \A t \in ScheduleIds \ {s} : schedules'[t] = schedules[t]
  BY <1>1, <1>2 DEF RejectSchedule, SInv, IInv, TypeOK, UsedSchedule, Schedule
<1>4. HasStatus("active")' \subseteq HasStatus("active")
  BY <1>3 DEF HasStatus
<1>5. SchedulesGrow
  <2>1. PICK row : row = [schedules[s] EXCEPT !.status = "superseded"]
    OBVIOUS
  <2>2. /\ row \in Schedule
        /\ row.plan = schedules[s].plan /\ row.proposedBy = schedules[s].proposedBy
        /\ row.approvedBy = schedules[s].approvedBy
    BY <1>2, <2>1 DEF UsedSchedule, Schedule, ScheduleStatus
  <2>3. schedules' = [schedules EXCEPT ![s] = row]
    BY <1>3, <2>1
  <2> QED
    BY <1>2, <2>2, <2>3, ScheduleUpdated DEF SInv, IInv, ApprovedByTheOther
<1>6. CalendarFacts(Idle)'
  <2>1. ToCome(req[h]) = {}
    BY DEF ToCome, RejectSchedule
  <2> QED
    BY <1>4, <1>5, <2>1, CalendarFrame, SameSlotsKept
    DEF SInv, IInv, SerialRequest, RejectSchedule
<1>7. AppliedExceptionsAreAccepted'
  BY AppliedFrame DEF RejectSchedule
<1> QED
  BY <1>6, <1>7, IdlePlain, PlainFactsNext, SerialStep DEF RejectSchedule, Finish, SerialRequest

LEMMA SupersedeSerial ==
    ASSUME OneAtATime, SInv, IInv', NEW h \in Handlers, SupersedeActive(h),
           UNCHANGED failures
    PROVE  SInv'
<1>0. PICK r : r = [req[h] EXCEPT !.step = "activate"]
  OBVIOUS
<1>1. r.step = "activate" /\ r.id = req[h].id
  BY <1>0, RequestType DEF Request
<1>2. req' = [req EXCEPT ![h] = r]
  BY <1>0 DEF SupersedeActive, Goto
<1>3. \A s \in ScheduleIds : schedules'[s].status =
         IF schedules[s].status = "active" THEN "superseded" ELSE schedules[s].status
  <2>1. "active" \in ScheduleStatus /\ "superseded" \in ScheduleStatus
    BY DEF ScheduleStatus
  <2> QED
    BY <2>1, WithStatusRows DEF SInv, IInv, SupersedeActive
<1>4. r.id \in ScheduleIds /\ schedules[r.id].status = "pendingApproval"
  BY <1>1, AnswerKnows
  DEF SInv, SerialRequest, ScheduleFacts, SupersedeActive, AnswerSteps, UsedSchedule
<1>5. HasStatus("active")' = {} /\ schedules'[r.id].status = "pendingApproval"
  BY <1>3, <1>4 DEF HasStatus
<1>6. SerialRequest(r)'
  <2>1. ScheduleFacts(r)' /\ CalendarFacts(r)'
    BY <1>1, <1>5 DEF ScheduleFacts, GenerationSteps, CalendarFacts
  <2>2. ExceptionFacts(r)' /\ SwapFacts(r)' /\ HandoverFacts(r)'
    BY <1>1 DEF ExceptionFacts, SwapFacts, HandoverFacts, SlotSteps
  <2> QED
    BY <2>1, <2>2 DEF SerialRequest
<1>7. AppliedExceptionsAreAccepted'
  BY AppliedFrame DEF SupersedeActive
<1> QED
  BY <1>2, <1>6, <1>7, SerialStep

(* A generation of the schedule that is alone in force. *)
Generating(r) == r.step \in GenerationSteps

LEMMA GenerationFacts ==
    ASSUME NEW r, Generating(r)
    PROVE  ExceptionFacts(r)' /\ SwapFacts(r)' /\ HandoverFacts(r)'
  BY DEF Generating, ExceptionFacts, SwapFacts, HandoverFacts, GenerationSteps, SlotSteps

LEMMA ActivateSerial ==
    ASSUME OneAtATime, SInv, IInv', NEW h \in Handlers, Activate(h), UNCHANGED failures
    PROVE  SInv'
<1>0. PICK r : r = [req[h] EXCEPT !.step = "read protected"]
  OBVIOUS
<1>1. r.step = "read protected" /\ r.id = req[h].id
  BY <1>0, RequestType DEF Request
<1>2. req' = [req EXCEPT ![h] = r]
  BY <1>0 DEF Activate, Goto
<1>3. HasStatus("active") = {} /\ r.id \in ScheduleIds
  BY <1>1, AnswerKnows
  DEF SInv, SerialRequest, ScheduleFacts, Activate, AnswerSteps, UsedSchedule
<1>4. HasStatus("active")' \subseteq {r.id}
  BY <1>1, <1>3 DEF Activate, HasStatus, SInv, IInv, TypeOK
<1>5. ScheduleFacts(r)'
  BY <1>1, <1>4 DEF ScheduleFacts
<1>6. CalendarFacts(r)'
  BY <1>1 DEF CalendarFacts, ToCome, DaysOf
<1>7. AppliedExceptionsAreAccepted'
  BY AppliedFrame DEF Activate
<1>8. SerialRequest(r)'
  <2>1. Generating(r)
    BY <1>1 DEF Generating, GenerationSteps
  <2> QED
    BY <1>5, <1>6, <2>1, GenerationFacts DEF SerialRequest
<1> QED
  BY <1>2, <1>7, <1>8, SerialStep

(* A generation that has reached the days outside rows. *)
LEMMA GeneratedSoFar ==
    ASSUME NEW r, NEW s, HasStatus("active")' \subseteq {s},
           \A d \in DaysOf(schedules'[s].plan) \ ToCome(r) : Shown(s, d)'
    PROVE  CalendarFacts(r)'
  BY DEF CalendarFacts, ToCome

LEMMA ReadProtectedSerial ==
    ASSUME OneAtATime, SInv, IInv', NEW h \in Handlers, ReadProtectedDays(h),
           UNCHANGED failures
    PROVE  SInv'
<1> DEFINE left == {d \in Generated(h) : ~AgreedChange(d)}
<1>1. PICK r : r = [req[h] EXCEPT !.step = "delete own", !.rows = left]
  OBVIOUS
<1>2. r.step = "delete own" /\ r.rows = left /\ r.id = req[h].id
  <2>1. req[h] \in Request
    BY DEF SInv, IInv, TypeOK
  <2> HIDE DEF left
  <2> QED
    BY <1>1, <2>1 DEF Request
<1>3. req' = [req EXCEPT ![h] = r]
  BY <1>1 DEF ReadProtectedDays
<1>4. HasStatus("active") \subseteq {r.id}
  BY <1>2 DEF SInv, SerialRequest, ScheduleFacts, ReadProtectedDays, GenerationSteps
<1>5. /\ \A d \in r.rows : ~AgreedChange(d)
      /\ \A d \in DaysOf(schedules[r.id].plan) \ r.rows : d \in Days /\ AgreedChange(d)
  BY <1>2 DEF Generated, DaysOf
<1>6. UNCHANGED <<schedules, exceptions, swaps, slots>>
  BY DEF ReadProtectedDays
<1>7. ScheduleFacts(r)'
  BY <1>2, <1>4, <1>5, <1>6 DEF ScheduleFacts, HasStatus, AgreedChange
<1>8. CalendarFacts(r)'
  <2>1. \A d \in DaysOf(schedules'[r.id].plan) \ ToCome(r) : Shown(r.id, d)'
    BY <1>2, <1>5, <1>6 DEF ToCome, AgreedChange, Shown, HasSlot
  <2>2. HasStatus("active")' \subseteq {r.id}
    BY <1>4, <1>6 DEF HasStatus
  <2> QED
    BY <2>1, <2>2, GeneratedSoFar
<1>9. AppliedExceptionsAreAccepted'
  BY <1>6, AppliedFrame
<1>10. SerialRequest(r)'
  <2>1. Generating(r)
    BY <1>2 DEF Generating, GenerationSteps
  <2> QED
    BY <1>7, <1>8, <2>1, GenerationFacts DEF SerialRequest
<1> QED
  BY <1>3, <1>9, <1>10, SerialStep

(* With one request at a time, deleting slots concerns no other request. *)
LEMMA DeleteMoves ==
    ASSUME OneAtATime, SInv, NEW h \in Handlers, DeleteOwnSlots(h)
    PROVE  /\ req[h].rows = {} => req' = [req EXCEPT ![h] = Idle]
           /\ req[h].rows # {} => req' = [req EXCEPT ![h] = [req[h] EXCEPT !.step = "write slots"]]
<1>1. Handlers = {h} /\ req \in [Handlers -> Request]
  BY DEF OneAtATime, SInv, IInv, TypeOK
<1> QED
  BY <1>1 DEF DeleteOwnSlots

LEMMA DeleteSerial ==
    ASSUME OneAtATime, SInv, IInv', NEW h \in Handlers, DeleteOwnSlots(h), UNCHANGED failures
    PROVE  SInv'
<1>0. PICK s : s = req[h].id
  OBVIOUS
<1>1. /\ HasStatus("active") \subseteq {s}
      /\ \A d \in req[h].rows : ~AgreedChange(d)
      /\ \A d \in DaysOf(schedules[s].plan) \ req[h].rows : AgreedChange(d)
  BY <1>0 DEF SInv, SerialRequest, ScheduleFacts, DeleteOwnSlots, GenerationSteps
<1>2. \A d \in Days : \/ slots'[d] = slots[d]
                      \/ slots[d].source = "schedule" /\ slots'[d].source = "unused"
  BY DEF DeleteOwnSlots, OwnSlots, NoSlot
<1>3. \A d \in Days : AgreedChange(d) <=> AgreedChange(d)'
  BY <1>2 DEF AgreedChange
<1>4. HasStatus("active")' \subseteq {s} /\ schedules' = schedules
  BY <1>1 DEF DeleteOwnSlots, HasStatus
<1>5. ASSUME NEW d \in DaysOf(schedules'[s].plan) \ req[h].rows
      PROVE  Shown(s, d)'
  <2>1. d \in Days /\ AgreedChange(d)'
    BY <1>1, <1>3, <1>4, <1>5 DEF DaysOf
  <2> QED
    BY <2>1 DEF AgreedChange, Shown, HasSlot
<1>6. AppliedExceptionsAreAccepted'
  BY <1>2, AppliedFrame DEF DeleteOwnSlots
<1>7. CASE req[h].rows = {}
  <2>1. CalendarFacts(Idle)'
    <3>1. ToCome(Idle) = {}
      BY IdlePlain
    <3>2. \A d \in DaysOf(schedules'[s].plan) \ ToCome(Idle) : Shown(s, d)'
      BY <1>5, <1>7, <3>1
    <3> QED
      BY <1>4, <3>2, GeneratedSoFar
  <2>2. SerialRequest(Idle)'
    BY <2>1, IdlePlain, PlainFactsNext DEF SerialRequest
  <2> QED
    BY <1>6, <1>7, <2>2, DeleteMoves, SerialStep
<1>8. CASE req[h].rows # {}
  <2>0. PICK r : r = [req[h] EXCEPT !.step = "write slots"]
    OBVIOUS
  <2>1. r.step = "write slots" /\ r.id = s /\ r.rows = req[h].rows
    BY <1>0, <2>0, RequestType DEF Request
  <2>2. req' = [req EXCEPT ![h] = r] /\ r.rows \subseteq Days
    BY <1>8, <2>0, <2>1, DeleteMoves, RequestType DEF Request
  <2>3. ScheduleFacts(r)'
    BY <1>1, <1>3, <1>4, <2>1, <2>2 DEF ScheduleFacts
  <2>4. CalendarFacts(r)'
    <3>1. ToCome(r) = req[h].rows
      BY <2>1 DEF ToCome
    <3>2. \A d \in DaysOf(schedules'[s].plan) \ ToCome(r) : Shown(s, d)'
      BY <1>5, <3>1
    <3> QED
      BY <1>4, <3>2, GeneratedSoFar
  <2>5. SerialRequest(r)'
    <3>1. Generating(r)
      BY <2>1 DEF Generating, GenerationSteps
    <3> QED
      BY <2>3, <2>4, <3>1, GenerationFacts DEF SerialRequest
  <2> QED
    BY <1>6, <2>2, <2>5, SerialStep
<1> QED
  BY <1>7, <1>8

(* A row has been written: it was the last one, or one less is left. *)
LEMMA RowMoves ==
    ASSUME SInv, NEW h \in Handlers, NEW d \in req[h].rows, RowWritten(h, d)
    PROVE  \/ req[h].rows = {d} /\ req' = [req EXCEPT ![h] = Idle]
           \/ \E r : /\ req' = [req EXCEPT ![h] = r]
                     /\ r.step = req[h].step /\ r.id = req[h].id
                     /\ r.rows = req[h].rows \ {d} /\ r.rows \subseteq Days
<1>1. CASE req[h].rows = {d}
  BY <1>1 DEF RowWritten, Finish
<1>2. CASE req[h].rows # {d}
  <2>1. PICK left : left = req[h].rows \ {d}
    OBVIOUS
  <2>2. PICK r : r = [req[h] EXCEPT !.rows = left]
    OBVIOUS
  <2>3. req[h] \in Request
    BY RequestType
  <2>4. r.step = req[h].step /\ r.id = req[h].id /\ r.rows = left /\ left \subseteq Days
    BY <2>1, <2>2, <2>3 DEF Request
  <2>5. req' = [req EXCEPT ![h] = r]
    BY <1>2, <2>1, <2>2 DEF RowWritten
  <2> QED
    BY <2>1, <2>4, <2>5
<1> QED
  BY <1>1, <1>2

LEMMA WriteSerial ==
    ASSUME OneAtATime, SInv, IInv', NEW h \in Handlers, WriteSlot(h), UNCHANGED failures
    PROVE  SInv'
<1>0. PICK s : s = req[h].id
  OBVIOUS
<1>1. PICK d \in Days :
        /\ NextRow(h, d) /\ RowWritten(h, d)
        /\ slots' = [slots EXCEPT ![d] =
                        [custodian |-> schedules[s].plan.custodian[d],
                         source |-> "schedule", schedule |-> s,
                         exception |-> NoId, handover |-> "schedule"]]
  BY <1>0 DEF WriteSlot
<1>2. /\ slots'[d].source = "schedule" /\ slots'[d].schedule = s
      /\ \A e \in Days \ {d} : slots'[e] = slots[e]
  BY <1>1 DEF SInv, IInv, TypeOK
<1>3. /\ HasStatus("active") \subseteq {s}
      /\ \A e \in req[h].rows : ~AgreedChange(e)
  BY <1>0 DEF SInv, SerialRequest, ScheduleFacts, WriteSlot, GenerationSteps
<1>4. HasStatus("active")' \subseteq {s} /\ UNCHANGED <<schedules, exceptions, swaps>>
  BY <1>3 DEF WriteSlot, HasStatus
<1>5. ASSUME failures = 0, s \in HasStatus("active"),
             NEW e \in DaysOf(schedules'[s].plan), e \notin req[h].rows \ {d}
      PROVE  Shown(s, e)'
  <2>1. CASE e = d
    BY <1>2, <2>1 DEF Shown, HasSlot
  <2>2. CASE e # d
    <3>1. e \in Days /\ Shown(s, e)
      BY <1>4, <1>5, <2>2 DEF SInv, SerialRequest, CalendarFacts, ToCome, WriteSlot, DaysOf
    <3> QED
      BY <1>2, <2>2, <3>1 DEF Shown, HasSlot
  <2> QED
    BY <2>1, <2>2
<1>6. ASSUME NEW r, ToCome(r) = req[h].rows \ {d}
      PROVE  CalendarFacts(r)'
  <2> SUFFICES ASSUME failures' = 0, NEW t \in HasStatus("active")',
                      NEW e \in DaysOf(schedules'[t].plan) \ ToCome(r)
               PROVE  Shown(t, e)'
    BY DEF CalendarFacts, ToCome
  <2>1. t = s /\ s \in HasStatus("active")
    BY <1>4 DEF HasStatus
  <2> QED
    BY <1>5, <1>6, <2>1
<1>7. AppliedExceptionsAreAccepted'
  BY <1>2, <1>4, AppliedFrame
<1>8. CASE req[h].rows = {d} /\ req' = [req EXCEPT ![h] = Idle]
  <2>1. CalendarFacts(Idle)'
    BY <1>6, <1>8, IdlePlain
  <2> QED
    BY <1>7, <1>8, <2>1, IdlePlain, PlainFactsNext, SerialStep DEF SerialRequest
<1>9. CASE \E r : /\ req' = [req EXCEPT ![h] = r]
                  /\ r.step = req[h].step /\ r.id = req[h].id
                  /\ r.rows = req[h].rows \ {d} /\ r.rows \subseteq Days
  <2>1. PICK r : /\ req' = [req EXCEPT ![h] = r]
                 /\ r.step = req[h].step /\ r.id = req[h].id
                 /\ r.rows = req[h].rows \ {d} /\ r.rows \subseteq Days
    BY <1>9
  <2>2. r.step = "write slots"
    BY <2>1 DEF WriteSlot
  <2>3. \A e \in r.rows : ~AgreedChange(e)'
    BY <1>2, <1>3, <2>1 DEF AgreedChange
  <2>4. ScheduleFacts(r)'
    BY <1>0, <1>4, <2>1, <2>2, <2>3 DEF ScheduleFacts
  <2>5. CalendarFacts(r)'
    BY <1>6, <2>1, <2>2 DEF ToCome
  <2>6. SerialRequest(r)'
    <3>1. Generating(r)
      BY <2>2 DEF Generating, GenerationSteps
    <3> QED
      BY <2>4, <2>5, <3>1, GenerationFacts DEF SerialRequest
  <2> QED
    BY <1>7, <2>1, <2>6, SerialStep
<1>10. d \in req[h].rows
  BY <1>1 DEF NextRow
<1> QED
  BY <1>1, <1>8, <1>9, <1>10, RowMoves

-----------------------------------------------------------------------------
(* ExceptionActions *)

(* A plain request that becomes another one and writes nothing. *)
LEMMA PlainQuiet ==
    ASSUME OneAtATime, SInv, IInv', NEW h \in Handlers, NEW r,
           req' = [req EXCEPT ![h] = r], Plain(req[h]), Plain(r),
           UNCHANGED <<schedules, exceptions, swaps, slots>>, UNCHANGED failures
    PROVE  SInv'
<1>1. ToCome(req[h]) \subseteq ToCome(r)
  BY IdlePlain
<1>2. ScheduleFacts(r) /\ ExceptionFacts(r) /\ SwapFacts(r) /\ HandoverFacts(r)
  BY PlainFacts
<1> QED
  BY <1>1, <1>2, QuietStep

(* An answer to an exception relies on its status alone. *)
Deciding(r) == r.step \in {"decide", "apply"}

LEMMA DecidingFacts ==
    ASSUME NEW r, Deciding(r)
    PROVE  /\ ScheduleFacts(r) /\ SwapFacts(r) /\ HandoverFacts(r)
           /\ ScheduleFacts(r)' /\ SwapFacts(r)' /\ HandoverFacts(r)'
           /\ ToCome(r) = {}
  BY DEF Deciding, ScheduleFacts, SwapFacts, HandoverFacts, ToCome, GenerationSteps,
         SlotSteps

LEMMA AskExceptionSerial ==
    ASSUME OneAtATime, SInv, IInv', NEW h \in Handlers, NEW u \in Users, NEW c \in Changes,
           CreateCustodyException(h, u, c), UNCHANGED failures
    PROVE  SInv'
<1>1. PICK r : r = [Idle EXCEPT !.step = "create exception", !.user = u, !.change = c]
  OBVIOUS
<1>2. Plain(r) /\ Plain(req[h])
  BY <1>1 DEF Plain, Idle, CreateCustodyException
<1> QED
  BY <1>1, <1>2, PlainQuiet DEF CreateCustodyException

LEMMA CreateExceptionSerial ==
    ASSUME OneAtATime, SInv, IInv', NEW h \in Handlers, CreateException(h),
           UNCHANGED failures
    PROVE  SInv'
<1>1. PICK e \in UnusedExceptions :
        exceptions' = [exceptions EXCEPT ![e] =
                        [status |-> "pending", change |-> req[h].change,
                         requester |-> req[h].user]]
  BY DEF CreateException
<1>2. AppliedExceptionsAreAccepted'
  <2> SUFFICES ASSUME NEW d \in Days, slots[d].source = "exception"
               PROVE  exceptions'[slots[d].exception].status = "accepted"
    BY DEF AppliedExceptionsAreAccepted, CreateException
  <2>1. exceptions[slots[d].exception].status = "accepted"
    BY DEF SInv, AppliedExceptionsAreAccepted
  <2>2. slots[d].exception # e
    BY <2>1 DEF UnusedExceptions
  <2> QED
    BY <1>1, <2>1, <2>2 DEF SInv, IInv, TypeOK, SlotOK, UsedException
<1>3. SchedulesGrow /\ HasStatus("active")' \subseteq HasStatus("active")
  BY SameSchedules DEF HasStatus, CreateException
<1>4. Plain(req[h])
  BY DEF Plain, CreateException
<1> QED
  BY <1>2, <1>3, <1>4, IdlePlain, PlainStep DEF CreateException, Finish

LEMMA RespondExceptionSerial ==
    ASSUME OneAtATime, SInv, IInv', NEW h \in Handlers, NEW u \in Users,
           NEW e \in ExceptionIds, NEW answer \in {"accepted", "rejected"},
           RespondToCustodyException(h, u, e, answer), UNCHANGED failures
    PROVE  SInv'
<1>1. PICK r : r = [Idle EXCEPT !.step = "decide", !.user = u, !.id = e, !.answer = answer]
  OBVIOUS
<1>2. r.step = "decide" /\ r.id = e
  BY <1>1 DEF Idle
<1>3. Deciding(r)
  BY <1>2 DEF Deciding
<1>4. ExceptionFacts(r)
  BY <1>2 DEF ExceptionFacts, RespondToCustodyException
<1>5. ToCome(req[h]) \subseteq ToCome(r)
  BY <1>3, IdlePlain, DecidingFacts DEF RespondToCustodyException
<1> QED
  BY <1>1, <1>3, <1>4, <1>5, DecidingFacts, QuietStep DEF RespondToCustodyException

LEMMA DecideSerial ==
    ASSUME OneAtATime, SInv, IInv', NEW h \in Handlers, DecideException(h),
           UNCHANGED failures
    PROVE  SInv'
<1>0. PICK e : e = req[h].id
  OBVIOUS
<1>1. UsedException(e) /\ exceptions[e].status = "pending"
  BY <1>0, DecisionKnows DEF SInv, SerialRequest, ExceptionFacts, DecideException
<1>2. /\ exceptions'[e].status = req[h].answer
      /\ \A f \in ExceptionIds \ {e} : exceptions'[f] = exceptions[f]
  BY <1>0, <1>1 DEF DecideException, SInv, IInv, TypeOK, UsedException, Exception
<1>3. AppliedExceptionsAreAccepted'
  <2> SUFFICES ASSUME NEW d \in Days, slots[d].source = "exception"
               PROVE  exceptions'[slots[d].exception].status = "accepted"
    BY DEF AppliedExceptionsAreAccepted, DecideException
  <2>1. exceptions[slots[d].exception].status = "accepted"
    BY DEF SInv, AppliedExceptionsAreAccepted
  <2>2. slots[d].exception # e /\ slots[d].exception \in ExceptionIds
    BY <1>1, <2>1 DEF SInv, IInv, SlotOK, UsedException
  <2> QED
    BY <1>2, <2>1, <2>2
<1>4. SchedulesGrow /\ HasStatus("active")' \subseteq HasStatus("active") /\ SlotsKept
  BY SameSchedules, SameSlotsKept DEF HasStatus, DecideException
<1>5. Deciding(req[h])
  BY DEF Deciding, DecideException
<1>6. ASSUME NEW r PROVE CalendarFacts(r)'
  <2>1. ToCome(req[h]) \subseteq ToCome(r)
    BY <1>5, DecidingFacts
  <2> QED
    BY <1>4, <2>1, CalendarFrame DEF SInv, IInv, SerialRequest
<1>7. CASE req' = [req EXCEPT ![h] = Idle]
  BY <1>3, <1>6, <1>7, IdlePlain, PlainFactsNext, SerialStep DEF SerialRequest
<1>8. CASE /\ req[h].answer = "accepted"
           /\ req' = [req EXCEPT ![h].step = "apply",
                                 ![h].rows = DaysOf(exceptions[req[h].id].change)]
  <2>1. PICK r : r = [req[h] EXCEPT !.step = "apply",
                                    !.rows = DaysOf(exceptions[req[h].id].change)]
    OBVIOUS
  <2>2. r.step = "apply" /\ r.id = e
    BY <1>0, <2>1, RequestType DEF Request
  <2>3. req' = [req EXCEPT ![h] = r]
    BY <1>8, <2>1
  <2>4. ExceptionFacts(r)'
    BY <1>2, <1>8, <2>2 DEF ExceptionFacts
  <2>5. Deciding(r)
    BY <2>2 DEF Deciding
  <2>6. SerialRequest(r)'
    BY <1>6, <2>4, <2>5, DecidingFacts DEF SerialRequest
  <2> QED
    BY <1>3, <2>3, <2>6, SerialStep
<1> QED
  BY <1>7, <1>8 DEF DecideException, Finish

(* A day that is written as an agreed change. *)
LEMMA ChangedSlot ==
    ASSUME SInv, NEW d \in Days, NEW row, row.source # "schedule", row.source # "unused",
           slots' = [slots EXCEPT ![d] = row]
    PROVE  SlotsKept /\ slots'[d] = row /\ \A e \in Days \ {d} : slots'[e] = slots[e]
  BY DEF SInv, IInv, TypeOK, SlotsKept, HasSlot

LEMMA ApplySerial ==
    ASSUME OneAtATime, SInv, IInv', NEW h \in Handlers, ApplyException(h),
           UNCHANGED failures
    PROVE  SInv'
<1>0. PICK x : x = req[h].id
  OBVIOUS
<1>1. PICK d \in Days :
        /\ NextRow(h, d) /\ RowWritten(h, d)
        /\ slots' = [slots EXCEPT ![d] =
              [custodian |-> exceptions[x].change.custodian,
               source |-> "exception", exception |-> x,
               schedule |-> IF HasSlot(d) THEN slots[d].schedule ELSE NoId,
               handover |-> IF HasSlot(d) THEN slots[d].handover ELSE "none"]]
  BY <1>0 DEF ApplyException
<1>2. PICK row : row =
              [custodian |-> exceptions[x].change.custodian,
               source |-> "exception", exception |-> x,
               schedule |-> IF HasSlot(d) THEN slots[d].schedule ELSE NoId,
               handover |-> IF HasSlot(d) THEN slots[d].handover ELSE "none"]
  OBVIOUS
<1>3. row.source = "exception" /\ row.exception = x
  BY <1>2
<1>4. SlotsKept /\ slots'[d] = row /\ \A e \in Days \ {d} : slots'[e] = slots[e]
  <2>1. slots' = [slots EXCEPT ![d] = row]
    BY <1>1, <1>2
  <2>2. row.source # "schedule" /\ row.source # "unused"
    BY <1>3
  <2> QED
    BY <2>1, <2>2, ChangedSlot
<1>5. exceptions[x].status = "accepted"
  BY <1>0 DEF SInv, SerialRequest, ExceptionFacts, ApplyException
<1>6. AppliedExceptionsAreAccepted'
  BY <1>3, <1>4, <1>5, AppliedFrame DEF ApplyException
<1>7. SchedulesGrow /\ HasStatus("active")' \subseteq HasStatus("active")
  BY SameSchedules DEF HasStatus, ApplyException
<1>8. Deciding(req[h])
  BY DEF Deciding, ApplyException
<1>9. ASSUME NEW r PROVE CalendarFacts(r)'
  <2>1. ToCome(req[h]) \subseteq ToCome(r)
    BY <1>8, DecidingFacts
  <2> QED
    BY <1>4, <1>7, <2>1, CalendarFrame DEF SInv, IInv, SerialRequest
<1>10. CASE req' = [req EXCEPT ![h] = Idle]
  BY <1>6, <1>9, <1>10, IdlePlain, PlainFactsNext, SerialStep DEF SerialRequest
<1>11. CASE \E r : /\ req' = [req EXCEPT ![h] = r]
                   /\ r.step = req[h].step /\ r.id = req[h].id
  <2>1. PICK r : req' = [req EXCEPT ![h] = r] /\ r.step = "apply" /\ r.id = x
    BY <1>0, <1>11 DEF ApplyException
  <2>2. ExceptionFacts(r)'
    BY <1>5, <2>1 DEF ExceptionFacts, ApplyException
  <2>3. Deciding(r)
    BY <2>1 DEF Deciding
  <2>4. SerialRequest(r)'
    BY <1>9, <2>2, <2>3, DecidingFacts DEF SerialRequest
  <2> QED
    BY <1>6, <2>1, <2>4, SerialStep
<1>12. d \in req[h].rows
  BY <1>1 DEF NextRow
<1> QED
  BY <1>1, <1>10, <1>11, <1>12, RowMoves

-----------------------------------------------------------------------------
(* SwapActions *)

LEMMA AskSwapSerial ==
    ASSUME OneAtATime, SInv, IInv', NEW h \in Handlers, NEW u \in Users,
           NEW dates \in SwapDates, CreateSwapRequest(h, u, dates), UNCHANGED failures
    PROVE  SInv'
<1>1. PICK r : r = req[h]
  OBVIOUS
<1>2. Plain(req[h]) /\ Plain(r)
  BY <1>1, IdlePlain DEF CreateSwapRequest
<1>3. req' = [req EXCEPT ![h] = r]
  BY <1>1 DEF SInv, IInv, TypeOK, CreateSwapRequest
<1>4. SchedulesGrow /\ HasStatus("active")' \subseteq HasStatus("active")
  BY SameSchedules DEF HasStatus, CreateSwapRequest
<1>5. AppliedExceptionsAreAccepted'
  BY AppliedFrame DEF CreateSwapRequest
<1> QED
  BY <1>2, <1>3, <1>4, <1>5, PlainStep DEF CreateSwapRequest

LEMMA RespondSwapSerial ==
    ASSUME OneAtATime, SInv, IInv', NEW h \in Handlers, NEW u \in Users,
           NEW w \in SwapIds, NEW answer \in SwapStatus,
           RespondToSwapRequest(h, u, w, answer), UNCHANGED failures
    PROVE  SInv'
<1>1. PICK r : r = [Idle EXCEPT !.step = IF answer = "accepted" THEN "read pending"
                                                                 ELSE "answer swap",
                                !.user = u, !.id = w, !.answer = answer]
  OBVIOUS
<1>2. Plain(r) /\ Plain(req[h])
  BY <1>1 DEF Plain, Idle, RespondToSwapRequest
<1> QED
  BY <1>1, <1>2, PlainQuiet DEF RespondToSwapRequest

LEMMA ReadPendingSerial ==
    ASSUME OneAtATime, SInv, IInv', NEW h \in Handlers, ReadPendingSchedule(h),
           UNCHANGED failures
    PROVE  SInv'
<1>1. PICK s \in ScheduleIds \cup {NoId} :
        req' = [req EXCEPT ![h].basis = s,
                           ![h].step = IF s = NoId THEN "read active" ELSE "ensure original"]
  BY DEF ReadPendingSchedule
<1>2. PICK r : r = [req[h] EXCEPT !.basis = s,
                        !.step = IF s = NoId THEN "read active" ELSE "ensure original"]
  OBVIOUS
<1>3. req' = [req EXCEPT ![h] = r]
  BY <1>1, <1>2
<1>4. r.step \in {"read active", "ensure original"}
  BY <1>2, RequestType DEF Request
<1>5. Plain(r) /\ Plain(req[h])
  BY <1>4 DEF Plain, ReadPendingSchedule
<1> QED
  BY <1>3, <1>5, PlainQuiet DEF ReadPendingSchedule

LEMMA ReadActiveSerial ==
    ASSUME OneAtATime, SInv, IInv', NEW h \in Handlers, ReadActiveSchedule(h),
           UNCHANGED failures
    PROVE  SInv'
<1>1. PICK s \in ScheduleIds \cup {NoId} :
        req' = [req EXCEPT ![h].basis = s, ![h].step = "ensure original"]
  BY DEF ReadActiveSchedule
<1>2. PICK r : r = [req[h] EXCEPT !.basis = s, !.step = "ensure original"]
  OBVIOUS
<1>3. req' = [req EXCEPT ![h] = r]
  BY <1>1, <1>2
<1>4. r.step = "ensure original"
  BY <1>2, RequestType DEF Request
<1>5. Plain(r) /\ Plain(req[h])
  BY <1>4 DEF Plain, ReadActiveSchedule
<1> QED
  BY <1>3, <1>5, PlainQuiet DEF ReadActiveSchedule

(* A request that exchanges two days relies on what it has read of them. *)
Swapping(r) == r.step \in {"ensure proposed", "create proposed", "swap slots"}

LEMMA SwappingFacts ==
    ASSUME NEW r, Swapping(r)
    PROVE  /\ ScheduleFacts(r) /\ ExceptionFacts(r) /\ HandoverFacts(r)
           /\ ScheduleFacts(r)' /\ ExceptionFacts(r)' /\ HandoverFacts(r)'
           /\ ToCome(r) = {}
  BY DEF Swapping, ScheduleFacts, ExceptionFacts, HandoverFacts, ToCome,
         GenerationSteps, SlotSteps

(* A swap request that goes on and writes nothing. *)
LEMMA SwapQuiet ==
    ASSUME OneAtATime, SInv, IInv', NEW h \in Handlers, NEW r,
           req' = [req EXCEPT ![h] = r],
           Plain(req[h]) \/ Swapping(req[h]), Plain(r) \/ Swapping(r), SwapFacts(r),
           UNCHANGED <<schedules, exceptions, swaps, slots>>, UNCHANGED failures
    PROVE  SInv'
<1>1. ToCome(req[h]) \subseteq ToCome(r)
  BY IdlePlain, SwappingFacts
<1>2. ScheduleFacts(r) /\ ExceptionFacts(r) /\ HandoverFacts(r)
  BY PlainFacts, SwappingFacts
<1> QED
  BY <1>1, <1>2, QuietStep

LEMMA EnsureOriginalSerial ==
    ASSUME OneAtATime, SInv, IInv', NEW h \in Handlers, EnsureOriginalSlot(h),
           UNCHANGED failures
    PROVE  SInv'
<1>0. PICK d : d = swaps[req[h].id].original
  OBVIOUS
<1>1. d \in Days /\ Plain(req[h])
  BY <1>0, SwapKnows DEF SInv, EnsureOriginalSlot, SwapSteps, Plain
<1>2. CASE HasSlot(d) /\ req' = [req EXCEPT ![h].original = slots[d].custodian,
                                            ![h].step = "ensure proposed"]
  <2>1. PICK r : r = [req[h] EXCEPT !.original = slots[d].custodian,
                                    !.step = "ensure proposed"]
    OBVIOUS
  <2>2. req' = [req EXCEPT ![h] = r]
    BY <1>2, <2>1
  <2>3. r.step = "ensure proposed" /\ r.id = req[h].id /\ r.original = slots[d].custodian
    BY <2>1, RequestType DEF Request
  <2>4. slots[d].custodian \in Roles
    BY <1>1, <1>2, SlotCustodian DEF SInv, IInv
  <2>5. SwapFacts(r)
    BY <1>0, <2>3, <2>4 DEF SwapFacts
  <2>6. Swapping(r)
    BY <2>3 DEF Swapping
  <2> QED
    BY <1>1, <2>2, <2>5, <2>6, SwapQuiet DEF EnsureOriginalSlot, EnsureSlot
<1>3. CASE Goto(h, "create original") \/ Goto(h, "answer swap")
  <2>1. PICK step \in {"create original", "answer swap"} : Goto(h, step)
    BY <1>3
  <2>2. PICK r : r = [req[h] EXCEPT !.step = step]
    OBVIOUS
  <2>3. req' = [req EXCEPT ![h] = r]
    BY <2>1, <2>2 DEF Goto
  <2>4. r.step = step
    BY <2>2, RequestType DEF Request
  <2>5. Plain(r)
    BY <2>1, <2>4 DEF Plain
  <2> QED
    BY <1>1, <2>3, <2>5, PlainQuiet DEF EnsureOriginalSlot, EnsureSlot
<1> QED
  BY <1>0, <1>2, <1>3 DEF EnsureOriginalSlot, EnsureSlot

LEMMA EnsureProposedSerial ==
    ASSUME OneAtATime, SInv, IInv', NEW h \in Handlers, EnsureProposedSlot(h),
           UNCHANGED failures
    PROVE  SInv'
<1>0. PICK d : d = swaps[req[h].id].proposed
  OBVIOUS
<1>1. d \in Days /\ Swapping(req[h])
  BY <1>0, SwapKnows DEF SInv, EnsureProposedSlot, SwapSteps, Swapping
<1>2. /\ req[h].original \in Roles
      /\ req[h].original = slots[swaps[req[h].id].original].custodian
  BY DEF SInv, SerialRequest, SwapFacts, EnsureProposedSlot
<1>3. CASE HasSlot(d) /\ req' = [req EXCEPT ![h].proposed = slots[d].custodian,
                                            ![h].step = "swap slots"]
  <2>1. PICK r : r = [req[h] EXCEPT !.proposed = slots[d].custodian, !.step = "swap slots"]
    OBVIOUS
  <2>2. req' = [req EXCEPT ![h] = r]
    BY <1>3, <2>1
  <2>3. /\ r.step = "swap slots" /\ r.id = req[h].id /\ r.proposed = slots[d].custodian
        /\ r.original = req[h].original
    BY <2>1, RequestType DEF Request
  <2>4. slots[d].custodian \in Roles
    BY <1>1, <1>3, SlotCustodian DEF SInv, IInv
  <2>5. SwapFacts(r)
    BY <1>0, <1>2, <2>3, <2>4 DEF SwapFacts
  <2>6. Swapping(r)
    BY <2>3 DEF Swapping
  <2> QED
    BY <1>1, <2>2, <2>5, <2>6, SwapQuiet DEF EnsureProposedSlot, EnsureSlot
<1>4. CASE Goto(h, "create proposed") \/ Goto(h, "answer swap")
  <2>1. PICK step \in {"create proposed", "answer swap"} : Goto(h, step)
    BY <1>4
  <2>2. PICK r : r = [req[h] EXCEPT !.step = step]
    OBVIOUS
  <2>3. req' = [req EXCEPT ![h] = r]
    BY <2>1, <2>2 DEF Goto
  <2>4. r.step = step /\ r.id = req[h].id /\ r.original = req[h].original
    BY <2>2, RequestType DEF Request
  <2>5. Plain(r) \/ Swapping(r)
    BY <2>1, <2>4 DEF Plain, Swapping
  <2>6. SwapFacts(r)
    BY <1>2, <2>1, <2>4 DEF SwapFacts
  <2> QED
    BY <1>1, <2>3, <2>5, <2>6, SwapQuiet DEF EnsureProposedSlot, EnsureSlot
<1> QED
  BY <1>0, <1>3, <1>4 DEF EnsureProposedSlot, EnsureSlot

(* A request that finds the day taken fails. *)
LEMMA SwapGivesUp ==
    ASSUME OneAtATime, SInv, IInv', NEW h \in Handlers,
           Plain(req[h]) \/ Swapping(req[h]), Finish(h),
           UNCHANGED <<schedules, exceptions, swaps, slots>>, UNCHANGED failures
    PROVE  SInv'
<1>1. SwapFacts(Idle)
  BY IdlePlain, PlainFacts
<1> QED
  BY <1>1, IdlePlain, SwapQuiet DEF Finish

(* A row is made for a day that has none. *)
LEMMA MadeSlot ==
    ASSUME SInv, NEW d \in Days, ~HasSlot(d), NEW row, row.source = "schedule",
           slots' = [slots EXCEPT ![d] = row]
    PROVE  /\ SlotsKept /\ slots'[d] = row
           /\ \A e \in Days \ {d} : slots'[e] = slots[e]
           /\ \A e \in Days : slots'[e].source = "exception" => slots'[e] = slots[e]
  BY DEF SInv, IInv, TypeOK, SlotsKept, HasSlot

(* A swap request that goes on and writes slots. *)
LEMMA SwapWrites ==
    ASSUME OneAtATime, SInv, IInv', NEW h \in Handlers, NEW r,
           req' = [req EXCEPT ![h] = r],
           Plain(req[h]) \/ Swapping(req[h]), Plain(r) \/ Swapping(r), SwapFacts(r)',
           UNCHANGED <<schedules, exceptions, swaps>>, UNCHANGED failures, SlotsKept,
           \A d \in Days : slots'[d].source = "exception" =>
              slots[d].source = "exception" /\ slots'[d].exception = slots[d].exception
    PROVE  SInv'
<1>1. ToCome(req[h]) \subseteq ToCome(r)
  BY IdlePlain, SwappingFacts
<1>2. SchedulesGrow /\ HasStatus("active")' \subseteq HasStatus("active")
  BY SameSchedules DEF HasStatus
<1>3. CalendarFacts(r)'
  BY <1>1, <1>2, CalendarFrame DEF SInv, IInv, SerialRequest
<1>4. ScheduleFacts(r)' /\ ExceptionFacts(r)' /\ HandoverFacts(r)'
  BY PlainFactsNext, SwappingFacts
<1>5. AppliedExceptionsAreAccepted'
  BY AppliedFrame
<1> QED
  BY <1>3, <1>4, <1>5, SerialStep DEF SerialRequest

LEMMA CreateOriginalSerial ==
    ASSUME OneAtATime, SInv, IInv', NEW h \in Handlers, CreateOriginalSlot(h),
           UNCHANGED failures
    PROVE  SInv'
<1>0. PICK d, s : d = swaps[req[h].id].original /\ s = req[h].basis
  OBVIOUS
<1>1. d \in Days /\ UsedSchedule(s)
  BY <1>0, SwapKnows DEF SInv, CreateOriginalSlot, SwapSteps, SwapKnown
<1>2. Plain(req[h])
  BY DEF CreateOriginalSlot, Plain
<1>3. CASE HasSlot(d)
  BY <1>0, <1>2, <1>3, SwapGivesUp DEF CreateOriginalSlot, CreateSlot
<1>4. CASE ~HasSlot(d)
  <2>1. PICK row : row = [custodian |-> schedules[s].plan.custodian[d],
                          source |-> "schedule", schedule |-> s,
                          exception |-> NoId, handover |-> "schedule"]
    OBVIOUS
  <2>2. PICK r : r = [req[h] EXCEPT !.original = row.custodian, !.step = "ensure proposed"]
    OBVIOUS
  <2>3. /\ slots' = [slots EXCEPT ![d] = row] /\ req' = [req EXCEPT ![h] = r]
        /\ UNCHANGED <<schedules, exceptions, swaps>>
    BY <1>0, <1>4, <2>1, <2>2 DEF CreateOriginalSlot, CreateSlot
  <2>4. r.step = "ensure proposed" /\ r.id = req[h].id /\ r.original = row.custodian
    BY <2>2, RequestType DEF Request
  <2>5. row.custodian \in Roles
    BY <1>1, <2>1, PlansAssumption DEF UsedSchedule, Schedule, PlanType
  <2>6. row.source = "schedule"
    BY <2>1
  <2>7. /\ SlotsKept /\ slots'[d] = row
        /\ \A e \in Days : slots'[e].source = "exception" => slots'[e] = slots[e]
    BY <1>1, <1>4, <2>3, <2>6, MadeSlot
  <2>8. SwapFacts(r)'
    BY <1>0, <2>3, <2>4, <2>5, <2>7 DEF SwapFacts
  <2>9. Swapping(r)
    BY <2>4 DEF Swapping
  <2> QED
    BY <1>2, <2>3, <2>7, <2>8, <2>9, SwapWrites
<1> QED
  BY <1>3, <1>4

LEMMA CreateProposedSerial ==
    ASSUME OneAtATime, SInv, IInv', NEW h \in Handlers, CreateProposedSlot(h),
           UNCHANGED failures
    PROVE  SInv'
<1>0. PICK d, s, o : /\ d = swaps[req[h].id].proposed /\ s = req[h].basis
                     /\ o = swaps[req[h].id].original
  OBVIOUS
<1>1. d \in Days /\ o \in Days /\ UsedSchedule(s)
  BY <1>0, SwapKnows DEF SInv, CreateProposedSlot, SwapSteps, SwapKnown
<1>2. Swapping(req[h])
  BY DEF CreateProposedSlot, Swapping
<1>3. req[h].original \in Roles /\ req[h].original = slots[o].custodian /\ HasSlot(o)
  BY <1>0 DEF SInv, IInv, RequestOK, SwapRequestOK, SerialRequest, SwapFacts,
     CreateProposedSlot
<1>4. CASE HasSlot(d)
  BY <1>0, <1>2, <1>4, SwapGivesUp DEF CreateProposedSlot, CreateSlot
<1>5. CASE ~HasSlot(d)
  <2>1. PICK row : row = [custodian |-> schedules[s].plan.custodian[d],
                          source |-> "schedule", schedule |-> s,
                          exception |-> NoId, handover |-> "schedule"]
    OBVIOUS
  <2>2. PICK r : r = [req[h] EXCEPT !.proposed = row.custodian, !.step = "swap slots"]
    OBVIOUS
  <2>3. /\ slots' = [slots EXCEPT ![d] = row] /\ req' = [req EXCEPT ![h] = r]
        /\ UNCHANGED <<schedules, exceptions, swaps>>
    BY <1>0, <1>5, <2>1, <2>2 DEF CreateProposedSlot, CreateSlot
  <2>4. /\ r.step = "swap slots" /\ r.id = req[h].id /\ r.proposed = row.custodian
        /\ r.original = req[h].original
    BY <2>2, RequestType DEF Request
  <2>5. row.custodian \in Roles
    BY <1>1, <2>1, PlansAssumption DEF UsedSchedule, Schedule, PlanType
  <2>6. row.source = "schedule"
    BY <2>1
  <2>7. /\ SlotsKept /\ slots'[d] = row /\ \A e \in Days \ {d} : slots'[e] = slots[e]
        /\ \A e \in Days : slots'[e].source = "exception" => slots'[e] = slots[e]
    BY <1>1, <1>5, <2>3, <2>6, MadeSlot
  <2>8. o # d /\ slots'[o] = slots[o]
    BY <1>1, <1>3, <1>5, <2>7
  <2>9. SwapFacts(r)'
    BY <1>0, <1>3, <2>3, <2>4, <2>5, <2>7, <2>8 DEF SwapFacts
  <2>10. Swapping(r)
    BY <2>4 DEF Swapping
  <2> QED
    BY <1>2, <2>3, <2>7, <2>9, <2>10, SwapWrites
<1> QED
  BY <1>4, <1>5

(* The two days after the swap: each shows the custodian of the other. *)
Exchanged(o, p) ==
    /\ o \in Days /\ p \in Days /\ HasSlot(o) /\ HasSlot(p)
    /\ slots'[o].custodian = slots[p].custodian
    /\ slots'[p].custodian = slots[o].custodian
    /\ slots'[o].source = "swap" /\ slots'[p].source = "swap"
    /\ slots'[o].handover = slots[o].handover
    /\ slots'[p].handover = slots[p].handover
    /\ \A d \in Days \ {o, p} : slots'[d] = slots[d]

LEMMA SwappedSlots ==
    ASSUME SInv, NEW h \in Handlers, SwapSlots(h)
    PROVE  Goto(h, "answer swap") /\ \E o, p : Exchanged(o, p)
<1>0. PICK o, p : o = swaps[req[h].id].original /\ p = swaps[req[h].id].proposed
  OBVIOUS
<1>1. PICK a, b : a = req[h].original /\ b = req[h].proposed
  OBVIOUS
<1>2. /\ a \in Roles /\ a = slots[o].custodian /\ HasSlot(o)
      /\ b \in Roles /\ b = slots[p].custodian /\ HasSlot(p)
  BY <1>0, <1>1 DEF SInv, IInv, RequestOK, SwapRequestOK, SerialRequest, SwapFacts, SwapSlots
<1>3. o \in Days /\ p \in Days
  BY <1>0, SwapKnows DEF SInv, SwapSlots, SwapSteps
<1>4. slots[o] \in Slot /\ slots[p] \in Slot
  BY <1>2, <1>3, SlotCustodian DEF SInv, IInv
<1>5. /\ slots' = [slots EXCEPT ![o].custodian = b, ![o].source = "swap",
                                ![p].custodian = a, ![p].source = "swap"]
      /\ Goto(h, "answer swap")
  BY <1>0, <1>1, <1>2 DEF SwapSlots, Roles
<1>6. slots \in [Days -> Slot \cup {NoSlot}]
  BY DEF SInv, IInv, TypeOK
<1>7. /\ slots'[o].custodian = b /\ slots'[p].custodian = a
      /\ slots'[o].source = "swap" /\ slots'[p].source = "swap"
      /\ slots'[o].handover = slots[o].handover
      /\ slots'[p].handover = slots[p].handover
      /\ \A d \in Days \ {o, p} : slots'[d] = slots[d]
  <2>1. PICK row, other : /\ row = [slots[o] EXCEPT !.custodian = b, !.source = "swap"]
                          /\ other = [slots[p] EXCEPT !.custodian = a, !.source = "swap"]
    OBVIOUS
  <2>2. /\ row.custodian = b /\ row.source = "swap" /\ row.handover = slots[o].handover
        /\ other.custodian = a /\ other.source = "swap"
        /\ other.handover = slots[p].handover
    BY <1>4, <2>1 DEF Slot
  <2>3. CASE o = p
    <3>1. slots' = [slots EXCEPT ![p] = [slots[p] EXCEPT !.custodian = a, !.source = "swap"]]
      BY <1>3, <1>4, <1>5, <1>6, <2>3 DEF Slot
    <3>2. slots' = [slots EXCEPT ![p] = other] /\ a = b
      BY <1>2, <2>1, <2>3, <3>1
    <3> QED
      BY <1>3, <1>6, <2>2, <2>3, <3>2
  <2>4. CASE o # p
    <3>1. slots' = [slots EXCEPT ![o] = row, ![p] = other]
      BY <1>3, <1>5, <1>6, <2>1, <2>4
    <3> QED
      BY <1>3, <1>6, <2>2, <2>4, <3>1
  <2> QED
    BY <2>3, <2>4
<1>8. Exchanged(o, p)
  BY <1>2, <1>3, <1>7 DEF Exchanged
<1> QED
  BY <1>5, <1>8

LEMMA SwapSlotsSerial ==
    ASSUME OneAtATime, SInv, IInv', NEW h \in Handlers, SwapSlots(h), UNCHANGED failures
    PROVE  SInv'
<1>0. PICK o, p : Exchanged(o, p)
  BY SwappedSlots
<1>1. /\ \A d \in Days : slots'[d] = slots[d] \/ slots'[d].source = "swap"
      /\ Goto(h, "answer swap")
  BY <1>0, SwappedSlots DEF Exchanged
<1>2. SlotsKept
  BY <1>1 DEF SlotsKept, HasSlot
<1>3. PICK r : r = [req[h] EXCEPT !.step = "answer swap"]
  OBVIOUS
<1>4. r.step = "answer swap"
  BY <1>3, RequestType DEF Request
<1>5. Plain(r) /\ Swapping(req[h]) /\ req' = [req EXCEPT ![h] = r]
  BY <1>1, <1>3, <1>4 DEF Plain, Swapping, SwapSlots, Goto
<1>6. SwapFacts(r)'
  BY <1>5, PlainFactsNext
<1> QED
  BY <1>1, <1>2, <1>5, <1>6, SwapWrites DEF SwapSlots

LEMMA AnswerSwapSerial ==
    ASSUME OneAtATime, SInv, IInv', NEW h \in Handlers, AnswerSwap(h), UNCHANGED failures
    PROVE  SInv'
<1>1. Plain(req[h])
  BY DEF Plain, AnswerSwap
<1>2. SchedulesGrow /\ HasStatus("active")' \subseteq HasStatus("active")
  BY SameSchedules DEF HasStatus, AnswerSwap
<1>3. AppliedExceptionsAreAccepted'
  BY AppliedFrame DEF AnswerSwap
<1> QED
  BY <1>1, <1>2, <1>3, IdlePlain, PlainStep DEF AnswerSwap, Finish

-----------------------------------------------------------------------------
(* SlotActions, failures, and all of them together *)

(* A handover that is being edited relies on there being no schedule. *)
Editing(r) == r.step \in SlotSteps

LEMMA EditingFacts ==
    ASSUME NEW r, Editing(r)
    PROVE  /\ ScheduleFacts(r) /\ ExceptionFacts(r) /\ SwapFacts(r)
           /\ ToCome(r) = {}
  BY DEF Editing, ScheduleFacts, ExceptionFacts, SwapFacts, ToCome, GenerationSteps,
         SlotSteps

LEMMA HandoverSerial ==
    ASSUME OneAtATime, SInv, IInv', NEW h \in Handlers, NEW u \in Users, NEW d \in Days,
           UpdateCustodySlotHandover(h, u, d), UNCHANGED failures
    PROVE  SInv'
<1>1. PICK r : r = [Idle EXCEPT !.step = "find slot", !.user = u, !.id = d,
                                !.slot = slots[d].custodian]
  OBVIOUS
<1>2. r.step = "find slot"
  BY <1>1 DEF Idle
<1>3. Editing(r)
  BY <1>2 DEF Editing, SlotSteps
<1>4. HandoverFacts(r)
  BY DEF HandoverFacts, UpdateCustodySlotHandover
<1>5. ToCome(req[h]) \subseteq ToCome(r)
  BY <1>3, IdlePlain, EditingFacts DEF UpdateCustodySlotHandover
<1> QED
  BY <1>1, <1>3, <1>4, <1>5, EditingFacts, QuietStep DEF UpdateCustodySlotHandover

LEMMA FindSerial ==
    ASSUME OneAtATime, SInv, IInv', NEW h \in Handlers, FindSlot(h), UNCHANGED failures
    PROVE  SInv'
<1>1. Editing(req[h])
  BY DEF Editing, FindSlot, SlotSteps
<1>2. CASE Finish(h)
  <2>1. ToCome(req[h]) \subseteq ToCome(Idle)
    BY <1>1, EditingFacts
  <2>2. /\ ScheduleFacts(Idle) /\ ExceptionFacts(Idle) /\ SwapFacts(Idle)
        /\ HandoverFacts(Idle)
    BY IdlePlain, PlainFacts
  <2> QED
    BY <1>2, <2>1, <2>2, QuietStep DEF FindSlot, Finish
<1>3. CASE Goto(h, "update slot")
  <2>1. PICK r : r = [req[h] EXCEPT !.step = "update slot"]
    OBVIOUS
  <2>2. r.step = "update slot"
    BY <2>1, RequestType DEF Request
  <2>3. Editing(r)
    BY <2>2 DEF Editing, SlotSteps
  <2>4. HandoverFacts(r)
    BY <1>1 DEF HandoverFacts, Editing, SInv, SerialRequest
  <2>5. ToCome(req[h]) \subseteq ToCome(r)
    BY <1>1, EditingFacts
  <2> QED
    BY <1>3, <2>1, <2>3, <2>4, <2>5, EditingFacts, QuietStep DEF FindSlot, Goto
<1> QED
  BY <1>2, <1>3 DEF FindSlot

(* What an edit leaves of the slots. *)
LEMMA EditedSlots ==
    ASSUME SInv, NEW h \in Handlers, UpdateSlot(h)
    PROVE  SlotsKept /\ \A d \in Days : slots'[d].source = slots[d].source
                                        /\ slots'[d].exception = slots[d].exception
<1>1. CASE UNCHANGED slots
  BY <1>1 DEF SlotsKept, HasSlot
<1>2. CASE req[h].slot # "deleted"
  <2>1. PICK x : x = req[h].id
    OBVIOUS
  <2>2. x \in Days /\ HasSlot(x)
    BY <1>2, <2>1
    DEF UpdateSlot, SInv, IInv, RequestOK, HandoverRequestOK, SlotSteps, Request, Held
  <2>3. slots[x] \in Slot
    BY <2>2, SlotCustodian DEF SInv, IInv
  <2>4. PICK row : row = [slots[x] EXCEPT !.handover = "manual"]
    OBVIOUS
  <2>5. /\ row.source = slots[x].source /\ row.exception = slots[x].exception
        /\ row.schedule = slots[x].schedule
    BY <2>3, <2>4 DEF Slot
  <2>6. slots' = [slots EXCEPT ![x] = row]
    BY <1>2, <2>1, <2>4 DEF UpdateSlot
  <2> QED
    BY <2>2, <2>5, <2>6 DEF SInv, IInv, TypeOK, SlotsKept, HasSlot
<1> QED
  BY <1>1, <1>2 DEF UpdateSlot

LEMMA UpdateSerial ==
    ASSUME OneAtATime, SInv, IInv', NEW h \in Handlers, UpdateSlot(h), UNCHANGED failures
    PROVE  SInv'
<1>1. SchedulesGrow /\ HasStatus("active")' \subseteq HasStatus("active")
  BY SameSchedules DEF HasStatus, UpdateSlot
<1>2. CalendarFacts(Idle)'
  <2>1. Editing(req[h])
    BY DEF Editing, UpdateSlot, SlotSteps
  <2>2. ToCome(req[h]) \subseteq ToCome(Idle)
    BY <2>1, EditingFacts
  <2> QED
    BY <1>1, <2>2, EditedSlots, CalendarFrame DEF SInv, IInv, SerialRequest
<1>3. SerialRequest(Idle)'
  BY <1>2, IdlePlain, PlainFactsNext DEF SerialRequest
<1>4. AppliedExceptionsAreAccepted'
  BY EditedSlots, AppliedFrame DEF UpdateSlot
<1> QED
  BY <1>3, <1>4, SerialStep DEF UpdateSlot, Finish

(* A request that breaks off leaves the calendar unfinished. *)
LEMMA FailSerial ==
    ASSUME OneAtATime, SInv, IInv', NEW h \in Handlers, Fail(h)
    PROVE  SInv'
<1>1. failures' # 0
  BY DEF Fail, SInv, IInv, TypeOK
<1>2. CalendarFacts(Idle)'
  BY <1>1 DEF CalendarFacts
<1>3. SerialRequest(Idle)'
  BY <1>2, IdlePlain, PlainFactsNext DEF SerialRequest
<1>4. AppliedExceptionsAreAccepted'
  BY AppliedFrame DEF Fail
<1> QED
  BY <1>3, <1>4, SerialStep DEF Fail, Finish

LEMMA StutterSerial ==
    ASSUME OneAtATime, SInv, IInv', UNCHANGED vars
    PROVE  SInv'
<1>1. ASSUME NEW h \in Handlers, NEW r, r = req[h]
      PROVE  SerialRequest(r)'
  <2>1. SerialRequest(r) /\ UNCHANGED <<schedules, exceptions, swaps, slots, failures>>
    BY <1>1 DEF SInv, vars
  <2>2. ScheduleFacts(r)' /\ ExceptionFacts(r)'
    BY <2>1 DEF SerialRequest, ScheduleFacts, ExceptionFacts, HasStatus, AgreedChange
  <2>3. SwapFacts(r)' /\ HandoverFacts(r)'
    BY <2>1 DEF SerialRequest, SwapFacts, HandoverFacts, HasStatus
  <2>4. CalendarFacts(r)'
    <3>1. SchedulesGrow /\ HasStatus("active")' \subseteq HasStatus("active") /\ SlotsKept
      BY <2>1, SameSchedules, SameSlotsKept DEF HasStatus
    <3> QED
      BY <2>1, <3>1, CalendarFrame DEF SerialRequest, SInv, IInv
  <2> QED
    BY <2>2, <2>3, <2>4 DEF SerialRequest
<1>2. AppliedExceptionsAreAccepted'
  BY DEF vars, SInv, AppliedExceptionsAreAccepted
<1>3. PICK h, r : h \in Handlers /\ r = req[h]
  BY DEF OneAtATime
<1>4. req' = [req EXCEPT ![h] = r]
  BY <1>3 DEF vars, SInv, IInv, TypeOK
<1> QED
  BY <1>1, <1>2, <1>3, <1>4, SerialStep

LEMMA ScheduleSerial ==
    ASSUME OneAtATime, SInv, IInv', NEW h \in Handlers,
           ScheduleStep(h) \/ ScheduleRequest(h), UNCHANGED failures
    PROVE  SInv'
  BY ProposeSerial, CreateScheduleSerial, RespondSerial, RejectSerial, SupersedeSerial,
     ActivateSerial, ReadProtectedSerial, DeleteSerial, WriteSerial
  DEF ScheduleStep, ScheduleRequest

LEMMA ExceptionSerial ==
    ASSUME OneAtATime, SInv, IInv', NEW h \in Handlers,
           ExceptionStep(h) \/ ExceptionRequest(h), UNCHANGED failures
    PROVE  SInv'
  BY AskExceptionSerial, CreateExceptionSerial, RespondExceptionSerial, DecideSerial,
     ApplySerial
  DEF ExceptionStep, ExceptionRequest

LEMMA SwapSerial ==
    ASSUME OneAtATime, SInv, IInv', NEW h \in Handlers,
           SwapStep(h) \/ SwapRequest(h), UNCHANGED failures
    PROVE  SInv'
  BY AskSwapSerial, RespondSwapSerial, ReadPendingSerial, ReadActiveSerial,
     EnsureOriginalSerial, CreateOriginalSerial, EnsureProposedSerial,
     CreateProposedSerial, SwapSlotsSerial, AnswerSwapSerial
  DEF SwapStep, SwapRequest

LEMMA SlotSerial ==
    ASSUME OneAtATime, SInv, IInv', NEW h \in Handlers,
           SlotStep(h) \/ SlotRequest(h), UNCHANGED failures
    PROVE  SInv'
  BY HandoverSerial, FindSerial, UpdateSerial DEF SlotStep, SlotRequest

LEMMA InitSerial == Init => SInv
<1> SUFFICES ASSUME Init PROVE SInv
  OBVIOUS
<1>1. HasStatus("active") = {}
  BY DEF Init, HasStatus, NoRow
<1>2. CalendarFacts(Idle)
  BY <1>1 DEF CalendarFacts
<1>3. \A h \in Handlers : SerialRequest(req[h])
  BY <1>2, IdlePlain, PlainFacts DEF Init, SerialRequest
<1>4. AppliedExceptionsAreAccepted
  BY DEF Init, NoSlot, AppliedExceptionsAreAccepted
<1> QED
  BY <1>3, <1>4, InitIInv DEF SInv

LEMMA NextSerial == OneAtATime /\ SInv /\ [Next]_vars => SInv'
<1> SUFFICES ASSUME OneAtATime, SInv, [Next]_vars PROVE SInv'
  OBVIOUS
<1>1. IInv'
  BY NextIInv DEF SInv
<1>2. CASE UNCHANGED vars
  BY <1>1, <1>2, StutterSerial
<1>3. ASSUME NEW h \in Handlers, NewRequest(h) PROVE SInv'
  BY <1>1, <1>3, ScheduleSerial, ExceptionSerial, SwapSerial, SlotSerial DEF NewRequest
<1>4. ASSUME NEW h \in Handlers, Step(h) PROVE SInv'
  BY <1>1, <1>4, ScheduleSerial, ExceptionSerial, SwapSerial, SlotSerial DEF Step
<1>5. ASSUME NEW h \in Handlers, Fail(h) PROVE SInv'
  BY <1>1, <1>5, FailSerial
<1> QED
  BY <1>2, <1>3, <1>4, <1>5 DEF Next

(* With one request at a time, wherever requests break off, what a request *)
(* has read stays true until it has answered.                              *)
THEOREM SerialInvariance == ASSUME OneAtATime PROVE Spec => []SInv
<1>1. Init => SInv
  BY InitSerial
<1>2. SInv /\ [Next]_vars => SInv'
  BY NextSerial
<1> QED
  BY <1>1, <1>2, PTL DEF Spec

(* A day shown as an exception's belongs to one that was accepted: no      *)
(* rejection overtakes the acceptance that is being applied.               *)
THEOREM OnlyAcceptedAreApplied ==
    ASSUME OneAtATime PROVE Spec => []AppliedExceptionsAreAccepted
<1>1. SInv => AppliedExceptionsAreAccepted
  BY DEF SInv
<1> QED
  BY <1>1, SerialInvariance, PTL

(* Between requests that have not broken off, the calendar shows every day *)
(* of the schedule in force.                                               *)
THEOREM CalendarIsComplete ==
    ASSUME OneAtATime PROVE Spec => []CalendarFollowsSchedule
<1>1. SInv => CalendarFollowsSchedule
  <2> SUFFICES ASSUME SInv, failures = 0, \A h \in Handlers : req[h].step = "idle",
                      NEW s \in HasStatus("active"), NEW d \in DaysOf(schedules[s].plan)
               PROVE  Shown(s, d)
    BY DEF CalendarFollowsSchedule, Shown
  <2>1. PICK h : h \in Handlers
    BY DEF OneAtATime
  <2>2. CalendarFacts(req[h]) /\ ToCome(req[h]) = {}
    BY <2>1, IdlePlain DEF SInv, SerialRequest
  <2> QED
    BY <2>2 DEF CalendarFacts
<1> QED
  BY <1>1, SerialInvariance, PTL

-----------------------------------------------------------------------------
(* Steps. *)

LEMMA SupersededStays ==
    ASSUME SInv, [Next]_vars, NEW s \in ScheduleIds, schedules[s].status = "superseded"
    PROVE  schedules'[s].status = "superseded"
<1>1. ASSUME NEW h \in Handlers, NEW u \in Users, NEW p \in Plans,
             ProposeCustodySchedule(h, u, p)
      PROVE  schedules'[s].status = "superseded"
  BY <1>1 DEF ProposeCustodySchedule, WithStatus
<1>2. ASSUME NEW h \in Handlers, CreateSchedule(h)
      PROVE  schedules'[s].status = "superseded"
  <2>1. PICK t \in UnusedSchedules : \E row : schedules' = [schedules EXCEPT ![t] = row]
    BY <1>2 DEF CreateSchedule
  <2>2. t # s
    BY <2>1 DEF UnusedSchedules, HasStatus
  <2> QED
    BY <2>1, <2>2 DEF SInv, IInv, TypeOK
<1>3. ASSUME NEW h \in Handlers, RejectSchedule(h) \/ Activate(h)
      PROVE  schedules'[s].status = "superseded"
  <2>1. schedules[req[h].id].status = "pendingApproval"
    BY <1>3 DEF SInv, SerialRequest, ScheduleFacts, RejectSchedule, Activate
  <2>2. req[h].id # s
    BY <2>1
  <2> QED
    BY <1>3, <2>2 DEF SInv, IInv, TypeOK, RejectSchedule, Activate
<1>4. ASSUME NEW h \in Handlers, SupersedeActive(h)
      PROVE  schedules'[s].status = "superseded"
  BY <1>4 DEF SupersedeActive, WithStatus
<1> QED
  BY <1>1, <1>2, <1>3, <1>4, SchedulesWriters

(* A schedule that was replaced or rejected never comes into force again:  *)
(* nobody else can supersede a proposal while its approval is under way.   *)
THEOREM SupersededForGood == ASSUME OneAtATime PROVE Spec => SupersededIsFinal
<1>1. SInv /\ [Next]_vars =>
        [\A s \in ScheduleIds : schedules[s].status = "superseded" =>
                                   schedules'[s].status = "superseded"]_vars
  BY SupersededStays
<1> QED
  BY <1>1, SerialInvariance, PTL DEF Spec, SupersededIsFinal

LEMMA ApprovalKeepsChanges ==
    ASSUME SInv, NEW h \in Handlers, ScheduleStep(h), NEW d \in Days, AgreedChange(d)
    PROVE  slots'[d] = slots[d]
<1>1. CASE WriteSlot(h)
  <2>1. PICK e \in Days :
          NextRow(h, e) /\ \E row : slots' = [slots EXCEPT ![e] = row]
    BY <1>1 DEF WriteSlot
  <2>2. e # d
    BY <1>1, <2>1 DEF NextRow, SInv, SerialRequest, ScheduleFacts, WriteSlot
  <2> QED
    BY <2>1, <2>2 DEF SInv, IInv, TypeOK
<1>2. CASE DeleteOwnSlots(h)
  BY <1>2 DEF DeleteOwnSlots, OwnSlots, AgreedChange
<1>3. CASE UNCHANGED slots
  BY <1>3
<1> QED
  BY <1>1, <1>2, <1>3
  DEF ScheduleStep, CreateSchedule, RejectSchedule, SupersedeActive, Activate,
      ReadProtectedDays

(* Approving a schedule leaves the days that an exception or a swap has    *)
(* changed as they are: none of them changes between the statement that    *)
(* reads the protected days and the ones that write the others.            *)
THEOREM ChangesSurvive == ASSUME OneAtATime PROVE Spec => AgreedChangesSurviveApproval
<1>1. SInv /\ [Next]_vars =>
        [\A h \in Handlers : ScheduleStep(h) =>
            \A d \in Days : AgreedChange(d) => slots'[d] = slots[d]]_vars
  BY ApprovalKeepsChanges
<1> QED
  BY <1>1, SerialInvariance, PTL DEF Spec, AgreedChangesSurviveApproval

(* One element is exchanged for another. *)
LEMMA Exchange ==
    ASSUME NEW S, IsFiniteSet(S), NEW x \in S, NEW y, y \notin S
    PROVE  Cardinality((S \ {x}) \cup {y}) = Cardinality(S)
<1>1. IsFiniteSet(S \ {x}) /\ Cardinality(S \ {x}) = Cardinality(S) - 1
  BY FS_RemoveElement
<1>2. Cardinality((S \ {x}) \cup {y}) = Cardinality(S \ {x}) + 1
  BY <1>1, FS_AddElement
<1>3. Cardinality(S) \in Nat
  BY FS_CardinalityType
<1> QED
  BY <1>1, <1>2, <1>3

LEMMA SwapBalance ==
    ASSUME SInv, NEW h \in Handlers, SwapSlots(h), NEW role
    PROVE  Cardinality(DaysWith(role))' = Cardinality(DaysWith(role))
<1>1. PICK o, p : Exchanged(o, p)
  BY SwappedSlots
<1>2. PICK S, T : S = DaysWith(role) /\ T = DaysWith(role)'
  OBVIOUS
<1>3. IsFiniteSet(S)
  <2>1. S \subseteq Days
    BY <1>2 DEF DaysWith
  <2> QED
    BY <2>1, FS_Subset, FiniteDaysAssumption
<1>4. /\ o \in Days /\ p \in Days /\ HasSlot(o) /\ HasSlot(p)
      /\ HasSlot(o)' /\ HasSlot(p)'
      /\ slots'[o].custodian = slots[p].custodian
      /\ slots'[p].custodian = slots[o].custodian
      /\ \A d \in Days \ {o, p} : slots'[d] = slots[d]
  BY <1>1 DEF Exchanged, HasSlot
<1>5. /\ o \in S <=> slots[o].custodian = role
      /\ p \in S <=> slots[p].custodian = role
      /\ o \in T <=> slots[p].custodian = role
      /\ p \in T <=> slots[o].custodian = role
      /\ \A d : d \notin {o, p} => (d \in S <=> d \in T)
  BY <1>2, <1>4 DEF DaysWith, HasSlot
<1>6. CASE o \in S <=> p \in S
  <2>1. S = T
    BY <1>5, <1>6
  <2> QED
    BY <1>2, <2>1
<1>7. CASE o \in S /\ p \notin S
  <2>1. T = (S \ {o}) \cup {p}
    BY <1>5, <1>7
  <2>2. Cardinality(T) = Cardinality(S)
    BY <1>3, <1>7, <2>1, Exchange
  <2> QED
    BY <1>2, <2>2
<1>8. CASE p \in S /\ o \notin S
  <2>1. T = (S \ {p}) \cup {o}
    BY <1>5, <1>8
  <2>2. Cardinality(T) = Cardinality(S)
    BY <1>3, <1>8, <2>1, Exchange
  <2> QED
    BY <1>2, <2>2
<1> QED
  BY <1>6, <1>7, <1>8

(* A swap exchanges two days and gives nobody an extra one: the custodians *)
(* it writes are those that the two rows still have.                       *)
THEOREM SwapsAreEven == ASSUME OneAtATime PROVE Spec => SwapsKeepTheBalance
<1>1. SInv /\ [Next]_vars =>
        [\A h \in Handlers : SwapSlots(h) =>
           \A role \in Roles :
              Cardinality(DaysWith(role))' = Cardinality(DaysWith(role))]_vars
  BY SwapBalance
<1> QED
  BY <1>1, SerialInvariance, PTL DEF Spec, SwapsKeepTheBalance

(* Only the handler of an edit makes the handover of a day manual. *)
LEMMA EditsAreUnlocked ==
    ASSUME SInv, [Next]_vars, NEW d \in Days, HasSlot(d), slots[d].handover # "manual",
           slots'[d] = [slots[d] EXCEPT !.handover = "manual"]
    PROVE  HasStatus("active") \cup HasStatus("pendingApproval") = {}
<1>1. slots[d] \in Slot
  BY SlotCustodian DEF SInv, IInv
<1>2. slots'[d].handover = "manual" /\ HasSlot(d)'
  <2>1. PICK row : row = [slots[d] EXCEPT !.handover = "manual"]
    OBVIOUS
  <2>2. row.handover = "manual" /\ row.source = slots[d].source
    BY <1>1, <2>1 DEF Slot
  <2> QED
    BY <2>1, <2>2 DEF HasSlot
<1>3. slots'[d] # slots[d]
  BY <1>2
<1>4. ASSUME NEW h \in Handlers, DeleteOwnSlots(h) PROVE FALSE
  BY <1>2, <1>3, <1>4 DEF DeleteOwnSlots, NoSlot, HasSlot
<1>5. ASSUME NEW h \in Handlers, WriteSlot(h) PROVE FALSE
  <2>1. PICK e \in Days :
          slots' = [slots EXCEPT ![e] =
                      [custodian |-> schedules[req[h].id].plan.custodian[e],
                       source |-> "schedule", schedule |-> req[h].id,
                       exception |-> NoId, handover |-> "schedule"]]
    BY <1>5 DEF WriteSlot
  <2> QED
    BY <1>2, <1>3, <2>1 DEF SInv, IInv, TypeOK
<1>6. ASSUME NEW h \in Handlers, ApplyException(h) PROVE FALSE
  <2>1. PICK e \in Days :
          slots' = [slots EXCEPT ![e] =
              [custodian |-> exceptions[req[h].id].change.custodian,
               source |-> "exception", exception |-> req[h].id,
               schedule |-> IF HasSlot(e) THEN slots[e].schedule ELSE NoId,
               handover |-> IF HasSlot(e) THEN slots[e].handover ELSE "none"]]
    BY <1>6 DEF ApplyException
  <2> QED
    BY <1>2, <1>3, <2>1 DEF SInv, IInv, TypeOK
<1>7. ASSUME NEW h \in Handlers, CreateOriginalSlot(h) \/ CreateProposedSlot(h)
      PROVE  FALSE
  <2>1. PICK e, row : ~HasSlot(e) /\ slots' = [slots EXCEPT ![e] = row]
    BY <1>3, <1>7 DEF CreateOriginalSlot, CreateProposedSlot, CreateSlot
  <2>2. slots'[d] = slots[d]
    BY <2>1 DEF SInv, IInv, TypeOK
  <2> QED
    BY <1>3, <2>2
<1>8. ASSUME NEW h \in Handlers, SwapSlots(h) PROVE FALSE
  <2>1. PICK o, p : Exchanged(o, p)
    BY <1>8, SwappedSlots
  <2> QED
    BY <1>2, <1>3, <2>1 DEF Exchanged
<1>9. ASSUME NEW h \in Handlers, UpdateSlot(h)
      PROVE  HasStatus("active") \cup HasStatus("pendingApproval") = {}
  BY <1>9 DEF UpdateSlot, SInv, SerialRequest, HandoverFacts, SlotSteps
<1> QED
  BY <1>3, <1>4, <1>5, <1>6, <1>7, <1>8, <1>9, SlotsWriters

(* The handover of a day is edited by hand only while no schedule is in    *)
(* force or proposed: none appears between the check and the update.       *)
THEOREM EditsAreChecked == ASSUME OneAtATime PROVE Spec => HandoverEditsAreUnlocked
<1>1. SInv /\ [Next]_vars =>
        [(\E d \in Days : HasSlot(d) /\ slots[d].handover # "manual"
                           /\ slots'[d] = [slots[d] EXCEPT !.handover = "manual"])
         => HasStatus("active") \cup HasStatus("pendingApproval") = {}]_vars
  BY EditsAreUnlocked
<1> QED
  BY <1>1, SerialInvariance, PTL DEF Spec, HandoverEditsAreUnlocked
=============================================================================
