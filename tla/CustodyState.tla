---------------------------- MODULE CustodyState ----------------------------
(***************************************************************************)
(* The custody tables of one workspace and the requests being handled on   *)
(* them.                                                                   *)
(*                                                                         *)
(* The server is one Node process: a handler runs without interruption     *)
(* between two `await`s, and every `await prisma...` is one SQL statement  *)
(* (or one $transaction) that PostgreSQL makes atomic.  So an action of    *)
(* these modules is one statement with the code up to the next one, and    *)
(* what a handler has read is kept in its own record until it uses it.     *)
(***************************************************************************)
EXTENDS Integers, FiniteSets

CONSTANTS
    Users,          \* the parent accounts of the workspace
    Handlers,       \* bound: how many requests can be in flight at once
    Days,           \* bound: the calendar days looked at
    Plans,          \* bound: the schedules that parents propose
    Changes,        \* bound: the custody exceptions that parents ask for
    SwapDates,      \* bound: the pairs of days that parents ask to swap
    MaxSchedules,   \* bound: rows of CustodySchedule
    MaxExceptions,  \* bound: rows of CustodyException
    MaxSwaps,       \* bound: rows of SwapRequest
    Kinds,          \* bound: the kinds of request that parents send
    Null,           \* a column or a variable that is not set
    MaxFailures     \* bound: how many requests break off in mid-air

Roles == {"parentA", "parentB"}

(* A plan is a schedule as proposed: its first and last day (the horizon   *)
(* of generated days when it has no endDate) and whom its week pattern     *)
(* names for every day, the days outside its range included.               *)
PlanType == [first : Days, last : Days, custodian : [Days -> Roles]]
ChangeType == [first : Days, last : Days, custodian : Roles]

ASSUME DaysAssumption == Days \subseteq Int
ASSUME FiniteDaysAssumption == IsFiniteSet(Days)
ASSUME PlansAssumption == Plans \subseteq PlanType
ASSUME ChangesAssumption == Changes \subseteq ChangeType
ASSUME SwapDatesAssumption == SwapDates \subseteq Days \X Days
ASSUME BoundsAssumption ==
    /\ MaxSchedules \in Nat /\ MaxExceptions \in Nat /\ MaxSwaps \in Nat
    /\ MaxFailures \in Nat
ASSUME HandlersAssumption == IsFiniteSet(Handlers) /\ Handlers # {}
ASSUME NullAssumption == Null \notin Users

ScheduleIds == 1 .. MaxSchedules    \* in the order of createdAt
ExceptionIds == 1 .. MaxExceptions
SwapIds == 1 .. MaxSwaps
NoId == 0

DaysOf(p) == {d \in Days : p.first <= d /\ d <= p.last}

VARIABLES
    schedules,      \* table CustodySchedule
    exceptions,     \* table CustodyException
    swaps,          \* table SwapRequest
    slots,          \* table CustodySlot, unique by day
    req,            \* what each handler is doing
    failures        \* how many requests have broken off so far

vars == <<schedules, exceptions, swaps, slots, req, failures>>

-----------------------------------------------------------------------------
(* The rows. *)

ScheduleStatus == {"pendingApproval", "active", "superseded"}
Schedule == [status : ScheduleStatus, plan : Plans,
             proposedBy : Users, approvedBy : Users \cup {Null}]

Exception == [status : {"pending", "accepted", "rejected"}, change : Changes,
              requester : Users]

SwapStatus == {"pending", "accepted", "rejected", "counterProposed"}
Swap == [status : SwapStatus, original : Days, proposed : Days,
         requester : Users]

NoRow == [status |-> "unused"]

(* scheduleId and exceptionId are NoId when null; handover says where the  *)
(* handover time and place of the day come from.                           *)
Slot == [custodian : Roles, source : {"schedule", "exception", "swap"},
         schedule : ScheduleIds \cup {NoId},
         exception : ExceptionIds \cup {NoId},
         handover : {"none", "schedule", "manual"}]
NoSlot == [source |-> "unused"]

(* One slot row per day holds by @@unique([workspaceId, date]). *)
HasSlot(d) == slots[d].source # "unused"
AgreedChange(d) == slots[d].source \in {"exception", "swap"}

HasStatus(status) == {s \in ScheduleIds : schedules[s].status = status}

(* findFirst with orderBy createdAt desc: the newest row of S, or NoId.    *)
IsNewest(s, S) == IF S = {} THEN s = NoId
                  ELSE s \in S /\ \A t \in S : t <= s

(* updateMany({ where: { status: from }, data: { status: to } }) *)
WithStatus(from, to) ==
    [s \in ScheduleIds |-> IF schedules[s].status = from
                           THEN [schedules[s] EXCEPT !.status = to]
                           ELSE schedules[s]]

-----------------------------------------------------------------------------
(* The requests. *)

ScheduleSteps == {"create schedule", "reject", "supersede active", "activate",
                  "read protected", "delete own", "write slots"}
ExceptionSteps == {"create exception", "decide", "apply"}
SwapSteps == {"read pending", "read active", "ensure original",
              "create original", "ensure proposed", "create proposed",
              "swap slots", "answer swap"}
SlotSteps == {"find slot", "update slot"}

(* What a handler knows of a slot row: nothing yet, the custodian it read  *)
(* in it, or that the row it read has been deleted since (an update by its *)
(* id then fails).                                                         *)
Held == Roles \cup {"unread", "deleted"}

Request ==
    [step : {"idle"} \cup ScheduleSteps \cup ExceptionSteps
                     \cup SwapSteps \cup SlotSteps,
     user : Users \cup {Null},          \* req.user
     id : Int,                          \* the row (or the day) it is about
     plan : Plans \cup {Null},          \* the body of a proposal
     change : Changes \cup {Null},      \* the body of an exception request
     answer : SwapStatus \cup {"none"}, \* the answer to a swap or exception
     rows : SUBSET Days,                \* days it has still to write
     basis : ScheduleIds \cup {NoId},   \* the schedule it read
     original : Held, proposed : Held, slot : Held]

Idle == [step |-> "idle", user |-> Null, id |-> NoId, plan |-> Null,
         change |-> Null, answer |-> "none", rows |-> {}, basis |-> NoId,
         original |-> "unread", proposed |-> "unread", slot |-> "unread"]

At(step) == {h \in Handlers : req[h].step = step}

(* The handler goes on to the given step; or it answers and is done: with  *)
(* a result, or with an error thrown by a check or by a statement.         *)
Goto(h, step) == req' = [req EXCEPT ![h].step = step]
Finish(h) == req' = [req EXCEPT ![h] = Idle]

(* The handler writes its remaining rows in the order of the days. *)
NextRow(h, d) == d \in req[h].rows /\ \A e \in req[h].rows : d <= e
RowWritten(h, d) ==
    IF req[h].rows = {d} THEN Finish(h)
                         ELSE req' = [req EXCEPT ![h].rows = @ \ {d}]

(* Any await can throw: the statement fails, the connection is lost, or    *)
(* the process stops.  What was written stays written.                     *)
Fail(h) ==
    /\ failures < MaxFailures
    /\ req[h].step # "idle"
    /\ Finish(h)
    /\ failures' = failures + 1
    /\ UNCHANGED <<schedules, exceptions, swaps, slots>>

Init ==
    /\ schedules = [s \in ScheduleIds |-> NoRow]
    /\ exceptions = [e \in ExceptionIds |-> NoRow]
    /\ swaps = [w \in SwapIds |-> NoRow]
    /\ slots = [d \in Days |-> NoSlot]
    /\ req = [h \in Handlers |-> Idle]
    /\ failures = 0

(* The rows and requests of the code: whatever the handlers store has the  *)
(* columns and the values of the schema.                                   *)
TypeOK ==
    /\ schedules \in [ScheduleIds -> Schedule \cup {NoRow}]
    /\ exceptions \in [ExceptionIds -> Exception \cup {NoRow}]
    /\ swaps \in [SwapIds -> Swap \cup {NoRow}]
    /\ slots \in [Days -> Slot \cup {NoSlot}]
    /\ req \in [Handlers -> Request]
    /\ failures \in Nat
=============================================================================
