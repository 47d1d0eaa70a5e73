-------------------------- MODULE ScheduleActions ---------------------------
(***************************************************************************)
(* Proposing a custody schedule and answering a proposal                   *)
(* (services/custody/scheduleActions.js), and the generation of the days'  *)
(* slots from an approved schedule (services/custody/slotGeneration.js).   *)
(* The message that ends each request is left out: notifyScheduleThread    *)
(* swallows its errors and touches no custody table.                       *)
(***************************************************************************)
EXTENDS CustodyState

UnusedSchedules == HasStatus("unused")

(* Mutant: the open proposal is forgotten. *)
ProposeBesideOpenProposal(h, u, p) ==
    /\ "schedule" \in Kinds
    /\ req[h].step = "idle"
    /\ p.first <= p.last
    /\ Cardinality(UnusedSchedules) > Cardinality(At("create schedule"))
    /\ req' = [req EXCEPT ![h] =
                 [Idle EXCEPT !.step = "create schedule", !.user = u, !.plan = p]]
    /\ UNCHANGED <<schedules, exceptions, swaps, slots>>

(* POST /schedules: an open proposal, whosever it is, is superseded... *)
ProposeCustodySchedule(h, u, p) ==
    /\ "schedule" \in Kinds
    /\ req[h].step = "idle"
    /\ p.first <= p.last                    \* else invalid_date_range
    /\ Cardinality(UnusedSchedules) > Cardinality(At("create schedule"))
    /\ schedules' = WithStatus("pendingApproval", "superseded")
    /\ req' = [req EXCEPT ![h] =
                 [Idle EXCEPT !.step = "create schedule", !.user = u, !.plan = p]]
    /\ UNCHANGED <<exceptions, swaps, slots>>

(* ...and then, in a statement of its own, the new one is created. *)
CreateSchedule(h) ==
    /\ req[h].step = "create schedule"
    /\ \E s \in UnusedSchedules :
         /\ \A t \in UnusedSchedules : s <= t
         /\ schedules' = [schedules EXCEPT ![s] =
                            [status |-> "pendingApproval", plan |-> req[h].plan,
                             proposedBy |-> req[h].user, approvedBy |-> Null]]
    /\ Finish(h)
    /\ UNCHANGED <<exceptions, swaps, slots>>

(* What a handler keeps of an answer to schedule s. *)
AnswerOf(h, u, s, approve) ==
    req' = [req EXCEPT ![h] =
              [Idle EXCEPT !.step = IF approve THEN "supersede active"
                                               ELSE "reject",
                           !.user = u, !.id = s]]

(* Mutants: the proposer may answer; a decided schedule can be answered. *)
RespondToOwnSchedule(h, u, s, approve) ==
    /\ "schedule" \in Kinds
    /\ req[h].step = "idle"
    /\ schedules[s].status = "pendingApproval"
    /\ AnswerOf(h, u, s, approve)
    /\ UNCHANGED <<schedules, exceptions, swaps, slots>>
RespondToDecidedSchedule(h, u, s, approve) ==
    /\ "schedule" \in Kinds
    /\ req[h].step = "idle"
    /\ schedules[s].status # "unused"
    /\ schedules[s].proposedBy # u
    /\ AnswerOf(h, u, s, approve)
    /\ UNCHANGED <<schedules, exceptions, swaps, slots>>

(* POST /schedules/:id/respond: the status and the proposer are checked on *)
(* the row read here; the later statements do not look at them again.      *)
RespondToCustodySchedule(h, u, s, approve) ==
    /\ "schedule" \in Kinds
    /\ req[h].step = "idle"
    /\ schedules[s].status = "pendingApproval"  \* else schedule_not_pending
    /\ schedules[s].proposedBy # u              \* else schedule_not_allowed
    /\ AnswerOf(h, u, s, approve)
    /\ UNCHANGED <<schedules, exceptions, swaps, slots>>

(* Mutant: a rejected schedule gets the status of a rejected exception. *)
RejectAsException(h) ==
    /\ req[h].step = "reject"
    /\ schedules' = [schedules EXCEPT ![req[h].id].status = "rejected"]
    /\ Finish(h)
    /\ UNCHANGED <<exceptions, swaps, slots>>

RejectSchedule(h) ==
    /\ req[h].step = "reject"
    /\ schedules' = [schedules EXCEPT ![req[h].id].status = "superseded"]
    /\ Finish(h)
    /\ UNCHANGED <<exceptions, swaps, slots>>

SupersedeActive(h) ==
    /\ req[h].step = "supersede active"
    /\ schedules' = WithStatus("active", "superseded")
    /\ Goto(h, "activate")
    /\ UNCHANGED <<exceptions, swaps, slots>>

Activate(h) ==
    /\ req[h].step = "activate"
    /\ schedules' = [schedules EXCEPT ![req[h].id] =
                        [@ EXCEPT !.status = "active", !.approvedBy = req[h].user]]
    /\ Goto(h, "read protected")
    /\ UNCHANGED <<exceptions, swaps, slots>>

-----------------------------------------------------------------------------
(* generateSlotsFromSchedule, called with the schedule just activated *)

(* Mutant: the end date is taken as exclusive. *)
GeneratedBeforeTheEnd(h) ==
    {d \in Days : /\ schedules[req[h].id].plan.first <= d
                  /\ d < schedules[req[h].id].plan.last}
Generated(h) == DaysOf(schedules[req[h].id].plan)

(* Mutants: no day is protected; every day that has a slot is. *)
ProtectNoDay(h) ==
    /\ req[h].step = "read protected"
    /\ req' = [req EXCEPT ![h].step = "delete own", ![h].rows = Generated(h)]
    /\ UNCHANGED <<schedules, exceptions, swaps, slots>>
ProtectEverySlot(h) ==
    /\ req[h].step = "read protected"
    /\ req' = [req EXCEPT ![h].step = "delete own",
                          ![h].rows = {d \in Generated(h) : ~HasSlot(d)}]
    /\ UNCHANGED <<schedules, exceptions, swaps, slots>>

(* The days that an exception or a swap has changed are left out... *)
ReadProtectedDays(h) ==
    /\ req[h].step = "read protected"
    /\ req' = [req EXCEPT ![h].step = "delete own",
                          ![h].rows = {d \in Generated(h) : ~AgreedChange(d)}]
    /\ UNCHANGED <<schedules, exceptions, swaps, slots>>

OwnSlots(h) ==
    {d \in Generated(h) : slots[d].source = "schedule"
                          /\ slots[d].schedule = req[h].id}

(* Another request that has read one of the deleted rows holds a dead id. *)
Forget(r, gone) ==
    [r EXCEPT
       !.original = IF @ \in Roles /\ swaps[r.id].original \in gone
                    THEN "deleted" ELSE @,
       !.proposed = IF @ \in Roles /\ swaps[r.id].proposed \in gone
                    THEN "deleted" ELSE @,
       !.slot = IF @ \in Roles /\ r.id \in gone THEN "deleted" ELSE @]

(* ...then the schedule's own slots are deleted... *)
DeleteOwnSlots(h) ==
    /\ req[h].step = "delete own"
    /\ slots' = [d \in Days |-> IF d \in OwnSlots(h) THEN NoSlot ELSE slots[d]]
    /\ req' = [g \in Handlers |->
                 IF g # h THEN Forget(req[g], OwnSlots(h))
                 ELSE IF req[h].rows = {} THEN Idle
                 ELSE [req[h] EXCEPT !.step = "write slots"]]
    /\ UNCHANGED <<schedules, exceptions, swaps>>

(* Mutant: the upsert leaves the source of an existing row as it is. *)
WriteSlotKeepingSource(h) ==
    /\ req[h].step = "write slots"
    /\ \E d \in Days :
         /\ NextRow(h, d)
         /\ slots' = [slots EXCEPT ![d] =
              [custodian |-> schedules[req[h].id].plan.custodian[d],
               source |-> IF HasSlot(d) THEN slots[d].source ELSE "schedule",
               schedule |-> req[h].id,
               exception |-> IF HasSlot(d) THEN slots[d].exception ELSE NoId,
               handover |-> "schedule"]]
         /\ RowWritten(h, d)
    /\ UNCHANGED <<schedules, exceptions, swaps>>

(* ...and the days that were not protected are upserted one by one,        *)
(* whatever their rows hold by then.                                       *)
WriteSlot(h) ==
    /\ req[h].step = "write slots"
    /\ \E d \in Days :
         /\ NextRow(h, d)
         /\ slots' = [slots EXCEPT ![d] =
                        [custodian |-> schedules[req[h].id].plan.custodian[d],
                         source |-> "schedule", schedule |-> req[h].id,
                         exception |-> NoId, handover |-> "schedule"]]
         /\ RowWritten(h, d)
    /\ UNCHANGED <<schedules, exceptions, swaps>>

ScheduleStep(h) ==
    \/ CreateSchedule(h)
    \/ RejectSchedule(h)
    \/ SupersedeActive(h)
    \/ Activate(h)
    \/ ReadProtectedDays(h)
    \/ DeleteOwnSlots(h)
    \/ WriteSlot(h)

ScheduleRequest(h) ==
    \E u \in Users :
       \/ \E p \in Plans : ProposeCustodySchedule(h, u, p)
       \/ \E s \in ScheduleIds, approve \in BOOLEAN :
             RespondToCustodySchedule(h, u, s, approve)
=============================================================================
