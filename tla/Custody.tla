------------------------------- MODULE Custody ------------------------------
(***************************************************************************)
(* The custody calendar: the handlers of ScheduleActions, ExceptionActions,*)
(* SwapActions and SlotActions interleaved, statement by statement, over   *)
(* the tables of CustodyState; and what they promise the two parents.      *)
(***************************************************************************)
EXTENDS ScheduleActions, ExceptionActions, SwapActions, SlotActions

(* The next statement of the request that handler h is serving. *)
Step(h) ==
    /\ \/ ScheduleStep(h)
       \/ ExceptionStep(h)
       \/ SwapStep(h)
       \/ SlotStep(h)
    /\ UNCHANGED failures

(* A parent's request reaches a free handler. *)
NewRequest(h) ==
    /\ \/ ScheduleRequest(h)
       \/ ExceptionRequest(h)
       \/ SwapRequest(h)
       \/ SlotRequest(h)
    /\ UNCHANGED failures

Next == \E h \in Handlers : NewRequest(h) \/ Step(h) \/ Fail(h)

Spec == Init /\ [][Next]_vars

(* A request in flight is carried on by the event loop; nothing obliges a  *)
(* parent to send one.                                                     *)
Fairness == \A h \in Handlers : WF_vars(Step(h))
FairSpec == Spec /\ Fairness

-----------------------------------------------------------------------------
(* What holds however requests overlap and wherever they break off.        *)

ApprovedByTheOther(s) ==
    schedules[s].approvedBy \in Users \ {schedules[s].proposedBy}

(* A schedule comes into force only with the consent of the parent who did *)
(* not propose it, and a day takes its custodian from a schedule nobody    *)
(* approved only where a swap was asked for (ensureCustodySlotForDay reads *)
(* proposals too).                                                         *)
DaysAreAgreed ==
    /\ \A s \in HasStatus("active") : ApprovedByTheOther(s)
    /\ \A d \in Days :
         HasSlot(d) /\ slots[d].schedule # NoId =>
            \/ ApprovedByTheOther(slots[d].schedule)
            \/ \E w \in SwapIds : /\ swaps[w].status # "unused"
                                  /\ d \in {swaps[w].original, swaps[w].proposed}

(* The source a slot shows is true: a day shown as the schedule's has the  *)
(* custodian that this schedule names, a day shown as an exception's the   *)
(* custodian of this exception, which has been answered.                   *)
SlotsCarryTheirSource ==
    \A d \in Days :
       /\ slots[d].source = "schedule" =>
            /\ slots[d].schedule # NoId
            /\ slots[d].custodian =
                 schedules[slots[d].schedule].plan.custodian[d]
       /\ slots[d].source = "exception" =>
            LET e == exceptions[slots[d].exception]
            IN /\ e.status \in {"accepted", "rejected"}
               /\ slots[d].custodian = e.change.custodian
               /\ d \in DaysOf(e.change)

(* The parent on whose request handler h acts. *)
Requester(h) ==
    CASE req[h].step \in {"supersede active", "activate", "read protected",
                          "delete own", "write slots"}
           -> schedules[req[h].id].proposedBy
      [] req[h].step = "apply" -> exceptions[req[h].id].requester
      [] req[h].step \in SwapSteps -> swaps[req[h].id].requester
      [] OTHER -> req[h].user

(* No parent changes the calendar alone: a day gets, changes or loses its  *)
(* custodian only by a request in which one parent answers the other's.    *)
NoUnilateralChange ==
    [][\A d \in Days :
          slots'[d] # slots[d] /\ (HasSlot(d) => slots'[d].source = "unused"
                                      \/ slots'[d].custodian # slots[d].custodian)
          => \E h \in Handlers : req'[h] # req[h] /\ req[h].user # Requester(h)]_vars

(* An answer finds the question open in one statement and is written in a  *)
(* later one, whatever has been answered in between.  At most one request  *)
(* less than are in flight can be late in this way, as one answered in     *)
(* time: once the requests in flight have ended, an answer stands, and one *)
(* at a time it stands at once.  (A swap may be answered again: its status *)
(* is not checked.)                                                        *)
LateAnswers ==
    {h \in Handlers :
       \/ /\ req[h].step \in {"reject", "supersede active", "activate"}
          /\ schedules[req[h].id].status # "pendingApproval"
       \/ /\ req[h].step = "decide"
          /\ exceptions[req[h].id].status # "pending"}
LateAnswersBounded == Cardinality(LateAnswers) <= Cardinality(Handlers) - 1

(* How far the two-statement updates can drift: there are never more       *)
(* schedules in force, nor more open proposals, than requests in flight.   *)
(* With one request at a time this is "at most one".                       *)
SchedulesBounded ==
    /\ Cardinality(HasStatus("active")) <= Cardinality(Handlers)
    /\ Cardinality(HasStatus("pendingApproval")) <= Cardinality(Handlers)

-----------------------------------------------------------------------------
(* What holds only while requests do not overlap (one handler), wherever   *)
(* they break off.                                                         *)

(* A schedule that was replaced or rejected never comes into force again.  *)
SupersededIsFinal ==
    [][\A s \in ScheduleIds : schedules[s].status = "superseded" =>
                                 schedules'[s].status = "superseded"]_vars

(* Approving a schedule leaves the days that an exception or a swap has    *)
(* changed as they are.                                                    *)
AgreedChangesSurviveApproval ==
    [][\A h \in Handlers : ScheduleStep(h) =>
          \A d \in Days : AgreedChange(d) => slots'[d] = slots[d]]_vars

(* A day shown as an exception's belongs to an accepted one. *)
AppliedExceptionsAreAccepted ==
    \A d \in Days : slots[d].source = "exception" =>
       exceptions[slots[d].exception].status = "accepted"

(* A swap exchanges days and gives nobody an extra one. *)
DaysWith(role) == {d \in Days : HasSlot(d) /\ slots[d].custodian = role}
SwapsKeepTheBalance ==
    [][\A h \in Handlers : SwapSlots(h) =>
          \A role \in Roles :
             Cardinality(DaysWith(role))' = Cardinality(DaysWith(role))]_vars

(* The handover of a day is edited by hand only while no schedule is in    *)
(* force or proposed.                                                      *)
HandoverEditsAreUnlocked ==
    [][(\E d \in Days : HasSlot(d) /\ slots[d].handover # "manual"
                        /\ slots'[d] = [slots[d] EXCEPT !.handover = "manual"])
       => HasStatus("active") \cup HasStatus("pendingApproval") = {}]_vars

-----------------------------------------------------------------------------
(* While requests neither overlap nor break off: between them, every day   *)
(* of the schedule in force is on the calendar, and it is that schedule's  *)
(* unless an exception or a swap has changed it.                           *)
CalendarFollowsSchedule ==
    failures = 0 /\ (\A h \in Handlers : req[h].step = "idle") =>
       \A s \in HasStatus("active") : \A d \in DaysOf(schedules[s].plan) :
          /\ HasSlot(d)
          /\ slots[d].source = "schedule" => slots[d].schedule = s

(* While no statement fails, a schedule that comes into force eventually   *)
(* has all its days on the calendar, also when approvals overlap.          *)
Covered(s) == schedules[s].status # "unused"
              /\ \A d \in DaysOf(schedules[s].plan) : HasSlot(d)
ApprovedScheduleIsGenerated ==
    \A s \in ScheduleIds : schedules[s].status = "active" ~> []Covered(s)
=============================================================================
