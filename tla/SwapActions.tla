---------------------------- MODULE SwapActions -----------------------------
(***************************************************************************)
(* Swapping two days (services/calendar.js: createSwapRequest,             *)
(* respondToSwapRequest and applyAcceptedSwapToCalendar).  Unlike the      *)
(* other answers, an answer to a swap is not refused when the swap has     *)
(* been answered already, and the calendar is changed before the status.   *)
(***************************************************************************)
EXTENDS CustodyState

UnusedSwaps == {w \in SwapIds : swaps[w].status = "unused"}

(* POST /swaps: a single statement; the two dates may be the same day. *)
CreateSwapRequest(h, u, dates) ==
    /\ "swap" \in Kinds
    /\ req[h].step = "idle"
    /\ \E w \in UnusedSwaps :
         /\ \A x \in UnusedSwaps : w <= x
         /\ swaps' = [swaps EXCEPT ![w] =
                        [status |-> "pending", original |-> dates[1],
                         proposed |-> dates[2], requester |-> u]]
    /\ UNCHANGED <<schedules, exceptions, slots, req>>

(* Mutant: the requester may answer. *)
RespondToOwnSwap(h, u, w, answer) ==
    /\ "swap" \in Kinds
    /\ req[h].step = "idle"
    /\ swaps[w].status # "unused"
    /\ req' = [req EXCEPT ![h] =
                 [Idle EXCEPT !.step = IF answer = "accepted" THEN "read pending"
                                                              ELSE "answer swap",
                              !.user = u, !.id = w, !.answer = answer]]
    /\ UNCHANGED <<schedules, exceptions, swaps, slots>>

(* POST /swaps/:id/respond: any answer, to a swap in any status. *)
RespondToSwapRequest(h, u, w, answer) ==
    /\ "swap" \in Kinds
    /\ req[h].step = "idle"
    /\ swaps[w].status # "unused"           \* else swap_not_found
    /\ swaps[w].requester # u               \* else swap_not_allowed
    /\ req' = [req EXCEPT ![h] =
                 [Idle EXCEPT !.step = IF answer = "accepted" THEN "read pending"
                                                              ELSE "answer swap",
                              !.user = u, !.id = w, !.answer = answer]]
    /\ UNCHANGED <<schedules, exceptions, swaps, slots>>

(* getActiveOrPendingSchedule: the newest proposal comes before the active *)
(* schedule, and the two are read by two statements.                       *)
ReadPendingSchedule(h) ==
    /\ req[h].step = "read pending"
    /\ \E s \in ScheduleIds \cup {NoId} :
         /\ IsNewest(s, HasStatus("pendingApproval"))
         /\ req' = [req EXCEPT ![h].basis = s,
                               ![h].step = IF s = NoId THEN "read active"
                                                       ELSE "ensure original"]
    /\ UNCHANGED <<schedules, exceptions, swaps, slots>>

ReadActiveSchedule(h) ==
    /\ req[h].step = "read active"
    /\ \E s \in ScheduleIds \cup {NoId} :
         /\ IsNewest(s, HasStatus("active"))
         /\ req' = [req EXCEPT ![h].basis = s, ![h].step = "ensure original"]
    /\ UNCHANGED <<schedules, exceptions, swaps, slots>>

(* ensureCustodySlotForDay for the original or the proposed date: the slot *)
(* of the day is read; a missing one is created from the schedule read     *)
(* before, or, without a schedule, the calendar is left as it is and the   *)
(* swap is answered all the same (swap_accept_missing_slots).              *)
EnsureSlot(h, date, create, next) ==
    LET d == swaps[req[h].id][date]
    IN /\ \/ /\ HasSlot(d)
             /\ req' = [req EXCEPT ![h][date] = slots[d].custodian,
                                   ![h].step = next]
          \/ /\ ~HasSlot(d)
             /\ req[h].basis # NoId
             /\ Goto(h, create)
          \/ /\ ~HasSlot(d)
             /\ req[h].basis = NoId
             /\ Goto(h, "answer swap")
       /\ UNCHANGED <<schedules, exceptions, swaps, slots>>

(* The day may have got its slot meanwhile: the unique index refuses it. *)
CreateSlot(h, date, next) ==
    LET d == swaps[req[h].id][date]
        custodian == schedules[req[h].basis].plan.custodian[d]
    IN /\ IF HasSlot(d)
          THEN Finish(h) /\ UNCHANGED slots
          ELSE /\ slots' = [slots EXCEPT ![d] =
                     [custodian |-> custodian, source |-> "schedule",
                      schedule |-> req[h].basis, exception |-> NoId,
                      handover |-> "schedule"]]
               /\ req' = [req EXCEPT ![h][date] = custodian, ![h].step = next]
       /\ UNCHANGED <<schedules, exceptions, swaps>>

EnsureOriginalSlot(h) ==
    /\ req[h].step = "ensure original"
    /\ EnsureSlot(h, "original", "create original", "ensure proposed")

CreateOriginalSlot(h) ==
    /\ req[h].step = "create original"
    /\ CreateSlot(h, "original", "ensure proposed")

EnsureProposedSlot(h) ==
    /\ req[h].step = "ensure proposed"
    /\ EnsureSlot(h, "proposed", "create proposed", "swap slots")

CreateProposedSlot(h) ==
    /\ req[h].step = "create proposed"
    /\ CreateSlot(h, "proposed", "swap slots")

(* Mutants: the rows keep their source; the second update takes what the   *)
(* first has written.                                                      *)
SwapKeepingSource(h) ==
    LET w == swaps[req[h].id]
    IN /\ req[h].step = "swap slots"
       /\ IF "deleted" \in {req[h].original, req[h].proposed}
          THEN Finish(h) /\ UNCHANGED slots
          ELSE /\ slots' = [slots EXCEPT ![w.original].custodian = req[h].proposed,
                                         ![w.proposed].custodian = req[h].original]
               /\ Goto(h, "answer swap")
       /\ UNCHANGED <<schedules, exceptions, swaps>>
SwapOneWay(h) ==
    LET w == swaps[req[h].id]
    IN /\ req[h].step = "swap slots"
       /\ slots' = [slots EXCEPT ![w.original].custodian = req[h].proposed,
                                 ![w.original].source = "swap",
                                 ![w.proposed].custodian = req[h].proposed,
                                 ![w.proposed].source = "swap"]
       /\ Goto(h, "answer swap")
       /\ UNCHANGED <<schedules, exceptions, swaps>>

(* One transaction writes the two custodians read before, each into the    *)
(* other row; it fails as a whole when one of the two rows is gone.  When  *)
(* both dates are one day, the second update is the one that stays.        *)
SwapSlots(h) ==
    LET w == swaps[req[h].id]
    IN /\ req[h].step = "swap slots"
       /\ IF "deleted" \in {req[h].original, req[h].proposed}
          THEN Finish(h) /\ UNCHANGED slots
          ELSE /\ slots' = [slots EXCEPT
                     ![w.original].custodian = req[h].proposed,
                     ![w.original].source = "swap",
                     ![w.proposed].custodian = req[h].original,
                     ![w.proposed].source = "swap"]
               /\ Goto(h, "answer swap")
       /\ UNCHANGED <<schedules, exceptions, swaps>>

AnswerSwap(h) ==
    /\ req[h].step = "answer swap"
    /\ swaps' = [swaps EXCEPT ![req[h].id].status = req[h].answer]
    /\ Finish(h)
    /\ UNCHANGED <<schedules, exceptions, slots>>

SwapStep(h) ==
    \/ ReadPendingSchedule(h)
    \/ ReadActiveSchedule(h)
    \/ EnsureOriginalSlot(h)
    \/ CreateOriginalSlot(h)
    \/ EnsureProposedSlot(h)
    \/ CreateProposedSlot(h)
    \/ SwapSlots(h)
    \/ AnswerSwap(h)

SwapRequest(h) ==
    \E u \in Users :
       \/ \E dates \in SwapDates : CreateSwapRequest(h, u, dates)
       \/ \E w \in SwapIds, answer \in SwapStatus :
             RespondToSwapRequest(h, u, w, answer)
=============================================================================
