-------------------------- MODULE ExceptionActions --------------------------
(***************************************************************************)
(* Asking for a custody exception (another custodian for a range of days)  *)
(* and answering it (services/custody/exceptionActions.js).                *)
(***************************************************************************)
EXTENDS CustodyState

UnusedExceptions == {e \in ExceptionIds : exceptions[e].status = "unused"}

(* POST /exceptions: there must be an active schedule at this moment. *)
CreateCustodyException(h, u, c) ==
    /\ "exception" \in Kinds
    /\ req[h].step = "idle"
    /\ HasStatus("active") # {}             \* else schedule_not_active
    /\ c.first <= c.last                    \* else invalid_date_range
    /\ Cardinality(UnusedExceptions) > Cardinality(At("create exception"))
    /\ req' = [req EXCEPT ![h] =
                 [Idle EXCEPT !.step = "create exception", !.user = u,
                              !.change = c]]
    /\ UNCHANGED <<schedules, exceptions, swaps, slots>>

CreateException(h) ==
    /\ req[h].step = "create exception"
    /\ \E e \in UnusedExceptions :
         /\ \A f \in UnusedExceptions : e <= f
         /\ exceptions' = [exceptions EXCEPT ![e] =
                             [status |-> "pending", change |-> req[h].change,
                              requester |-> req[h].user]]
    /\ Finish(h)
    /\ UNCHANGED <<schedules, swaps, slots>>

(* Mutant: the requester may answer. *)
RespondToOwnException(h, u, e, answer) ==
    /\ "exception" \in Kinds
    /\ req[h].step = "idle"
    /\ exceptions[e].status = "pending"
    /\ req' = [req EXCEPT ![h] =
                 [Idle EXCEPT !.step = "decide", !.user = u, !.id = e,
                              !.answer = answer]]
    /\ UNCHANGED <<schedules, exceptions, swaps, slots>>

(* POST /exceptions/:id/respond *)
RespondToCustodyException(h, u, e, answer) ==
    /\ "exception" \in Kinds
    /\ req[h].step = "idle"
    /\ exceptions[e].status = "pending"     \* else exception_not_pending
    /\ exceptions[e].requester # u          \* else exception_not_allowed
    /\ req' = [req EXCEPT ![h] =
                 [Idle EXCEPT !.step = "decide", !.user = u, !.id = e,
                              !.answer = answer]]
    /\ UNCHANGED <<schedules, exceptions, swaps, slots>>

(* Mutant: a rejected exception is applied too. *)
DecideAndApply(h) ==
    /\ req[h].step = "decide"
    /\ exceptions' = [exceptions EXCEPT ![req[h].id].status = req[h].answer]
    /\ req' = [req EXCEPT ![h].step = "apply",
                          ![h].rows = DaysOf(exceptions[req[h].id].change)]
    /\ UNCHANGED <<schedules, swaps, slots>>

(* The status is written first, whatever it is by then... *)
DecideException(h) ==
    /\ req[h].step = "decide"
    /\ exceptions' = [exceptions EXCEPT ![req[h].id].status = req[h].answer]
    /\ LET days == DaysOf(exceptions[req[h].id].change)
       IN IF req[h].answer = "accepted" /\ days # {}
          THEN req' = [req EXCEPT ![h].step = "apply", ![h].rows = days]
          ELSE Finish(h)
    /\ UNCHANGED <<schedules, swaps, slots>>

(* ...and an accepted exception is then applied day by day.  The schedule  *)
(* and the handover of a row that exists are kept.                         *)
ApplyException(h) ==
    /\ req[h].step = "apply"
    /\ \E d \in Days :
         /\ NextRow(h, d)
         /\ slots' = [slots EXCEPT ![d] =
              [custodian |-> exceptions[req[h].id].change.custodian,
               source |-> "exception", exception |-> req[h].id,
               schedule |-> IF HasSlot(d) THEN slots[d].schedule ELSE NoId,
               handover |-> IF HasSlot(d) THEN slots[d].handover ELSE "none"]]
         /\ RowWritten(h, d)
    /\ UNCHANGED <<schedules, exceptions, swaps>>

ExceptionStep(h) ==
    \/ CreateException(h)
    \/ DecideException(h)
    \/ ApplyException(h)

ExceptionRequest(h) ==
    \E u \in Users :
       \/ \E c \in Changes : CreateCustodyException(h, u, c)
       \/ \E e \in ExceptionIds, answer \in {"accepted", "rejected"} :
             RespondToCustodyException(h, u, e, answer)
=============================================================================
