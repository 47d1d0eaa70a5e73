---------------------------- MODULE SlotActions -----------------------------
(***************************************************************************)
(* Editing the handover time and place of one day                          *)
(* (services/custody/slotActions.js).                                      *)
(***************************************************************************)
EXTENDS CustodyState

(* Mutant: an open proposal does not lock the handovers. *)
UpdateUnlessActive(h, u, d) ==
    /\ "handover" \in Kinds
    /\ req[h].step = "idle"
    /\ HasStatus("active") = {}
    /\ HasSlot(d)
    /\ req' = [req EXCEPT ![h] =
                 [Idle EXCEPT !.step = "find slot", !.user = u, !.id = d,
                              !.slot = slots[d].custodian]]
    /\ UNCHANGED <<schedules, exceptions, swaps, slots>>

(* PATCH /slots/:id: refused while a schedule is active or proposed. *)
UpdateCustodySlotHandover(h, u, d) ==
    /\ "handover" \in Kinds
    /\ req[h].step = "idle"
    /\ HasStatus("active") \cup HasStatus("pendingApproval") = {}
    /\ HasSlot(d)                           \* the client names the day's row
    /\ req' = [req EXCEPT ![h] =
                 [Idle EXCEPT !.step = "find slot", !.user = u, !.id = d,
                              !.slot = slots[d].custodian]]
    /\ UNCHANGED <<schedules, exceptions, swaps, slots>>

FindSlot(h) ==
    /\ req[h].step = "find slot"
    /\ IF req[h].slot = "deleted"
       THEN Finish(h)                       \* slot_not_found
       ELSE Goto(h, "update slot")
    /\ UNCHANGED <<schedules, exceptions, swaps, slots>>

UpdateSlot(h) ==
    /\ req[h].step = "update slot"
    /\ IF req[h].slot = "deleted"
       THEN UNCHANGED slots
       ELSE slots' = [slots EXCEPT ![req[h].id].handover = "manual"]
    /\ Finish(h)
    /\ UNCHANGED <<schedules, exceptions, swaps>>

SlotStep(h) ==
    \/ FindSlot(h)
    \/ UpdateSlot(h)

SlotRequest(h) ==
    \E u \in Users, d \in Days : UpdateCustodySlotHandover(h, u, d)
=============================================================================
