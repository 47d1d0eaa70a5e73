----------------------------- MODULE MC_Custody -----------------------------
(***************************************************************************)
(* Small instances of Custody.  Two calendar days, the Sunday and the      *)
(* Monday between which a weekly pattern changes hands (1970-01-11 and     *)
(* 1970-01-12), and two plans that disagree on both of them.               *)
(***************************************************************************)
EXTENDS Custody, TLC

Pattern == INSTANCE CustodyPattern

CONSTANTS mum, dad, h1, h2

Sunday == 10
Monday == 11
TwoDays == {Sunday, Monday}
Parents == {mum, dad}

Alternating(start) ==
    Pattern!StoredSchedule("weekAlternating", start, Null, Null, Null)

PlanFrom(start, end) ==
    [first |-> start, last |-> end,
     custodian |-> [d \in TwoDays |->
                      Pattern!GetCustodianForDate(Alternating(start), d)]]

(* The first has no endDate, so its last day is the horizon's; the second  *)
(* names the other parent on both days; the third ends before it starts.   *)
FromSunday == PlanFrom(Sunday, Monday)
FromMonday == PlanFrom(Monday, Monday)
BackToFront == PlanFrom(Monday, Sunday)
TwoPlans == {FromSunday, FromMonday}
ThreePlans == {FromSunday, FromMonday, BackToFront}

BothDays == [first |-> Sunday, last |-> Monday, custodian |-> "parentB"]
MondayOnly == [first |-> Monday, last |-> Monday, custodian |-> "parentA"]
OneChange == {BothDays}
TwoChanges == {BothDays, MondayOnly}
NoChanges == {}

Schedules == {"schedule"}
WithExceptions == {"schedule", "exception"}
WithSwaps == {"schedule", "swap", "handover"}
AllKinds == {"schedule", "exception", "swap", "handover"}

Across == {<<Sunday, Monday>>}
AcrossAndSame == {<<Sunday, Monday>>, <<Monday, Monday>>}
NoSwaps == {}

OneHandler == {h1}
TwoHandlers == {h1, h2}

(* Neither the parents nor the handlers are told apart by the model: the   *)
(* roles that a plan names are not tied to the accounts.                   *)
Symmetry == Permutations(Parents) \cup Permutations(Handlers)
=============================================================================
