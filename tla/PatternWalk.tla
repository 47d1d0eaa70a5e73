----------------------------- MODULE PatternWalk ----------------------------
(***************************************************************************)
(* A walk through the calendar, day by day and in both directions from a   *)
(* schedule's start, that counts weekdays and weeks by hand: the reference *)
(* that the date arithmetic of CustodyPattern is compared with.            *)
(***************************************************************************)
EXTENDS CustodyPattern, FiniteSets

CONSTANTS
    Schedules,  \* bound: the stored schedules looked at
    Reach       \* bound: how many days the walk goes from the start

ASSUME ReachAssumption == Reach \in Nat

(* The rows that proposeCustodySchedule stores, now and in the past: a     *)
(* preset has its own weeks, a custom pattern any.                         *)
PatternTypes == {"weekAlternating", "everyOtherWeekend", "customWeek"}
Stored(s) ==
    /\ s.patternType \in PatternTypes /\ s.startDate \in Int
    /\ s.weekA \in Week /\ s.weekB \in Week /\ s.interval \in Nat
    /\ s.patternType # "customWeek" =>
          /\ s.weekA = Presets[s.patternType].weekA
          /\ s.weekB = Presets[s.patternType].weekB

ASSUME SchedulesAssumption == \A s \in Schedules : Stored(s)

VARIABLES
    schedule,   \* the row
    date,       \* the day reached
    weekday,    \* 0 = Monday .. 6 = Sunday, counted
    week        \* weeks of the cycle since the week of the start, counted

vars == <<schedule, date, weekday, week>>

AMonday == 4        \* 1970-01-05

(* The number of weeks in the schedule's cycle, as the client sent it: a   *)
(* preset and a custom pattern alternate weekly unless told otherwise, and *)
(* two equal weeks are one.                                                *)
Weeks(s) ==
    IF s.patternType = "customWeek" /\ s.interval > 0 THEN s.interval
    ELSE IF s.weekA = s.weekB THEN 1 ELSE 2

Init ==
    /\ schedule \in Schedules
    /\ date = schedule.startDate
    /\ weekday = (date - AMonday) % 7
    /\ week = 0

Tomorrow ==
    /\ date < schedule.startDate + Reach
    /\ date' = date + 1
    /\ weekday' = (weekday + 1) % 7
    /\ week' = IF weekday = 6 THEN (week + 1) % Weeks(schedule) ELSE week
    /\ UNCHANGED schedule

Yesterday ==
    /\ date > schedule.startDate - Reach
    /\ date' = date - 1
    /\ weekday' = IF weekday = 0 THEN 6 ELSE weekday - 1
    /\ week' = IF weekday # 0 THEN week
               ELSE IF week = 0 THEN Weeks(schedule) - 1 ELSE week - 1
    /\ UNCHANGED schedule

Next == Tomorrow \/ Yesterday

Spec == Init /\ [][Next]_vars

-----------------------------------------------------------------------------

(* The first week of every cycle is week A, all its other weeks are week   *)
(* B, before the start of the schedule too (the days a swap asks for may   *)
(* lie there).                                                             *)
CustodianFollowsTheWalk ==
    LET pattern == IF week = 0 THEN schedule.weekA ELSE schedule.weekB
    IN GetCustodianForDate(schedule, date) = pattern[(weekday + 1) % 7]

(* Both presets give each parent seven of any fourteen days in a row, and  *)
(* weekends by turns.                                                      *)
DaysOfA(first, n) ==
    {d \in first .. first + n - 1 : GetCustodianForDate(schedule, d) = "parentA"}
PresetsAreFair ==
    schedule.patternType # "customWeek" =>
       /\ Cardinality(DaysOfA(date, 14)) = 7
       /\ weekday \in {5, 6} => GetCustodianForDate(schedule, date + 7) #
                                   GetCustodianForDate(schedule, date)
=============================================================================
