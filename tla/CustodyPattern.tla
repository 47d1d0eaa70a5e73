--------------------------- MODULE CustodyPattern ---------------------------
(***************************************************************************)
(* Whom a schedule's week pattern names for a date                         *)
(* (services/custody/pattern.js and dateUtils.js).  A date is the number   *)
(* of its UTC day since 1970-01-01, so utcDayStart is the identity on it.  *)
(* A week is a function from the day of the week, 0 = Sunday as in         *)
(* getUTCDay, to a role: the request schema demands all seven days, so the *)
(* defaults for a missing day are never taken.                             *)
(***************************************************************************)
EXTENDS Integers

CONSTANT Null       \* an optional field that was not sent

Roles == {"parentA", "parentB"}

WeekDays == 0 .. 6
Week == [WeekDays -> Roles]
NoInterval == 0     \* no usable _weekInterval in weekAJson

AllParentA == [day \in WeekDays |-> "parentA"]
AllParentB == [day \in WeekDays |-> "parentB"]
Weekend == {0, 6}

(* Mutant: week B has the weekend of week A's other parent, but not his days. *)
PresetsWithOneWorkingWeek ==
    [weekAlternating |-> [weekA |-> AllParentA, weekB |-> AllParentB,
                          interval |-> NoInterval],
     everyOtherWeekend |->
        [weekA |-> [day \in WeekDays |-> IF day \in Weekend THEN "parentB"
                                                            ELSE "parentA"],
         weekB |-> AllParentA, interval |-> NoInterval]]

Presets ==
    [weekAlternating |-> [weekA |-> AllParentA, weekB |-> AllParentB,
                          interval |-> NoInterval],
     everyOtherWeekend |->
        [weekA |-> [day \in WeekDays |-> IF day \in Weekend THEN "parentB"
                                                            ELSE "parentA"],
         weekB |-> [day \in WeekDays |-> IF day \in Weekend THEN "parentA"
                                                            ELSE "parentB"],
         interval |-> NoInterval]]

(* A custom pattern keeps the weeks it is given (Mum's and Dad's week by   *)
(* default) and stores how many weeks its cycle has; the weeks sent with a *)
(* preset are ignored.                                                     *)
ResolveWeekPattern(patternType, weekA, weekB, weekInterval) ==
    IF patternType = "customWeek"
    THEN [weekA |-> IF weekA = Null THEN AllParentA ELSE weekA,
          weekB |-> IF weekB = Null THEN AllParentB ELSE weekB,
          interval |-> IF weekInterval # Null /\ weekInterval > 0
                       THEN weekInterval ELSE 2]
    ELSE Presets[patternType]

UTCDay(date) == (date + 4) % 7      \* 1970-01-01 was a Thursday

MondayOfCalendarWeek(date) ==
    date - (IF UTCDay(date) = 0 THEN 6 ELSE UTCDay(date) - 1)

(* Mutant: weeks are counted from the start date. *)
WeeksElapsed(start, date) == (date - start) \div 7

CalendarWeekIndexSince(start, date) ==
    (MondayOfCalendarWeek(date) - MondayOfCalendarWeek(start)) \div 7

(* The remainder of a negative index is only compared with 0, where the    *)
(* remainders of JavaScript and of TLA+ agree.                             *)
Cycle(schedule) ==
    IF schedule.patternType = "customWeek" /\ schedule.interval # NoInterval
    THEN schedule.interval
    ELSE IF schedule.patternType = "customWeek" /\ schedule.weekA = schedule.weekB
         THEN 1 ELSE 2

GetCustodianForDate(schedule, date) ==
    LET index == CalendarWeekIndexSince(schedule.startDate, date)
    IN IF index % Cycle(schedule) = 0 THEN schedule.weekA[UTCDay(date)]
                                      ELSE schedule.weekB[UTCDay(date)]

(* The row that proposeCustodySchedule stores. *)
StoredSchedule(patternType, start, weekA, weekB, weekInterval) ==
    LET pattern == ResolveWeekPattern(patternType, weekA, weekB, weekInterval)
    IN [patternType |-> patternType, startDate |-> start,
        weekA |-> pattern.weekA, weekB |-> pattern.weekB,
        interval |-> pattern.interval]
=============================================================================
