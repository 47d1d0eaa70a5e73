--------------------------- MODULE MC_PatternWalk ---------------------------
(***************************************************************************)
(* Every preset and a choice of custom patterns, with a start on each of   *)
(* fourteen days in a row, walked five weeks and more in both directions.  *)
(***************************************************************************)
EXTENDS PatternWalk

Starts == 4 .. 17
Midweek == [day \in WeekDays |-> IF day \in 1 .. 3 THEN "parentA" ELSE "parentB"]
Handed == [day \in WeekDays |-> IF day = 0 THEN "parentA" ELSE "parentB"]

Presented == {StoredSchedule(type, start, Midweek, Handed, 3) :
                type \in {"weekAlternating", "everyOtherWeekend"}, start \in Starts}

Custom == {StoredSchedule("customWeek", start, a, b, interval) :
             start \in Starts, a \in {Null, Midweek}, b \in {Null, Handed},
             interval \in {Null, 1, 2, 3}}

(* Rows from before the cycle's length was stored with the pattern. *)
Legacy == {[patternType |-> "customWeek", startDate |-> start, weekA |-> Midweek,
            weekB |-> b, interval |-> NoInterval] :
             start \in Starts, b \in {Midweek, Handed}}

AllSchedules == Presented \cup Custom \cup Legacy
=============================================================================
