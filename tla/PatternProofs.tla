--------------------------- MODULE PatternProofs ----------------------------
(***************************************************************************)
(* Proofs about the pattern arithmetic, for every start of a schedule,     *)
(* every length of its cycle and every date, however far from the start.   *)
(***************************************************************************)
EXTENDS PatternWalk, FiniteSetTheorems, FunctionTheorems, TLAPS

-----------------------------------------------------------------------------
(* Division with remainder. *)

LEMMA Remainder ==
    ASSUME NEW i \in Int, NEW c \in Nat, c > 0
    PROVE  /\ i % c \in 0 .. c - 1 /\ i \div c \in Int
           /\ i = c * (i \div c) + (i % c)
  OBVIOUS

LEMMA RemainderIsUnique ==
    ASSUME NEW c \in Nat, c > 0, NEW q \in Int, NEW r \in 0 .. c - 1
    PROVE  (c * q + r) % c = r
  OBVIOUS

(* A counter that starts anew after c - 1 counts the remainder, upwards... *)
LEMMA CountsUp ==
    ASSUME NEW i \in Int, NEW c \in Nat, c > 0
    PROVE  (i + 1) % c = ((i % c) + 1) % c
<1>1. PICK q \in Int, r \in 0 .. c - 1 : i = c * q + r /\ r = i % c
  BY Remainder
<1>2. CASE r + 1 < c
  <2>1. i + 1 = c * q + (r + 1) /\ r + 1 \in 0 .. c - 1
    BY <1>1, <1>2
  <2>2. r + 1 = c * 0 + (r + 1)
    OBVIOUS
  <2> QED
    BY <1>1, <2>1, <2>2, RemainderIsUnique
<1>3. CASE r + 1 = c
  <2>1. i + 1 = c * (q + 1) + 0 /\ r + 1 = c * 1 + 0 /\ 0 \in 0 .. c - 1
    BY <1>1, <1>3
  <2> QED
    BY <1>1, <2>1, RemainderIsUnique
<1> QED
  BY <1>1, <1>2, <1>3

(* ...and downwards. *)
LEMMA CountsDown ==
    ASSUME NEW i \in Int, NEW c \in Nat, c > 0
    PROVE  (i - 1) % c = IF i % c = 0 THEN c - 1 ELSE (i % c) - 1
<1>1. PICK q \in Int, r \in 0 .. c - 1 : i = c * q + r /\ r = i % c
  BY Remainder
<1>2. CASE r = 0
  <2>1. i - 1 = c * (q - 1) + (c - 1) /\ c - 1 \in 0 .. c - 1
    BY <1>1, <1>2
  <2> QED
    BY <1>1, <1>2, <2>1, RemainderIsUnique
<1>3. CASE r # 0
  <2>1. i - 1 = c * q + (r - 1) /\ r - 1 \in 0 .. c - 1
    BY <1>1, <1>3
  <2> QED
    BY <1>1, <1>3, <2>1, RemainderIsUnique
<1> QED
  BY <1>2, <1>3

-----------------------------------------------------------------------------
(* The calendar: weekdays and weeks by date. *)

WeekdayOf(d) == (d - AMonday) % 7       \* 0 = Monday
WeekOf(d) == (d - AMonday) \div 7       \* weeks since that Monday

LEMMA WeekIsCut ==
    ASSUME NEW d \in Int
    PROVE  /\ WeekdayOf(d) \in 0 .. 6 /\ WeekOf(d) \in Int
           /\ UTCDay(d) = (WeekdayOf(d) + 1) % 7 /\ UTCDay(d) \in WeekDays
           /\ MondayOfCalendarWeek(d) = 7 * WeekOf(d) + AMonday
           /\ d = 7 * WeekOf(d) + WeekdayOf(d) + AMonday
  BY DEF UTCDay, MondayOfCalendarWeek, AMonday, WeekdayOf, WeekOf, WeekDays

LEMMA IndexCountsWeeks ==
    ASSUME NEW s \in Int, NEW d \in Int
    PROVE  /\ CalendarWeekIndexSince(s, d) = WeekOf(d) - WeekOf(s)
           /\ CalendarWeekIndexSince(s, d) \in Int
<1>1. PICK a \in Int, b \in Int : a = WeekOf(s) /\ b = WeekOf(d)
  BY WeekIsCut
<1>2. MondayOfCalendarWeek(d) - MondayOfCalendarWeek(s) = 7 * (b - a)
  BY <1>1, WeekIsCut DEF AMonday
<1>3. (7 * (b - a)) \div 7 = b - a
  OBVIOUS
<1> QED
  BY <1>1, <1>2, <1>3 DEF CalendarWeekIndexSince

LEMMA DayAfter ==
    ASSUME NEW d \in Int
    PROVE  /\ WeekdayOf(d + 1) = (WeekdayOf(d) + 1) % 7
           /\ WeekOf(d + 1) = IF WeekdayOf(d) = 6 THEN WeekOf(d) + 1 ELSE WeekOf(d)
  BY DEF WeekdayOf, WeekOf, AMonday

LEMMA DayBefore ==
    ASSUME NEW d \in Int
    PROVE  /\ WeekdayOf(d - 1) = IF WeekdayOf(d) = 0 THEN 6 ELSE WeekdayOf(d) - 1
           /\ WeekOf(d - 1) = IF WeekdayOf(d) = 0 THEN WeekOf(d) - 1 ELSE WeekOf(d)
  BY DEF WeekdayOf, WeekOf, AMonday

LEMMA AWeekLater ==
    ASSUME NEW d \in Int
    PROVE  /\ UTCDay(d + 7) = UTCDay(d)
           /\ WeekOf(d + 7) = WeekOf(d) + 1
  BY DEF UTCDay, WeekOf, AMonday

-----------------------------------------------------------------------------
(* The rows. *)

(* What proposeCustodySchedule stores is a row as SchedulesAssumption asks *)
(* for, whatever the request body holds. *)
LEMMA ProposedRowsAreStored ==
    ASSUME NEW type \in PatternTypes, NEW start \in Int, NEW weekA \in Week \cup {Null},
           NEW weekB \in Week \cup {Null}, NEW interval \in Int \cup {Null}
    PROVE  Stored(StoredSchedule(type, start, weekA, weekB, interval))
<1>1. AllParentA \in Week /\ AllParentB \in Week
  BY DEF AllParentA, AllParentB, Week, Roles
<1>2. PICK row : row = StoredSchedule(type, start, weekA, weekB, interval)
  OBVIOUS
<1>3. row.patternType = type /\ row.startDate = start
  BY <1>2 DEF StoredSchedule
<1>4. CASE type = "customWeek"
  <2>1. /\ row.weekA = IF weekA = Null THEN AllParentA ELSE weekA
        /\ row.weekB = IF weekB = Null THEN AllParentB ELSE weekB
        /\ row.interval = IF interval # Null /\ interval > 0 THEN interval ELSE 2
    BY <1>2, <1>4 DEF StoredSchedule, ResolveWeekPattern
  <2>2. row.weekA \in Week /\ row.weekB \in Week
    BY <1>1, <2>1
  <2>3. row.interval \in Nat
    BY <2>1
  <2> QED
    BY <1>2, <1>3, <1>4, <2>2, <2>3 DEF Stored
<1>5. CASE type # "customWeek"
  <2>1. /\ row.weekA = Presets[type].weekA /\ row.weekB = Presets[type].weekB
        /\ row.interval = Presets[type].interval
    BY <1>2, <1>5 DEF StoredSchedule, ResolveWeekPattern
  <2>2. /\ Presets[type].weekA \in Week /\ Presets[type].weekB \in Week
        /\ Presets[type].interval = 0
    <3>1. CASE type = "weekAlternating"
      BY <1>1, <3>1 DEF Presets, NoInterval
    <3>2. CASE type = "everyOtherWeekend"
      BY <3>2 DEF Presets, NoInterval, Week, Roles
    <3> QED
      BY <1>5, <3>1, <3>2 DEF PatternTypes
  <2> QED
    BY <1>2, <1>3, <2>1, <2>2 DEF Stored
<1> QED
  BY <1>4, <1>5

(* Both presets have two weeks, of which each is the other's opposite. *)
LEMMA PresetsAreOpposite ==
    ASSUME NEW s, Stored(s), s.patternType # "customWeek"
    PROVE  /\ \A day \in WeekDays : s.weekA[day] \in {"parentA", "parentB"}
           /\ \A day \in WeekDays : s.weekB[day] \in {"parentA", "parentB"}
           /\ \A day \in WeekDays : s.weekA[day] # s.weekB[day]
           /\ s.weekA # s.weekB
<1>1. s.patternType \in {"weekAlternating", "everyOtherWeekend"}
  BY DEF Stored, PatternTypes
<1>2. CASE s.patternType = "weekAlternating"
  <2>1. s.weekA = AllParentA /\ s.weekB = AllParentB
    BY <1>2 DEF Stored, Presets
  <2>2. \A day \in WeekDays : s.weekA[day] = "parentA" /\ s.weekB[day] = "parentB"
    BY <2>1 DEF AllParentA, AllParentB
  <2>3. 0 \in WeekDays
    BY DEF WeekDays
  <2> QED
    BY <2>2, <2>3
<1>3. CASE s.patternType = "everyOtherWeekend"
  <2>1. /\ s.weekA = [day \in WeekDays |-> IF day \in Weekend THEN "parentB" ELSE "parentA"]
        /\ s.weekB = [day \in WeekDays |-> IF day \in Weekend THEN "parentA" ELSE "parentB"]
    BY <1>3 DEF Stored, Presets
  <2>2. \A day \in WeekDays :
          IF day \in Weekend THEN s.weekA[day] = "parentB" /\ s.weekB[day] = "parentA"
                             ELSE s.weekA[day] = "parentA" /\ s.weekB[day] = "parentB"
    BY <2>1
  <2>3. 0 \in WeekDays
    BY DEF WeekDays
  <2> QED
    BY <2>2, <2>3
<1> QED
  BY <1>1, <1>2, <1>3

LEMMA CycleIsWeeks ==
    ASSUME NEW s, Stored(s)
    PROVE  Cycle(s) = Weeks(s) /\ Weeks(s) \in Nat /\ Weeks(s) > 0
<1>1. CASE s.patternType = "customWeek"
  BY <1>1 DEF Stored, Cycle, Weeks, NoInterval
<1>2. CASE s.patternType # "customWeek"
  BY <1>2, PresetsAreOpposite DEF Cycle, Weeks
<1> QED
  BY <1>1, <1>2

-----------------------------------------------------------------------------
(* The walk counts what the arithmetic computes. *)

WalkInv ==
    /\ schedule \in Schedules /\ date \in Int
    /\ weekday = WeekdayOf(date)
    /\ week = CalendarWeekIndexSince(schedule.startDate, date) % Weeks(schedule)

LEMMA WalkInit == Init => WalkInv
<1> SUFFICES ASSUME Init PROVE WalkInv
  OBVIOUS
<1>1. Stored(schedule) /\ schedule \in Schedules /\ schedule.startDate \in Int
  BY SchedulesAssumption DEF Init, Stored
<1>2. PICK c \in Nat : c = Weeks(schedule) /\ c > 0
  BY <1>1, CycleIsWeeks
<1>3. CalendarWeekIndexSince(schedule.startDate, date) = 0
  <2>1. PICK d \in Int : d = schedule.startDate /\ d = date
    BY <1>1 DEF Init
  <2>2. CalendarWeekIndexSince(d, d) = WeekOf(d) - WeekOf(d) /\ WeekOf(d) \in Int
    BY IndexCountsWeeks, WeekIsCut
  <2> QED
    BY <2>1, <2>2
<1>4. 0 % c = 0
  BY <1>2
<1> QED
  BY <1>1, <1>2, <1>3, <1>4 DEF Init, WalkInv, WeekdayOf

LEMMA WalkNext == WalkInv /\ [Next]_vars => WalkInv'
<1> SUFFICES ASSUME WalkInv, [Next]_vars PROVE WalkInv'
  OBVIOUS
<1>1. CASE UNCHANGED vars
  BY <1>1 DEF WalkInv, vars
<1>2. PICK s : /\ s = schedule /\ s \in Schedules
               /\ s.startDate \in Int /\ Weeks(s) \in Nat /\ Weeks(s) > 0
  <2>1. schedule \in Schedules /\ Stored(schedule)
    BY SchedulesAssumption DEF WalkInv
  <2> QED
    BY <2>1, CycleIsWeeks DEF Stored
<1>3. PICK c \in Nat : c = Weeks(s) /\ c > 0
  BY <1>2
<1>4. PICK d \in Int : d = date
  BY DEF WalkInv
<1>5. PICK i \in Int : i = CalendarWeekIndexSince(s.startDate, d)
  BY <1>2, IndexCountsWeeks
<1>6. weekday = WeekdayOf(d) /\ week = i % c /\ i % c \in 0 .. c - 1 /\ 0 % c = 0
  BY <1>2, <1>3, <1>4, <1>5 DEF WalkInv
<1>7. CASE Tomorrow
  <2>1. /\ date' = d + 1 /\ weekday' = (weekday + 1) % 7 /\ schedule' = s
        /\ week' = IF weekday = 6 THEN (week + 1) % c ELSE week
    BY <1>2, <1>3, <1>4, <1>7 DEF Tomorrow
  <2>2. CalendarWeekIndexSince(s.startDate, d + 1) = IF weekday = 6 THEN i + 1 ELSE i
    <3>1. PICK a \in Int, b \in Int : a = WeekOf(s.startDate) /\ b = WeekOf(d)
      BY <1>2, WeekIsCut
    <3>2. i = b - a /\ CalendarWeekIndexSince(s.startDate, d + 1) = WeekOf(d + 1) - a
      <4>1. PICK e \in Int : e = d + 1
        OBVIOUS
      <4>2. /\ CalendarWeekIndexSince(s.startDate, d) = WeekOf(d) - WeekOf(s.startDate)
            /\ CalendarWeekIndexSince(s.startDate, e) = WeekOf(e) - WeekOf(s.startDate)
        BY <1>2, IndexCountsWeeks
      <4> QED
        BY <1>5, <3>1, <4>1, <4>2
    <3>3. WeekOf(d + 1) = IF weekday = 6 THEN b + 1 ELSE b
      BY <1>6, <3>1, DayAfter
    <3> QED
      BY <3>2, <3>3
  <2>3. week' = CalendarWeekIndexSince(s.startDate, d + 1) % c
    BY <1>3, <1>6, <2>1, <2>2, CountsUp
  <2>4. weekday' = WeekdayOf(d + 1)
    BY <1>6, <2>1, DayAfter
  <2> QED
    BY <1>2, <1>3, <2>1, <2>3, <2>4 DEF WalkInv, Weeks
<1>8. CASE Yesterday
  <2>1. /\ date' = d - 1 /\ schedule' = s
        /\ weekday' = IF weekday = 0 THEN 6 ELSE weekday - 1
        /\ week' = IF weekday # 0 THEN week ELSE IF week = 0 THEN c - 1 ELSE week - 1
    BY <1>2, <1>3, <1>4, <1>8 DEF Yesterday
  <2>2. CalendarWeekIndexSince(s.startDate, d - 1) = IF weekday = 0 THEN i - 1 ELSE i
    <3>1. PICK a \in Int, b \in Int : a = WeekOf(s.startDate) /\ b = WeekOf(d)
      BY <1>2, WeekIsCut
    <3>2. i = b - a /\ CalendarWeekIndexSince(s.startDate, d - 1) = WeekOf(d - 1) - a
      <4>1. PICK e \in Int : e = d - 1
        OBVIOUS
      <4>2. /\ CalendarWeekIndexSince(s.startDate, d) = WeekOf(d) - WeekOf(s.startDate)
            /\ CalendarWeekIndexSince(s.startDate, e) = WeekOf(e) - WeekOf(s.startDate)
        BY <1>2, IndexCountsWeeks
      <4> QED
        BY <1>5, <3>1, <4>1, <4>2
    <3>3. WeekOf(d - 1) = IF weekday = 0 THEN b - 1 ELSE b
      BY <1>6, <3>1, DayBefore
    <3> QED
      BY <3>2, <3>3
  <2>3. week' = CalendarWeekIndexSince(s.startDate, d - 1) % c
    BY <1>3, <1>6, <2>1, <2>2, CountsDown
  <2>4. weekday' = WeekdayOf(d - 1)
    BY <1>6, <2>1, DayBefore
  <2> QED
    BY <1>2, <1>3, <2>1, <2>3, <2>4 DEF WalkInv, Weeks
<1> QED
  BY <1>1, <1>7, <1>8 DEF Next

(* getCustodianForDate names, for every date before and after the start of *)
(* a schedule and for every length of its cycle, the parent whom counting  *)
(* days and weeks one by one arrives at: the first week of each cycle is   *)
(* week A, all others week B.                                              *)
THEOREM ArithmeticFollowsTheWalk == Spec => []CustodianFollowsTheWalk
<1>1. WalkInv => CustodianFollowsTheWalk
  <2> SUFFICES ASSUME WalkInv PROVE CustodianFollowsTheWalk
    OBVIOUS
  <2>1. UTCDay(date) = (weekday + 1) % 7
    BY WeekIsCut DEF WalkInv
  <2>2. Cycle(schedule) = Weeks(schedule)
    BY SchedulesAssumption, CycleIsWeeks DEF WalkInv
  <2> QED
    BY <2>1, <2>2 DEF WalkInv, CustodianFollowsTheWalk, GetCustodianForDate
<1> QED
  BY <1>1, WalkInit, WalkNext, PTL DEF Spec

-----------------------------------------------------------------------------
(* Fairness of the presets. *)

(* A week later it is the other parent's turn. *)
LEMMA TurnsAlternate ==
    ASSUME NEW s, Stored(s), s.patternType # "customWeek", NEW d \in Int
    PROVE  /\ GetCustodianForDate(s, d) \in {"parentA", "parentB"}
           /\ GetCustodianForDate(s, d + 7) # GetCustodianForDate(s, d)
<1>1. PICK i \in Int : /\ i = CalendarWeekIndexSince(s.startDate, d)
                       /\ i + 1 = CalendarWeekIndexSince(s.startDate, d + 7)
  <2>1. s.startDate \in Int
    BY DEF Stored
  <2>2. PICK a \in Int, b \in Int : a = WeekOf(s.startDate) /\ b = WeekOf(d)
    BY <2>1, WeekIsCut
  <2>3. CalendarWeekIndexSince(s.startDate, d) = b - a
    BY <2>1, <2>2, IndexCountsWeeks
  <2>4. CalendarWeekIndexSince(s.startDate, d + 7) = (b + 1) - a
    <3>1. PICK e \in Int : e = d + 7
      OBVIOUS
    <3>2. CalendarWeekIndexSince(s.startDate, e) = WeekOf(e) - WeekOf(s.startDate)
      BY <2>1, IndexCountsWeeks
    <3>3. WeekOf(e) = b + 1
      BY <2>2, <3>1, AWeekLater
    <3> QED
      BY <2>2, <3>1, <3>2, <3>3
  <2> QED
    BY <2>3, <2>4
<1>2. PICK day \in WeekDays : day = UTCDay(d) /\ day = UTCDay(d + 7)
  BY WeekIsCut, AWeekLater
<1>3. Cycle(s) = 2
  BY DEF Cycle
<1>4. i % 2 = 0 <=> (i + 1) % 2 # 0
  OBVIOUS
<1> QED
  BY <1>1, <1>2, <1>3, <1>4, PresetsAreOpposite DEF GetCustodianForDate

LEMMA HalfOfAFortnight ==
    ASSUME NEW s, Stored(s), s.patternType # "customWeek", NEW d \in Int
    PROVE  Cardinality({e \in d .. d + 14 - 1 : GetCustodianForDate(s, e) = "parentA"}) = 7
<1> DEFINE Days == {e \in d .. d + 14 - 1 : GetCustodianForDate(s, e) = "parentA"}
           A(e) == GetCustodianForDate(s, e) = "parentA"
           f == [k \in 0 .. 6 |-> IF A(d + k) THEN d + k ELSE d + k + 7]
<1>1. \A e \in Int : A(e + 7) <=> ~A(e)
  BY TurnsAlternate
<1> HIDE DEF A
<1>2. ASSUME NEW k \in 0 .. 6
      PROVE  /\ f[k] \in d .. d + 14 - 1 /\ A(f[k])
             /\ f[k] \in {d + k, d + k + 7}
  BY <1>1
<1>3. \A e \in Days : e \in Int /\ A(e) /\ e \in d .. d + 13
  BY DEF A
<1>4. f \in [0 .. 6 -> Days]
  BY <1>2 DEF A
<1>5. \A j, k \in 0 .. 6 : f[j] = f[k] => j = k
  <2>1. ASSUME NEW j \in 0 .. 6, NEW k \in 0 .. 6, f[j] = f[k]
        PROVE  j = k
    <3>1. f[j] \in {d + j, d + j + 7} /\ f[k] \in {d + k, d + k + 7}
      BY <1>2
    <3> HIDE DEF f
    <3> QED
      BY <2>1, <3>1
  <2> QED
    BY <2>1
<1>6. \A e \in Days : \E k \in 0 .. 6 : f[k] = e
  <2>1. ASSUME NEW e \in Days, e < d + 7
        PROVE  \E k \in 0 .. 6 : f[k] = e
    <3>1. PICK k \in 0 .. 6 : e = d + k
      BY <1>3, <2>1
    <3> QED
      BY <1>3, <3>1
  <2>2. ASSUME NEW e \in Days, ~(e < d + 7)
        PROVE  \E k \in 0 .. 6 : f[k] = e
    <3>1. PICK k \in 0 .. 6 : e = d + k + 7
      <4>1. e - d - 7 \in 0 .. 6 /\ e = d + (e - d - 7) + 7
        BY <1>3, <2>2
      <4> QED
        BY <4>1
    <3>2. ~A(d + k)
      BY <1>1, <1>3, <3>1
    <3> QED
      BY <3>1, <3>2
  <2> QED
    BY <2>1, <2>2
<1> HIDE DEF f
<1>7. f \in Bijection(0 .. 6, Days)
  BY <1>4, <1>5, <1>6, Fun_IsBij
<1>8. IsFiniteSet(0 .. 6) /\ Cardinality(0 .. 6) = 7
  <2>1. 0 \in Int /\ 6 \in Int
    OBVIOUS
  <2>2. IsFiniteSet(0 .. 6) /\ Cardinality(0 .. 6) = IF 0 > 6 THEN 0 ELSE 6 - 0 + 1
    BY <2>1, FS_Interval, Zenon
  <2> QED
    BY <2>2
<1>9. Cardinality(Days) = 7
  BY <1>7, <1>8, FS_Bijection DEF ExistsBijection
<1> QED
  BY <1>9

(* Whichever preset a family chooses and whatever day it starts on, each   *)
(* parent has seven of any fourteen days in a row, and the weekends go by  *)
(* turns, for all time. *)
THEOREM PresetsDivideTimeEqually == Spec => []PresetsAreFair
<1>1. WalkInv => PresetsAreFair
  <2> SUFFICES ASSUME WalkInv, schedule.patternType # "customWeek"
               PROVE  /\ Cardinality(DaysOfA(date, 14)) = 7
                      /\ weekday \in {5, 6} => GetCustodianForDate(schedule, date + 7) #
                                                  GetCustodianForDate(schedule, date)
    BY DEF PresetsAreFair
  <2>1. Stored(schedule) /\ date \in Int
    BY SchedulesAssumption DEF WalkInv
  <2> QED
    BY <2>1, TurnsAlternate, HalfOfAFortnight DEF DaysOfA
<1> QED
  BY <1>1, WalkInit, WalkNext, PTL DEF Spec
=============================================================================
