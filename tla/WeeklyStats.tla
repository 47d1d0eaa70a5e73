----------------------------- MODULE WeeklyStats -----------------------------
(***************************************************************************)
(* The daily mail with the number of accounts                              *)
(* (services/weeklyStatsJob.js), which the scheduler of the process and an *)
(* HTTP cron (routes/internal.js) both start.                              *)
(***************************************************************************)
EXTENDS Load

CONSTANT MaxDays        \* bound: days that pass
ASSUME DaysAssumption == MaxDays \in Nat \ {0}

VARIABLES
    day,            \* the day in Warsaw
    lastSentDay,    \* lastSentDayKey, of the process; 0 is its null
    mails,          \* history: the mails of each day that this process has sent,
                    \* but for those whose answer it never had
    sreq            \* what each handler, or the scheduler's tick, is doing

statsVars == <<day, lastSentDay, mails, sreq>>

-----------------------------------------------------------------------------
Days == 1 .. MaxDays
SRequest == [step : {"idle", "count", "mail", "mark"}, day : Days \cup {0}]
SIdle == [step |-> "idle", day |-> 0]

SAt(h, step) == sreq[h].step = step /\ UNCHANGED load
SGoto(h, step) == sreq' = [sreq EXCEPT ![h].step = step]
SFinish(h) == sreq' = [sreq EXCEPT ![h] = SIdle]

StatsInit ==
    /\ LoadInit
    /\ day = 1 /\ lastSentDay = 0 /\ mails = [d \in Days |-> 0]
    /\ sreq = [h \in Handlers |-> SIdle]

-----------------------------------------------------------------------------
(* tick at 20:00 or POST /internal/cron/weekly-stats: the key of the day   *)
(* is taken and compared with the mark...                                  *)
AlreadySent == lastSentDay = day

StartJob(h) ==
    /\ ~AlreadySent
    /\ h \in Crowd /\ Serves("stats") /\ sreq[h].step = "idle"
    /\ sreq' = [sreq EXCEPT ![h] = [step |-> "count", day |-> day]]
    /\ UNCHANGED <<load, day, lastSentDay, mails>>

(* ...the accounts are counted (getAccountStats)...                        *)
CountAccounts(h) ==
    /\ SAt(h, "count")
    /\ SGoto(h, "mail")
    /\ UNCHANGED <<day, lastSentDay, mails>>

(* ...the provider takes the mail...                                       *)
SendStats(h) ==
    /\ SAt(h, "mail")
    /\ mails' = [mails EXCEPT ![sreq[h].day] = @ + 1]
    /\ SGoto(h, "mark")
    /\ UNCHANGED <<day, lastSentDay>>

MarkNothing(h) ==           \* mutant: the mark is kept for forced jobs
    /\ SAt(h, "mark")
    /\ SFinish(h)
    /\ UNCHANGED <<day, lastSentDay, mails>>
(* ...and its answer sets the mark, to the day of the start.               *)
MarkDay(h) ==
    /\ SAt(h, "mark")
    /\ lastSentDay' = sreq[h].day
    /\ SFinish(h)
    /\ UNCHANGED <<day, mails>>

(* A count that fails, a mail that is refused; or its answer comes too     *)
(* late or not at all.                                                     *)
AbortJob(h) ==
    /\ sreq[h].step # "idle"
    /\ mails' = IF sreq[h].step = "mark" THEN [mails EXCEPT ![sreq[h].day] = @ - 1] ELSE mails
    /\ SFinish(h)
    /\ UNCHANGED <<load, day, lastSentDay>>

NewDay ==
    /\ Serves("stats") /\ day < MaxDays
    /\ day' = day + 1
    /\ UNCHANGED <<load, lastSentDay, mails, sreq>>

(* The mark is lost with the process.                                      *)
Restart ==
    /\ Serves("stats")
    /\ lastSentDay' = 0 /\ mails' = [d \in Days |-> 0]
    /\ sreq' = [h \in Handlers |-> SIdle]
    /\ UNCHANGED <<load, day>>

-----------------------------------------------------------------------------
StatsStep(h) ==
    \/ StartJob(h)
    \/ CountAccounts(h)
    \/ SendStats(h)
    \/ MarkDay(h)
    \/ AbortJob(h)

StatsNext == (\E h \in Handlers : StatsStep(h)) \/ NewDay \/ Restart
StatsSpec == StatsInit /\ [][StatsNext]_<<load, statsVars>>

-----------------------------------------------------------------------------
StatsTypeOK ==
    /\ load \in Loads
    /\ day \in Days /\ lastSentDay \in Days \cup {0}
    /\ mails \in [Days -> Nat]
    /\ sreq \in [Handlers -> SRequest]

(* A process sends one mail a day if its jobs do not overlap.  Jobs that   *)
(* overlap send one each; and one that ends after midnight puts the mark   *)
(* back a day, so that a day has more mails than there were jobs at once.  *)
MailsPerDayBounded ==
    \A d \in Days : mails[d] <= (Overlap * (Overlap + 1)) \div 2
=============================================================================
