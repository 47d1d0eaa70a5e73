------------------------------ MODULE Services ------------------------------
(***************************************************************************)
(* The smaller services of the program side by side.  They share the       *)
(* handlers and no table, so a load sends requests to one of them and the  *)
(* others stand still.                                                     *)
(***************************************************************************)
EXTENDS Threads, MessageMarks, Documents, RecoveryKeys, WeeklyStats, OtpRateLimit

serviceVars == <<load, threadVars, markVars, documentVars, recoveryVars, statsVars, limitVars>>

ServicesInit ==
    /\ ThreadsInit
    /\ MarksInit
    /\ DocumentsInit
    /\ RecoveryInit
    /\ StatsInit
    /\ LimitsInit

ServicesNext ==
    \/ /\ ThreadsNext
       /\ UNCHANGED <<markVars, documentVars, recoveryVars, statsVars, limitVars>>
    \/ /\ MarksNext
       /\ UNCHANGED <<threadVars, documentVars, recoveryVars, statsVars, limitVars>>
    \/ /\ DocumentsNext
       /\ UNCHANGED <<threadVars, markVars, recoveryVars, statsVars, limitVars>>
    \/ /\ RecoveryNext
       /\ UNCHANGED <<threadVars, markVars, documentVars, statsVars, limitVars>>
    \/ /\ StatsNext
       /\ UNCHANGED <<threadVars, markVars, documentVars, recoveryVars, limitVars>>
    \/ /\ LimitsNext
       /\ UNCHANGED <<threadVars, markVars, documentVars, recoveryVars, statsVars>>

ServicesSpec == ServicesInit /\ [][ServicesNext]_serviceVars
=============================================================================
