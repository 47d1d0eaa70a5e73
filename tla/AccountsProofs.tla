---------------------------- MODULE AccountsProofs ---------------------------
(***************************************************************************)
(* Proofs about Accounts, for any number of requests that overlap and      *)
(* break off, any session limit and any passwords: its types, that no      *)
(* session outlives its password, and how many sessions and reset links    *)
(* there can be; and that one request at a time implements AccountPromise. *)
(***************************************************************************)
EXTENDS Accounts, FiniteSetTheorems, WellFoundedInduction, TLAPS

(* A handler that has made, or claims, a link works on one with a row.     *)
LinkSteps == {"invalidate", "send mail", "drop link", "claim"}
LinkKnown(h) ==
    req[h].step \in LinkSteps => req[h].link \in LinkIds /\ links[req[h].link] # "unused"
AInv == TypeOK /\ \A h \in Handlers : LinkKnown(h)

LEMMA IdleIsARequest == Idle \in Request /\ Idle.step = "idle"
  BY DEF Idle, Request, Steps, NoId

LEMMA StepChanges ==
    ASSUME NEW r \in Request, NEW step \in Steps
    PROVE  /\ [r EXCEPT !.step = step] \in Request
           /\ [r EXCEPT !.step = step].step = step
           /\ [r EXCEPT !.step = step].link = r.link
           /\ [r EXCEPT !.step = step].doomed = r.doomed
  BY DEF Request

LEMMA AInvInit == ASSUME Init PROVE AInv
<1>1. Null \in Passwords \cup {Null}
  OBVIOUS
<1>2. [state |-> "unused", under |-> Null, compared |-> Null] \in Session
  BY DEF Session, SessionState
<1>3. TypeOK
  BY <1>2, IdleIsARequest DEF Init, TypeOK, LinkState
<1>4. \A h \in Handlers : req[h].step = "idle"
  BY IdleIsARequest DEF Init
<1> QED
  BY <1>3, <1>4 DEF AInv, LinkKnown, LinkSteps

LEMMA SessionsDropped ==
    ASSUME TypeOK, NEW gone
    PROVE  WithoutSessions(gone) \in [SessionIds -> Session]
<1>1. ASSUME NEW s \in SessionIds PROVE [sessions[s] EXCEPT !.state = "deleted"] \in Session
  BY DEF TypeOK, Session, SessionState
<1> QED
  BY <1>1 DEF TypeOK, WithoutSessions

(* A handler moves and may change the tables; what is left to show.        *)
LEMMA HandlerMoves ==
    ASSUME AInv, NEW h \in Handlers, NEW r \in Request, req' = [req EXCEPT ![h] = r],
           password' \in Passwords \cup {Null}, deleted' \in BOOLEAN,
           sessions' \in [SessionIds -> Session], links' \in [LinkIds -> LinkState],
           failures' \in Nat,
           mailed' \subseteq mailed \cup {l \in LinkIds : links[l] # "unused"},
           \A l \in LinkIds : links[l] # "unused" => links'[l] # "unused",
           r.step \in LinkSteps => r.link \in LinkIds /\ links'[r.link] # "unused"
    PROVE  AInv'
<1>1. req' \in [Handlers -> Request] /\ req'[h] = r
      /\ \A g \in Handlers : g # h => req'[g] = req[g]
  BY DEF AInv, TypeOK
<1>2. mailed' \subseteq {l \in LinkIds : links'[l] # "unused"}
  BY DEF AInv, TypeOK
<1>3. TypeOK'
  BY <1>1, <1>2 DEF TypeOK
<1>4. ASSUME NEW g \in Handlers PROVE LinkKnown(g)'
  BY <1>1 DEF AInv, LinkKnown
<1> QED
  BY <1>3, <1>4 DEF AInv

(* Requests start without a table being written.                           *)
LEMMA StartTypes ==
    ASSUME AInv, NEW h \in Handlers, NewRequest(h)
    PROVE  AInv'
<1>1. ASSUME NEW r \in Request, req' = [req EXCEPT ![h] = r],
             r.step \in LinkSteps => r.link \in LinkIds /\ links[r.link] # "unused",
             UNCHANGED <<account, tables, failures>>
      PROVE  AInv'
  <2>1. /\ password' = password /\ deleted' = deleted /\ sessions' = sessions
        /\ links' = links /\ mailed' = mailed /\ failures' = failures
    BY <1>1 DEF account, tables
  <2> QED
    BY <1>1, <2>1, HandlerMoves DEF AInv, TypeOK
<1>2. CASE \E p \in Passwords : LoginUser(h, p)
  <2> PICK p \in Passwords : LoginUser(h, p)
    BY <1>2
  <2> DEFINE r == [Idle EXCEPT !.step = "list sessions", !.known = p]
  <2>1. r \in Request /\ r.step = "list sessions"
    BY DEF Idle, Request, Steps, NoId
  <2>2. req' = [req EXCEPT ![h] = r] /\ UNCHANGED <<account, tables, failures>>
    BY DEF LoginUser, Start
  <2> HIDE DEF r
  <2> QED
    BY <1>1, <2>1, <2>2 DEF LinkSteps
<1>3. ASSUME NEW task \in Tasks, NEW s \in SessionIds, NEW known \in Passwords \cup {Null},
             NEW new \in Passwords \cup {Null}, Authenticate(h, task, s, known, new)
      PROVE  AInv'
  <2> DEFINE step == IF sessions[s].state = "live" THEN "read user" ELSE "end session"
             r == [Idle EXCEPT !.task = task, !.session = s, !.known = known,
                               !.new = new, !.step = step]
  <2>1. step \in {"read user", "end session"}
    OBVIOUS
  <2>2. req' = [req EXCEPT ![h] = r] /\ UNCHANGED <<account, tables, failures>>
    BY <1>3 DEF Authenticate, Start
  <2> HIDE DEF step
  <2>3. r \in Request /\ r.step \in {"read user", "end session"}
    BY <2>1 DEF Idle, Request, Steps, NoId
  <2> HIDE DEF r
  <2> QED
    BY <1>1, <2>2, <2>3 DEF LinkSteps
<1>4. CASE \E s \in SessionIds :
             \/ Authenticate(h, "logout", s, Null, Null)
             \/ \E p \in Passwords :
                  \/ Authenticate(h, "delete account", s, p, Null)
                  \/ \E new \in Passwords : Authenticate(h, "change password", s, p, new)
  <2>1. "logout" \in Tasks /\ "delete account" \in Tasks /\ "change password" \in Tasks
    BY DEF Tasks
  <2> QED
    BY <1>3, <1>4, <2>1
<1>5. CASE RequestPasswordReset(h)
  <2> DEFINE r == [Idle EXCEPT !.step = "create link"]
  <2>1. r \in Request /\ r.step = "create link"
    BY DEF Idle, Request, Steps, NoId
  <2>2. req' = [req EXCEPT ![h] = r] /\ UNCHANGED <<account, tables, failures>>
    BY <1>5 DEF RequestPasswordReset, Start
  <2> HIDE DEF r
  <2> QED
    BY <1>1, <2>1, <2>2 DEF LinkSteps
<1>6. CASE \E l \in LinkIds, new \in Passwords : ConfirmPasswordReset(h, l, new)
  <2> PICK l \in LinkIds, new \in Passwords : ConfirmPasswordReset(h, l, new)
    BY <1>6
  <2> DEFINE early == links[l] # "expired"
             r == [Idle EXCEPT !.step = "claim", !.link = l, !.new = new, !.inTime = early]
  <2>1. early \in BOOLEAN
    OBVIOUS
  <2>2. /\ req' = [req EXCEPT ![h] = r] /\ UNCHANGED <<account, tables, failures>>
        /\ l \in mailed
    BY DEF ConfirmPasswordReset, Start
  <2> HIDE DEF early
  <2>3. r \in Request /\ r.link = l
    BY <2>1 DEF Idle, Request, Steps
  <2>4. links[l] # "unused"
    BY <2>2 DEF AInv, TypeOK
  <2> HIDE DEF r
  <2> QED
    BY <1>1, <2>2, <2>3, <2>4
<1> QED
  BY <1>2, <1>4, <1>5, <1>6 DEF NewRequest

(* A handler goes on or ends, and the tables keep their types.             *)
LEMMA GoTypes ==
    ASSUME AInv, NEW h \in Handlers, NEW step \in Steps, Goto(h, step),
           password' \in Passwords \cup {Null}, deleted' \in BOOLEAN,
           sessions' \in [SessionIds -> Session], links' \in [LinkIds -> LinkState],
           failures' \in Nat,
           mailed' \subseteq mailed \cup {l \in LinkIds : links[l] # "unused"},
           \A l \in LinkIds : links[l] # "unused" => links'[l] # "unused",
           step \in LinkSteps => req[h].step \in LinkSteps
    PROVE  AInv'
<1> DEFINE r == [req[h] EXCEPT !.step = step]
<1>1. req[h] \in Request /\ LinkKnown(h)
  BY DEF AInv, TypeOK
<1>2. r \in Request /\ r.step = step /\ r.link = req[h].link
  BY <1>1, StepChanges
<1>3. req' = [req EXCEPT ![h] = r]
  BY DEF Goto
<1> HIDE DEF r
<1>4. r.step \in LinkSteps => r.link \in LinkIds /\ links'[r.link] # "unused"
  BY <1>1, <1>2 DEF LinkKnown
<1> QED
  BY <1>2, <1>3, <1>4, HandlerMoves

LEMMA FinishTypes ==
    ASSUME AInv, NEW h \in Handlers, Finish(h),
           password' \in Passwords \cup {Null}, deleted' \in BOOLEAN,
           sessions' \in [SessionIds -> Session], links' \in [LinkIds -> LinkState],
           failures' \in Nat,
           mailed' \subseteq mailed \cup {l \in LinkIds : links[l] # "unused"},
           \A l \in LinkIds : links[l] # "unused" => links'[l] # "unused"
    PROVE  AInv'
  BY IdleIsARequest, HandlerMoves DEF Finish, LinkSteps

LEMMA SessionStepTypes ==
    ASSUME AInv, NEW h \in Handlers,
           \/ ListSessions(h) \/ DropOldest(h) \/ CreateSession(h)
           \/ ReadUser(h) \/ EndSession(h)
    PROVE  AInv'
<1>0. TypeOK
  BY DEF AInv
<1>1. CASE ListSessions(h)
  <2>1. /\ password' = password /\ deleted' = deleted /\ sessions' = sessions
        /\ links' = links /\ mailed' = mailed /\ failures' = failures
    BY <1>1 DEF ListSessions, account, tables
  <2>2. CASE Goto(h, "create session")
    BY <1>0, <2>1, <2>2, GoTypes DEF TypeOK, Steps, LinkSteps
  <2>3. CASE ~Goto(h, "create session")
    <3> DEFINE doomed == Oldest(Cardinality(Present) - MaxSessions + 1)
               r == [req[h] EXCEPT !.step = "drop oldest", !.doomed = doomed]
    <3>1. req' = [req EXCEPT ![h] = r]
      BY <1>1, <2>3 DEF ListSessions
    <3>2. doomed \in SUBSET SessionIds
      BY DEF Oldest, Present
    <3> HIDE DEF doomed
    <3>3. r \in Request /\ r.step = "drop oldest"
      BY <1>0, <3>2 DEF TypeOK, Request, Steps
    <3> HIDE DEF r
    <3> QED
      BY <1>0, <2>1, <3>1, <3>3, HandlerMoves DEF TypeOK, LinkSteps
  <2> QED
    BY <2>2, <2>3
<1>2. CASE DropOldest(h)
  <2>1. /\ password' = password /\ deleted' = deleted
        /\ sessions' = WithoutSessions(req[h].doomed \cap Present)
        /\ links' = links /\ mailed' = mailed /\ failures' = failures
        /\ Goto(h, "create session")
    BY <1>2 DEF DropOldest, account
  <2> QED
    BY <1>0, <2>1, SessionsDropped, GoTypes DEF TypeOK, Steps, LinkSteps
<1>3. CASE CreateSession(h)
  <2>1. /\ password' = password /\ deleted' = deleted
        /\ links' = links /\ mailed' = mailed /\ failures' = failures
        /\ Finish(h)
    BY <1>3 DEF CreateSession, account
  <2>2. [state |-> "live", under |-> password, compared |-> req[h].known] \in Session
    BY <1>0 DEF TypeOK, Request, Session, SessionState
  <2>3. sessions' \in [SessionIds -> Session]
    BY <1>0, <1>3, <2>2 DEF TypeOK, CreateSession
  <2> QED
    BY <1>0, <2>1, <2>3, FinishTypes DEF TypeOK
<1>4. CASE ReadUser(h)
  <2>1. /\ password' = password /\ deleted' = deleted /\ sessions' = sessions
        /\ links' = links /\ mailed' = mailed /\ failures' = failures
        /\ \/ Finish(h) \/ Goto(h, "end session")
           \/ Goto(h, "delete account") \/ Goto(h, "update password")
    BY <1>4 DEF ReadUser, account, tables
  <2>2. CASE Finish(h)
    BY <1>0, <2>1, <2>2, FinishTypes DEF TypeOK
  <2>3. ASSUME NEW step \in {"end session", "delete account", "update password"},
               Goto(h, step)
        PROVE  AInv'
    <3>1. step \in Steps /\ ~(step \in LinkSteps)
      BY DEF Steps, LinkSteps
    <3> QED
      BY <1>0, <2>1, <2>3, <3>1, GoTypes DEF TypeOK
  <2> QED
    BY <2>1, <2>2, <2>3
<1>5. CASE EndSession(h)
  <2>1. /\ password' = password /\ deleted' = deleted
        /\ sessions' = WithoutSessions({req[h].session} \cap Present)
        /\ links' = links /\ mailed' = mailed /\ failures' = failures
        /\ Finish(h)
    BY <1>5 DEF EndSession, account
  <2> QED
    BY <1>0, <2>1, SessionsDropped, FinishTypes DEF TypeOK
<1> QED
  BY <1>1, <1>2, <1>3, <1>4, <1>5

LEMMA PasswordStepTypes ==
    ASSUME AInv, NEW h \in Handlers,
           UpdatePassword(h) \/ DeleteSessions(h) \/ DeleteOwnAccount(h) \/ Claim(h)
    PROVE  AInv'
<1>0. TypeOK
  BY DEF AInv
<1>1. req[h].new \in Passwords \cup {Null}
  BY <1>0 DEF TypeOK, Request
<1>2. "delete sessions" \in Steps /\ ~("delete sessions" \in LinkSteps)
  BY DEF Steps, LinkSteps
<1>3. CASE UpdatePassword(h)
  <2>1. /\ password' = req[h].new /\ deleted' = deleted /\ sessions' = sessions
        /\ links' = links /\ mailed' = mailed /\ failures' = failures
        /\ Goto(h, "delete sessions")
    BY <1>3 DEF UpdatePassword, tables
  <2> QED
    BY <1>0, <1>1, <1>2, <2>1, GoTypes DEF TypeOK
<1>4. CASE DeleteSessions(h)
  <2>1. /\ password' = password /\ deleted' = deleted
        /\ sessions' = WithoutSessions(Present)
        /\ links' = links /\ mailed' = mailed /\ failures' = failures
        /\ Finish(h)
    BY <1>4 DEF DeleteSessions, account
  <2> QED
    BY <1>0, <2>1, SessionsDropped, FinishTypes DEF TypeOK
<1>5. CASE DeleteOwnAccount(h)
  <2>1. /\ password' = Null /\ deleted' = TRUE
        /\ sessions' = WithoutSessions(Present)
        /\ links' = links /\ mailed' = mailed /\ failures' = failures
        /\ Finish(h)
    BY <1>5 DEF DeleteOwnAccount
  <2> QED
    BY <1>0, <2>1, SessionsDropped, FinishTypes DEF TypeOK
<1>6. CASE Claim(h)
  <2>1. /\ deleted' = deleted /\ sessions' = sessions
        /\ mailed' = mailed /\ failures' = failures
        /\ \/ /\ links' = [links EXCEPT ![req[h].link] = "used"]
              /\ password' = req[h].new
              /\ Goto(h, "delete sessions")
           \/ links' = links /\ password' = password /\ Finish(h)
    BY <1>6 DEF Claim
  <2>2. /\ links' \in [LinkIds -> LinkState]
        /\ \A l \in LinkIds : links[l] # "unused" => links'[l] # "unused"
    BY <1>0, <2>1 DEF TypeOK, LinkState
  <2> QED
    BY <1>0, <1>1, <1>2, <2>1, <2>2, GoTypes, FinishTypes DEF TypeOK
<1> QED
  BY <1>3, <1>4, <1>5, <1>6

LEMMA LinkStepTypes ==
    ASSUME AInv, NEW h \in Handlers,
           CreateLink(h) \/ InvalidateOthers(h) \/ SendMail(h) \/ DropLink(h)
    PROVE  AInv'
<1>0. TypeOK /\ LinkKnown(h)
  BY DEF AInv
<1>1. CASE CreateLink(h)
  <2> PICK l \in LinkIds :
        /\ links' = [links EXCEPT ![l] = "open"]
        /\ req' = [req EXCEPT ![h].link = l, ![h].step = "invalidate"]
    BY <1>1 DEF CreateLink
  <2> DEFINE r == [req[h] EXCEPT !.link = l, !.step = "invalidate"]
  <2>1. /\ password' = password /\ deleted' = deleted /\ sessions' = sessions
        /\ mailed' = mailed /\ failures' = failures
        /\ req' = [req EXCEPT ![h] = r]
    BY <1>1 DEF CreateLink, account
  <2>2. r \in Request /\ r.link = l /\ r.step = "invalidate"
    BY <1>0 DEF TypeOK, Request, Steps
  <2> HIDE DEF r
  <2>3. /\ links' \in [LinkIds -> LinkState] /\ links'[l] = "open"
        /\ \A k \in LinkIds : links[k] # "unused" => links'[k] # "unused"
    BY <1>0 DEF TypeOK, LinkState
  <2> QED
    BY <1>0, <2>1, <2>2, <2>3, HandlerMoves DEF TypeOK
<1>2. CASE InvalidateOthers(h)
  <2>1. /\ password' = password /\ deleted' = deleted /\ sessions' = sessions
        /\ mailed' = mailed /\ failures' = failures
        /\ links' = [l \in LinkIds |-> IF l \in Unclaimed \ {req[h].link} THEN "deleted"
                                                                    ELSE links[l]]
        /\ Goto(h, "send mail") /\ req[h].step \in LinkSteps
    BY <1>2 DEF InvalidateOthers, account, LinkSteps
  <2>2. /\ links' \in [LinkIds -> LinkState]
        /\ \A l \in LinkIds : links[l] # "unused" => links'[l] # "unused"
    BY <1>0, <2>1 DEF TypeOK, LinkState
  <2>3. "send mail" \in Steps
    BY DEF Steps
  <2> QED
    BY <1>0, <2>1, <2>2, <2>3, GoTypes DEF TypeOK
<1>3. CASE SendMail(h)
  <2>1. /\ password' = password /\ deleted' = deleted /\ sessions' = sessions
        /\ links' = links /\ failures' = failures
        /\ mailed' \subseteq mailed \cup {req[h].link}
        /\ Finish(h) \/ Goto(h, "drop link")
        /\ req[h].step \in LinkSteps
    BY <1>3 DEF SendMail, account, LinkSteps
  <2>2. req[h].link \in {l \in LinkIds : links[l] # "unused"}
    BY <1>0, <2>1 DEF LinkKnown
  <2>3. "drop link" \in Steps
    BY DEF Steps
  <2> QED
    BY <1>0, <2>1, <2>2, <2>3, GoTypes, FinishTypes DEF TypeOK
<1>4. CASE DropLink(h)
  <2>1. /\ password' = password /\ deleted' = deleted /\ sessions' = sessions
        /\ mailed' = mailed /\ failures' = failures
        /\ links' = [links EXCEPT ![req[h].link] = "deleted"]
        /\ Finish(h)
    BY <1>4 DEF DropLink, account
  <2>2. /\ links' \in [LinkIds -> LinkState]
        /\ \A l \in LinkIds : links[l] # "unused" => links'[l] # "unused"
    BY <1>0, <2>1 DEF TypeOK, LinkState
  <2> QED
    BY <1>0, <2>1, <2>2, FinishTypes DEF TypeOK
<1> QED
  BY <1>1, <1>2, <1>3, <1>4

(* The clock, the purge and handlers that break off.                       *)
LEMMA OtherTypes ==
    ASSUME AInv,
           \/ \E h \in Handlers : Fail(h)
           \/ \E s \in SessionIds : ExpireSession(s)
           \/ PurgeExpiredSessions
           \/ \E l \in LinkIds : ExpireLink(l)
    PROVE  AInv'
<1>0. TypeOK
  BY DEF AInv
<1>1. CASE \E h \in Handlers : Fail(h)
  <2> PICK h \in Handlers : Fail(h)
    BY <1>1
  <2>1. /\ password' = password /\ deleted' = deleted /\ sessions' = sessions
        /\ links' = links /\ mailed' = mailed /\ failures' = failures + 1
        /\ Finish(h)
    BY DEF Fail, account, tables
  <2> QED
    BY <1>0, <2>1, FinishTypes DEF TypeOK
<1>2. ASSUME sessions' \in [SessionIds -> Session],
             UNCHANGED <<account, links, mailed, req, failures>>
      PROVE  AInv'
  BY <1>0, <1>2 DEF account, AInv, TypeOK, LinkKnown
<1>3. CASE \E s \in SessionIds : ExpireSession(s)
  <2> PICK s \in SessionIds : ExpireSession(s)
    BY <1>3
  <2>1. [sessions[s] EXCEPT !.state = "expired"] \in Session
    BY <1>0 DEF TypeOK, Session, SessionState
  <2>2. sessions' = [sessions EXCEPT ![s] = [sessions[s] EXCEPT !.state = "expired"]]
    BY DEF ExpireSession
  <2>3. sessions' \in [SessionIds -> Session]
    BY <1>0, <2>1, <2>2 DEF TypeOK
  <2> QED
    BY <1>2, <2>3 DEF ExpireSession
<1>4. CASE PurgeExpiredSessions
  BY <1>0, <1>2, <1>4, SessionsDropped DEF PurgeExpiredSessions
<1>5. CASE \E l \in LinkIds : ExpireLink(l)
  <2> PICK l \in LinkIds : ExpireLink(l)
    BY <1>5
  <2>1. /\ links' \in [LinkIds -> LinkState]
        /\ \A k \in LinkIds : links[k] # "unused" => links'[k] # "unused"
    BY <1>0 DEF ExpireLink, TypeOK, LinkState
  <2>2. /\ password' = password /\ deleted' = deleted /\ sessions' = sessions
        /\ mailed' = mailed /\ failures' = failures /\ req' = req
    BY DEF ExpireLink, account
  <2> QED
    BY <1>0, <2>1, <2>2 DEF AInv, TypeOK, LinkKnown
<1> QED
  BY <1>1, <1>3, <1>4, <1>5

LEMMA AInvNext ==
    ASSUME AInv, [Next]_vars
    PROVE  AInv'
<1>1. CASE Next
  BY <1>1, StartTypes, SessionStepTypes, PasswordStepTypes, LinkStepTypes, OtherTypes
  DEF Next, Step
<1>2. CASE UNCHANGED vars
  BY <1>2 DEF vars, AInv, TypeOK, LinkKnown
<1> QED
  BY <1>1, <1>2

(* The rows and the requests of an account keep their types, and only      *)
(* links that have a row are mailed.                                       *)
THEOREM TypeCorrect == Spec => []TypeOK
<1>1. Init => AInv
  BY AInvInit
<1>2. AInv /\ [Next]_vars => AInv'
  BY AInvNext
<1>3. AInv => TypeOK
  BY DEF AInv
<1> QED
  BY <1>1, <1>2, <1>3, PTL DEF Spec

-----------------------------------------------------------------------------
(* What the actions do to the sessions, to the password and to who is at   *)
(* which step. *)

Others(h) == \A g \in Handlers \ {h} : req'[g] = req[g]
FewerSessions ==
    /\ Present' \subseteq Present
    /\ \A s \in Present' : /\ sessions'[s].under = sessions[s].under
                          /\ sessions'[s].compared = sessions[s].compared

LEMMA FewerWithout ==
    ASSUME TypeOK, NEW gone, sessions' = WithoutSessions(gone)
    PROVE  FewerSessions /\ Present' = Present \ gone
<1>1. ASSUME NEW s \in SessionIds
      PROVE  /\ s \in gone => sessions'[s].state = "deleted"
             /\ s \notin gone => sessions'[s] = sessions[s]
  <2>1. sessions[s] \in Session
    BY DEF TypeOK
  <2>2. [sessions[s] EXCEPT !.state = "deleted"].state = "deleted"
    BY <2>1 DEF Session
  <2> QED
    BY <2>2 DEF WithoutSessions
<1> QED
  BY <1>1 DEF FewerSessions, Present

LEMMA FewerSame == ASSUME sessions' = sessions PROVE FewerSessions /\ Present' = Present
  BY DEF FewerSessions, Present

LEMMA StepRemains ==
    ASSUME NEW h \in Handlers, Others(h), NEW step, req[h].step # step
    PROVE  At(step) \subseteq At(step)'
  BY DEF Others, At

(* A request moves one handler, to a step that is read off its action.     *)
LEMMA OneHandlerMoves ==
    ASSUME TypeOK, NEW h \in Handlers, NewRequest(h) \/ Step(h) \/ Fail(h)
    PROVE  Others(h)
<1>1. ASSUME NEW r, req' = [req EXCEPT ![h] = r] PROVE Others(h)
  BY <1>1 DEF Others, TypeOK
<1>2. ASSUME Finish(h) PROVE Others(h)
  BY <1>1, <1>2 DEF Finish
<1>3. ASSUME NEW step, Goto(h, step) PROVE Others(h)
  BY <1>1, <1>3 DEF Goto
<1>4. CASE NewRequest(h)
  BY <1>1, <1>4 DEF NewRequest, LoginUser, Authenticate, RequestPasswordReset,
                    ConfirmPasswordReset, Start
<1>5. CASE Fail(h)
  BY <1>2, <1>5 DEF Fail
<1>6. CASE ListSessions(h) \/ DropOldest(h) \/ CreateSession(h) \/ ReadUser(h) \/ EndSession(h)
  BY <1>1, <1>2, <1>3, <1>6 DEF ListSessions, DropOldest, CreateSession, ReadUser, EndSession
<1>7. CASE UpdatePassword(h) \/ DeleteSessions(h) \/ DeleteOwnAccount(h) \/ Claim(h)
  BY <1>2, <1>3, <1>7 DEF UpdatePassword, DeleteSessions, DeleteOwnAccount, Claim
<1>8. CASE CreateLink(h) \/ InvalidateOthers(h) \/ SendMail(h) \/ DropLink(h)
  BY <1>1, <1>2, <1>3, <1>8 DEF CreateLink, InvalidateOthers, SendMail, DropLink
<1> QED
  BY <1>4, <1>5, <1>6, <1>7, <1>8 DEF Step

LEMMA StartSteps ==
    ASSUME TypeOK, NEW h \in Handlers, NewRequest(h)
    PROVE  req'[h].step \in {"list sessions", "read user", "end session", "create link",
                             "claim"}
<1>1. ASSUME NEW r, req' = [req EXCEPT ![h] = r] PROVE req'[h] = r
  BY <1>1 DEF TypeOK
<1>2. CASE \E p \in Passwords : LoginUser(h, p)
  <2> PICK p \in Passwords : LoginUser(h, p)
    BY <1>2
  <2>1. req'[h] = [Idle EXCEPT !.step = "list sessions", !.known = p]
    BY <1>1 DEF LoginUser, Start
  <2> QED
    BY <2>1 DEF Idle
<1>3. ASSUME NEW task, NEW s, NEW known, NEW new, Authenticate(h, task, s, known, new)
      PROVE  req'[h].step \in {"read user", "end session"}
  <2> DEFINE step == IF sessions[s].state = "live" THEN "read user" ELSE "end session"
  <2>1. req'[h] = [Idle EXCEPT !.task = task, !.session = s, !.known = known,
                               !.new = new, !.step = step]
    BY <1>1, <1>3 DEF Authenticate, Start
  <2>2. step \in {"read user", "end session"}
    OBVIOUS
  <2> HIDE DEF step
  <2> QED
    BY <2>1, <2>2 DEF Idle
<1>4. CASE RequestPasswordReset(h)
  <2>1. req'[h] = [Idle EXCEPT !.step = "create link"]
    BY <1>1, <1>4 DEF RequestPasswordReset, Start
  <2> QED
    BY <2>1 DEF Idle
<1>5. CASE \E l \in LinkIds, new \in Passwords : ConfirmPasswordReset(h, l, new)
  <2> PICK l \in LinkIds, new \in Passwords : ConfirmPasswordReset(h, l, new)
    BY <1>5
  <2> DEFINE early == links[l] # "expired"
  <2>1. req'[h] = [Idle EXCEPT !.step = "claim", !.link = l, !.new = new, !.inTime = early]
    BY <1>1 DEF ConfirmPasswordReset, Start
  <2> HIDE DEF early
  <2> QED
    BY <2>1 DEF Idle
<1> QED
  BY <1>2, <1>3, <1>4, <1>5 DEF NewRequest

(* Only a login adds a session. *)
LEMMA SessionsFall ==
    ASSUME TypeOK, [Next]_vars, \A h \in Handlers : ~CreateSession(h)
    PROVE  FewerSessions
<1>1. CASE sessions' = sessions
  BY <1>1, FewerSame
<1>2. CASE \E gone : sessions' = WithoutSessions(gone)
  BY <1>2, FewerWithout
<1>3. CASE \E s \in SessionIds : ExpireSession(s)
  <2> PICK s \in SessionIds : ExpireSession(s)
    BY <1>3
  <2>1. /\ sessions[s].state = "live"
        /\ sessions' = [sessions EXCEPT ![s] = [sessions[s] EXCEPT !.state = "expired"]]
    BY DEF ExpireSession
  <2>2. /\ [sessions[s] EXCEPT !.state = "expired"].under = sessions[s].under
        /\ [sessions[s] EXCEPT !.state = "expired"].compared = sessions[s].compared
    BY DEF TypeOK, Session
  <2> QED
    BY <2>1, <2>2 DEF FewerSessions, Present, TypeOK
<1>4. ASSUME NEW h \in Handlers, NewRequest(h) \/ Step(h) \/ Fail(h)
      PROVE  sessions' = sessions \/ \E gone : sessions' = WithoutSessions(gone)
  <2>1. CASE NewRequest(h)
    BY <2>1 DEF NewRequest, LoginUser, Authenticate, RequestPasswordReset,
                ConfirmPasswordReset, tables
  <2>2. CASE Fail(h)
    BY <2>2 DEF Fail, tables
  <2>3. CASE Step(h)
    BY <2>3 DEF Step, ListSessions, DropOldest, ReadUser, EndSession, UpdatePassword,
                DeleteSessions, DeleteOwnAccount, CreateLink, InvalidateOthers,
                SendMail, DropLink, Claim, tables
  <2> QED
    BY <1>4, <2>1, <2>2, <2>3
<1>5. CASE PurgeExpiredSessions
  BY <1>2, <1>5 DEF PurgeExpiredSessions
<1>6. CASE \E l \in LinkIds : ExpireLink(l)
  BY <1>1, <1>6 DEF ExpireLink
<1>7. CASE UNCHANGED vars
  BY <1>1, <1>7 DEF vars
<1> QED
  BY <1>1, <1>2, <1>3, <1>4, <1>5, <1>6, <1>7 DEF Next

-----------------------------------------------------------------------------
(* No session outlives its password. *)

(* The password stays, and whoever is about to delete the sessions is      *)
(* still about to, or has, or broke off.                                   *)
LEMMA PasswordFrame ==
    ASSUME NoSessionOutlivesThePassword, FewerSessions, password' = password,
           failures > 0 => failures' > 0,
           At("delete sessions") \subseteq At("delete sessions")' \/ failures' > 0
    PROVE  NoSessionOutlivesThePassword'
  BY DEF NoSessionOutlivesThePassword, FewerSessions

LEMMA PasswordStep ==
    ASSUME TypeOK, NoSessionOutlivesThePassword, [Next]_vars
    PROVE  NoSessionOutlivesThePassword'
<1>1. ASSUME Present' = {} PROVE NoSessionOutlivesThePassword'
  BY <1>1 DEF NoSessionOutlivesThePassword
<1>2. ASSUME At("delete sessions")' # {} PROVE NoSessionOutlivesThePassword'
  BY <1>2 DEF NoSessionOutlivesThePassword
<1>3. ASSUME NEW h \in Handlers, Goto(h, "delete sessions")
      PROVE  NoSessionOutlivesThePassword'
  <2>1. req'[h].step = "delete sessions"
    BY <1>3 DEF Goto, TypeOK, Request
  <2> QED
    BY <1>2, <2>1 DEF At
<1>4. ASSUME sessions' = WithoutSessions(Present) PROVE NoSessionOutlivesThePassword'
  BY <1>1, <1>4, FewerWithout
<1>5. ASSUME NEW h \in Handlers, CreateSession(h) PROVE NoSessionOutlivesThePassword'
  <2> PICK s \in SessionIds :
           /\ First(s, FreeSessions)
           /\ sessions' = [sessions EXCEPT ![s] =
                [state |-> "live", under |-> password, compared |-> req[h].known]]
    BY <1>5 DEF CreateSession
  <2>1. req[h].step = "create session" /\ password' = password /\ failures' = failures
    BY <1>5 DEF CreateSession, account
  <2>2. At("delete sessions") \subseteq At("delete sessions")'
    BY <1>5, <2>1, OneHandlerMoves, StepRemains DEF Step
  <2>3. \A t \in Present' : t = s \/ (t \in Present /\ sessions'[t] = sessions[t])
    BY DEF Present, TypeOK
  <2>4. sessions'[s].under = password
    BY DEF TypeOK
  <2> QED
    BY <2>1, <2>2, <2>3, <2>4 DEF NoSessionOutlivesThePassword
<1>6. ASSUME NEW h \in Handlers, ~CreateSession(h), NewRequest(h) \/ Step(h) \/ Fail(h),
             FewerSessions
      PROVE  NoSessionOutlivesThePassword'
  <2>1. CASE Fail(h)
    <3>1. password' = password /\ failures' > 0
      BY <2>1 DEF Fail, account, TypeOK
    <3> QED
      BY <1>6, <3>1, PasswordFrame
  <2>2. CASE UpdatePassword(h)
    BY <1>3, <2>2 DEF UpdatePassword
  <2>3. CASE DeleteSessions(h)
    BY <1>4, <2>3 DEF DeleteSessions
  <2>4. CASE DeleteOwnAccount(h)
    BY <1>4, <2>4 DEF DeleteOwnAccount
  <2>5. CASE Claim(h) /\ Goto(h, "delete sessions")
    BY <1>3, <2>5
  <2>6. CASE \/ NewRequest(h)
             \/ ListSessions(h) \/ DropOldest(h) \/ ReadUser(h) \/ EndSession(h)
             \/ CreateLink(h) \/ InvalidateOthers(h) \/ SendMail(h) \/ DropLink(h)
             \/ Claim(h) /\ ~Goto(h, "delete sessions")
    <3>1. password' = password /\ failures' = failures /\ req[h].step # "delete sessions"
      BY <2>6 DEF NewRequest, LoginUser, Authenticate, RequestPasswordReset,
                  ConfirmPasswordReset, Start, ListSessions, DropOldest, ReadUser,
                  EndSession, CreateLink, InvalidateOthers, SendMail, DropLink, Claim,
                  account
    <3>2. At("delete sessions") \subseteq At("delete sessions")'
      BY <1>6, <3>1, OneHandlerMoves, StepRemains
    <3> QED
      BY <1>6, <3>1, <3>2, PasswordFrame
  <2> QED
    BY <1>6, <2>1, <2>2, <2>3, <2>4, <2>5, <2>6 DEF Step
<1>7. CASE \/ \E s \in SessionIds : ExpireSession(s)
           \/ PurgeExpiredSessions
           \/ \E l \in LinkIds : ExpireLink(l)
           \/ UNCHANGED vars
  <2>1. password' = password /\ failures' = failures /\ req' = req
    BY <1>7 DEF ExpireSession, PurgeExpiredSessions, ExpireLink, vars, account
  <2>2. FewerSessions
    <3>1. ASSUME NEW h \in Handlers, CreateSession(h) PROVE FALSE
      <4>1. req'[h].step = "idle" /\ req[h].step = "create session"
        BY <3>1, IdleIsARequest DEF CreateSession, Finish, TypeOK
      <4> QED
        BY <2>1, <4>1
    <3> QED
      BY <3>1, SessionsFall
  <2> QED
    BY <2>1, <2>2, PasswordFrame DEF At
<1> QED
  BY <1>5, <1>6, <1>7, SessionsFall DEF Next

LEMMA NothingYet ==
    ASSUME Init
    PROVE  Present = {} /\ Unclaimed = {} /\ \A step \in Steps \ {"idle"} : At(step) = {}
<1>1. \A s \in SessionIds : sessions[s].state = "unused"
  BY DEF Init
<1>2. \A l \in LinkIds : links[l] = "unused"
  BY DEF Init
<1>3. \A h \in Handlers : req[h].step = "idle"
  BY IdleIsARequest DEF Init
<1> QED
  BY <1>1, <1>2, <1>3 DEF Present, Unclaimed, At

(* After a change of the password, a reset or a deletion, no session that  *)
(* was created under the old password is left, once the second statement   *)
(* has been executed: whatever requests overlap, unless one broke off.     *)
THEOREM PasswordEndsSessions == Spec => []NoSessionOutlivesThePassword
<1>1. Init => NoSessionOutlivesThePassword
  BY NothingYet DEF NoSessionOutlivesThePassword
<1>2. TypeOK /\ NoSessionOutlivesThePassword /\ [Next]_vars => NoSessionOutlivesThePassword'
  BY PasswordStep
<1> QED
  BY <1>1, <1>2, TypeCorrect, PTL DEF Spec

-----------------------------------------------------------------------------
(* Counting sessions and links. *)

LEMMA FiniteAlways ==
    /\ Cardinality(Handlers) \in Nat \ {0}
    /\ \A S \in SUBSET Handlers : IsFiniteSet(S)
    /\ \A S \in SUBSET SessionIds : IsFiniteSet(S)
    /\ \A S \in SUBSET LinkIds : IsFiniteSet(S)
<1>1. IsFiniteSet(SessionIds) /\ IsFiniteSet(LinkIds)
  BY FS_Interval, AccountBoundsAssumption DEF SessionIds, LinkIds
<1>2. Cardinality(Handlers) \in Nat /\ Cardinality(Handlers) # 0
  BY AccountHandlersAssumption, FS_CardinalityType, FS_EmptySet
<1> QED
  BY <1>1, <1>2, AccountHandlersAssumption, FS_Subset

(* Parts of a finite set that have nothing in common.                      *)
LEMMA PartsOf ==
    ASSUME NEW U, IsFiniteSet(U), NEW A \in SUBSET U, NEW B \in SUBSET U, A \cap B = {}
    PROVE  /\ Cardinality(A) \in Nat /\ Cardinality(B) \in Nat /\ Cardinality(U) \in Nat
           /\ Cardinality(A) + Cardinality(B) <= Cardinality(U)
<1>1. IsFiniteSet(A) /\ IsFiniteSet(B)
  BY FS_Subset
<1>2. IsFiniteSet(A \cup B) /\ Cardinality(A \cup B) <= Cardinality(U)
  BY FS_Subset
<1>3. Cardinality(A \cup B) = Cardinality(A) + Cardinality(B) - Cardinality(A \cap B)
  BY <1>1, FS_Union
<1>4. Cardinality(A \cap B) = 0
  BY FS_EmptySet
<1>5. /\ Cardinality(A) \in Nat /\ Cardinality(B) \in Nat /\ Cardinality(U) \in Nat
      /\ Cardinality(A \cup B) \in Nat
  BY <1>1, <1>2, FS_CardinalityType
<1> QED
  BY <1>2, <1>3, <1>4, <1>5

LEMMA Smaller ==
    ASSUME NEW A, IsFiniteSet(A), NEW B \in SUBSET A
    PROVE  /\ Cardinality(A) \in Nat /\ Cardinality(B) \in Nat
           /\ Cardinality(B) <= Cardinality(A)
  BY FS_Subset, FS_CardinalityType

LEMMA OneMore ==
    ASSUME NEW A, IsFiniteSet(A), NEW x, NEW B \in SUBSET (A \cup {x})
    PROVE  /\ Cardinality(A) \in Nat /\ Cardinality(B) \in Nat
           /\ Cardinality(B) <= Cardinality(A) + 1
<1>1. /\ IsFiniteSet(A \cup {x})
      /\ Cardinality(A \cup {x}) \in {Cardinality(A), Cardinality(A) + 1}
  BY FS_AddElement
<1> QED
  BY <1>1, Smaller, FS_CardinalityType

LEMMA OneNew ==
    ASSUME NEW A, IsFiniteSet(A), NEW x, x \notin A
    PROVE  /\ IsFiniteSet(A \cup {x}) /\ Cardinality(A) \in Nat
           /\ Cardinality(A \cup {x}) = Cardinality(A) + 1
  BY FS_AddElement, FS_CardinalityType

LEMMA OneLess ==
    ASSUME NEW A, IsFiniteSet(A), NEW x \in A, NEW B \in SUBSET (A \ {x})
    PROVE  /\ Cardinality(A) \in Nat /\ Cardinality(B) \in Nat
           /\ Cardinality(B) + 1 <= Cardinality(A)
<1>1. IsFiniteSet(A \ {x}) /\ Cardinality(A \ {x}) = Cardinality(A) - 1
  BY FS_RemoveElement
<1>2. Cardinality(B) \in Nat /\ Cardinality(B) <= Cardinality(A \ {x})
  BY <1>1, Smaller
<1>3. Cardinality(A) \in Nat
  BY FS_CardinalityType
<1> QED
  BY <1>1, <1>2, <1>3

LEMMA Smallest ==
    ASSUME NEW S \in SUBSET Nat, S # {}
    PROVE  \E x \in S : \A y \in S : x <= y
<1> DEFINE less == OpToRel(<, Nat)
<1>1. less = {ss \in Nat \X Nat : ss[1] < ss[2]}
  BY DEF OpToRel
<1>2. IsWellFoundedOn(less, Nat)
  BY NatLessThanWellFounded
<1> HIDE DEF less
<1>3. PICK x \in S : \A y \in S : ~(<<y, x>> \in less)
  BY <1>2, WFMin
<1>4. \A y \in S : y < x => <<y, x>> \in less
  BY <1>1
<1>5. ASSUME NEW y \in S PROVE x <= y
  <2>1. ~(y < x)
    BY <1>3, <1>4
  <2> QED
    BY <2>1
<1> QED
  BY <1>5

(* The n oldest sessions are n of them.                                    *)
LEMMA OldestAreEnough ==
    ASSUME NEW n \in Nat, n <= Cardinality(Present)
    PROVE  Cardinality(Present \ Oldest(n)) <= Cardinality(Present) - n
<1> DEFINE R == Present \ Oldest(n)
<1>1. IsFiniteSet(Present) /\ Present \subseteq Nat /\ Cardinality(Present) \in Nat
  BY FiniteAlways, FS_CardinalityType, AccountBoundsAssumption DEF Present, SessionIds
<1>2. CASE R = {}
  BY <1>1, <1>2, FS_EmptySet
<1>3. CASE R # {}
  <2>1. PICK m \in R : \A s \in R : m <= s
    BY <1>1, <1>3, Smallest
  <2> DEFINE below == {t \in Present : t < m}
  <2>2. ~(Cardinality(below) < n)
    BY <2>1 DEF Oldest
  <2>3. R \cap below = {} /\ R \in SUBSET Present /\ below \in SUBSET Present
    <3>1. ASSUME NEW s \in R PROVE ~(s < m)
      <4>1. m <= s /\ m \in Nat /\ s \in Nat
        BY <1>1, <2>1
      <4> QED
        BY <4>1
    <3> QED
      BY <3>1
  <2> HIDE DEF R, below
  <2>4. /\ Cardinality(R) \in Nat /\ Cardinality(below) \in Nat
        /\ Cardinality(R) + Cardinality(below) <= Cardinality(Present)
    BY <1>1, <2>3, PartsOf
  <2>5. Cardinality(R) <= Cardinality(Present) - n
    BY <1>1, <2>2, <2>4
  <2> QED
    BY <2>5 DEF R
<1> QED
  BY <1>2, <1>3

-----------------------------------------------------------------------------
(* How many sessions there can be. *)

Creating == At("create session")
Dropping == At("drop oldest")

(* The sessions that are left when the handlers in S have dropped theirs.  *)
Left(S) == {s \in Present : \A h \in S : s \notin req[h].doomed}

(* Whichever of the handlers that have listed the oldest sessions drop     *)
(* them next: what is left, with a session for each of them and for each   *)
(* that creates one, stays within the bound.                               *)
Room == MaxSessions + Cardinality(Handlers) - 1
SessionsInv ==
    \A S \in SUBSET Dropping :
        Cardinality(Left(S)) + Cardinality(Creating) + Cardinality(S) <= Room

LEMMA Countable ==
    /\ IsFiniteSet(Creating) /\ IsFiniteSet(Present)
    /\ \A S \in SUBSET Dropping : IsFiniteSet(S) /\ IsFiniteSet(Left(S))
    /\ Room \in Nat
<1>1. /\ Creating \in SUBSET Handlers /\ Dropping \in SUBSET Handlers
      /\ Present \in SUBSET SessionIds /\ \A S : Left(S) \in SUBSET SessionIds
  BY DEF Creating, Dropping, At, Present, Left
<1> QED
  BY <1>1, FiniteAlways, AccountBoundsAssumption DEF Room

(* Fewer sessions, handlers that create one, and that drop some.           *)
LEMMA SessionsFrame ==
    ASSUME SessionsInv, FewerSessions, Creating' \subseteq Creating,
           Dropping' \subseteq Dropping,
           \A g \in Dropping' : req'[g] = req[g]
    PROVE  SessionsInv'
<1> SUFFICES ASSUME NEW S \in SUBSET Dropping'
             PROVE  Cardinality(Left(S)') + Cardinality(Creating') + Cardinality(S) <= Room
  BY DEF SessionsInv, Room
<1>1. S \in SUBSET Dropping /\ Left(S)' \subseteq Left(S)
  BY DEF Left, FewerSessions
<1>2. /\ Cardinality(Left(S)) \in Nat /\ Cardinality(Left(S)') \in Nat
      /\ Cardinality(Left(S)') <= Cardinality(Left(S))
  BY <1>1, Countable, Smaller
<1>3. /\ Cardinality(Creating) \in Nat /\ Cardinality(Creating') \in Nat
      /\ Cardinality(Creating') <= Cardinality(Creating)
  BY Countable, Smaller
<1>4. Cardinality(Left(S)) + Cardinality(Creating) + Cardinality(S) <= Room
  BY <1>1 DEF SessionsInv
<1>5. Cardinality(S) \in Nat /\ Room \in Nat
  BY <1>1, Countable, FS_CardinalityType
<1> QED
  BY <1>2, <1>3, <1>4, <1>5

(* Handlers that drop sessions and handlers that create one are different. *)
LEMMA AtMostAllHandlers ==
    ASSUME NEW A \in SUBSET Handlers, NEW S \in SUBSET Handlers, A \cap S = {}
    PROVE  /\ Cardinality(A) \in Nat /\ Cardinality(S) \in Nat
           /\ Cardinality(A) + Cardinality(S) <= Cardinality(Handlers)
  BY AccountHandlersAssumption, PartsOf

LEMMA ListStep ==
    ASSUME TypeOK, SessionsInv, NEW h \in Handlers, ListSessions(h)
    PROVE  SessionsInv'
<1>1. /\ req[h].step = "list sessions" /\ sessions' = sessions /\ Present' = Present
      /\ Others(h) /\ req[h] \in Request
  BY OneHandlerMoves, FewerSame DEF ListSessions, tables, Step, TypeOK
<1>2. SUFFICES ASSUME NEW S \in SUBSET Dropping'
               PROVE  Cardinality(Left(S)') + Cardinality(Creating') + Cardinality(S) <= Room
  BY DEF SessionsInv, Room
<1>3. /\ MaxSessions \in Nat \ {0} /\ Cardinality(Handlers) \in Nat
      /\ Cardinality(Present) \in Nat /\ Room = MaxSessions + Cardinality(Handlers) - 1
  BY AccountBoundsAssumption, FiniteAlways, Countable, FS_CardinalityType DEF Room
<1>4. /\ Cardinality(Creating') \in Nat /\ Cardinality(S) \in Nat
      /\ Cardinality(Creating') + Cardinality(S) <= Cardinality(Handlers)
  <2>1. Creating' \in SUBSET Handlers /\ S \in SUBSET Handlers /\ Creating' \cap S = {}
    BY DEF Creating, Dropping, At
  <2> QED
    BY <2>1, AtMostAllHandlers
<1>5. Left(S)' \subseteq Present /\ Cardinality(Left(S)') \in Nat
  <2>1. Left(S)' \in SUBSET Present
    BY <1>1 DEF Left
  <2> QED
    BY <2>1, Countable, Smaller
<1>6. ASSUME Cardinality(Left(S)') <= MaxSessions - 1
      PROVE  Cardinality(Left(S)') + Cardinality(Creating') + Cardinality(S) <= Room
  BY <1>3, <1>4, <1>5, <1>6
<1>7. CASE ~(Cardinality(Present) >= MaxSessions)
  <2>1. Cardinality(Left(S)') <= Cardinality(Present)
    BY <1>5, Countable, Smaller
  <2> QED
    BY <1>3, <1>5, <1>6, <1>7, <2>1
<1>8. CASE Cardinality(Present) >= MaxSessions
  <2> DEFINE n == Cardinality(Present) - MaxSessions + 1
             r == [req[h] EXCEPT !.step = "drop oldest", !.doomed = Oldest(n)]
  <2>1. req' = [req EXCEPT ![h] = r]
    BY <1>8 DEF ListSessions
  <2>2. n \in Nat /\ n <= Cardinality(Present) /\ Cardinality(Present) - n = MaxSessions - 1
    BY <1>3, <1>8
  <2> HIDE DEF n
  <2>3. req'[h].step = "drop oldest" /\ req'[h].doomed = Oldest(n)
    BY <1>1, <2>1 DEF TypeOK, Request
  <2> HIDE DEF r
  <2>4. CASE h \in S
    <3>1. Left(S)' \in SUBSET (Present \ Oldest(n))
      BY <1>1, <2>3, <2>4 DEF Left
    <3>2. IsFiniteSet(Present \ Oldest(n))
      BY Countable, FS_Difference
    <3>3. /\ Cardinality(Present \ Oldest(n)) \in Nat
          /\ Cardinality(Left(S)') <= Cardinality(Present \ Oldest(n))
      BY <3>1, <3>2, Smaller
    <3>4. Cardinality(Present \ Oldest(n)) <= MaxSessions - 1
      BY <2>2, OldestAreEnough
    <3> QED
      BY <1>3, <1>5, <1>6, <3>3, <3>4
  <2>5. CASE h \notin S
    <3>1. S \in SUBSET Dropping /\ \A g \in S : req'[g] = req[g]
      BY <1>1, <2>5 DEF Dropping, At, Others
    <3>2. Left(S)' = Left(S)
      BY <1>1, <3>1 DEF Left
    <3>3. Creating' = Creating
      BY <1>1, <2>3 DEF Creating, At, Others
    <3> QED
      BY <3>1, <3>2, <3>3 DEF SessionsInv
  <2> QED
    BY <2>4, <2>5
<1> QED
  BY <1>7, <1>8

LEMMA DropStep ==
    ASSUME TypeOK, SessionsInv, NEW h \in Handlers, DropOldest(h)
    PROVE  SessionsInv'
<1>1. /\ req[h].step = "drop oldest" /\ Others(h) /\ req[h] \in Request
      /\ sessions' = WithoutSessions(req[h].doomed \cap Present)
      /\ req'[h].step = "create session"
  BY OneHandlerMoves DEF DropOldest, Goto, Step, TypeOK, Request
<1>2. Present' = Present \ req[h].doomed
  <2>1. Present' = Present \ (req[h].doomed \cap Present)
    BY <1>1, FewerWithout
  <2> QED
    BY <2>1
<1>3. SUFFICES ASSUME NEW S \in SUBSET Dropping'
               PROVE  Cardinality(Left(S)') + Cardinality(Creating') + Cardinality(S) <= Room
  BY DEF SessionsInv, Room
<1>4. /\ h \notin S /\ S \in SUBSET Dropping /\ \A g \in S : req'[g] = req[g]
      /\ S \cup {h} \in SUBSET Dropping
  BY <1>1 DEF Dropping, At, Others
<1>5. Left(S)' \in SUBSET Left(S \cup {h})
  BY <1>2, <1>4 DEF Left
<1>6. Creating' \in SUBSET (Creating \cup {h})
  BY DEF Creating, At, Others, DropOldest, Goto, TypeOK
<1>7. /\ Cardinality(S) \in Nat
      /\ Cardinality(S \cup {h}) = Cardinality(S) + 1
  BY <1>4, Countable, OneNew
<1>8. /\ Cardinality(Left(S)') \in Nat /\ Cardinality(Left(S \cup {h})) \in Nat
      /\ Cardinality(Left(S)') <= Cardinality(Left(S \cup {h}))
  BY <1>4, <1>5, Countable, Smaller
<1>9. /\ Cardinality(Creating) \in Nat /\ Cardinality(Creating') \in Nat
      /\ Cardinality(Creating') <= Cardinality(Creating) + 1
  BY <1>6, Countable, OneMore
<1>10. Cardinality(Left(S \cup {h})) + Cardinality(Creating) + Cardinality(S \cup {h}) <= Room
  BY <1>4 DEF SessionsInv
<1> QED
  BY <1>7, <1>8, <1>9, <1>10, Countable

LEMMA CreateStep ==
    ASSUME TypeOK, SessionsInv, NEW h \in Handlers, CreateSession(h)
    PROVE  SessionsInv'
<1> PICK s \in SessionIds :
           /\ First(s, FreeSessions)
           /\ sessions' = [sessions EXCEPT ![s] =
                [state |-> "live", under |-> password, compared |-> req[h].known]]
  BY DEF CreateSession
<1>1. /\ req[h].step = "create session" /\ Others(h) /\ req'[h].step = "idle"
  BY OneHandlerMoves, IdleIsARequest DEF CreateSession, Finish, Step, TypeOK
<1>2. Present' \subseteq Present \cup {s}
  BY DEF Present, TypeOK
<1>3. SUFFICES ASSUME NEW S \in SUBSET Dropping'
               PROVE  Cardinality(Left(S)') + Cardinality(Creating') + Cardinality(S) <= Room
  BY DEF SessionsInv, Room
<1>4. S \in SUBSET Dropping /\ \A g \in S : req'[g] = req[g]
  BY <1>1 DEF Dropping, At, Others
<1>5. Left(S)' \in SUBSET (Left(S) \cup {s})
  BY <1>2, <1>4 DEF Left
<1>6. h \in Creating /\ Creating' \in SUBSET (Creating \ {h})
  BY <1>1 DEF Creating, At, Others
<1>7. /\ Cardinality(Left(S)) \in Nat /\ Cardinality(Left(S)') \in Nat
      /\ Cardinality(Left(S)') <= Cardinality(Left(S)) + 1
  BY <1>4, <1>5, Countable, OneMore
<1>8. /\ Cardinality(Creating) \in Nat /\ Cardinality(Creating') \in Nat
      /\ Cardinality(Creating') + 1 <= Cardinality(Creating)
  BY <1>6, Countable, OneLess
<1>9. Cardinality(Left(S)) + Cardinality(Creating) + Cardinality(S) <= Room
  BY <1>4 DEF SessionsInv
<1>10. Cardinality(S) \in Nat
  BY <1>4, Countable, FS_CardinalityType
<1> QED
  BY <1>7, <1>8, <1>9, <1>10, Countable

LEMMA SessionsStep ==
    ASSUME TypeOK, SessionsInv, [Next]_vars
    PROVE  SessionsInv'
<1>1. CASE \E h \in Handlers : ListSessions(h) \/ DropOldest(h) \/ CreateSession(h)
  BY <1>1, ListStep, DropStep, CreateStep
<1>2. CASE ~\E h \in Handlers : ListSessions(h) \/ DropOldest(h) \/ CreateSession(h)
  <2>1. FewerSessions
    BY <1>2, SessionsFall
  <2>2. ASSUME req' = req PROVE SessionsInv'
    BY <2>1, <2>2, SessionsFrame DEF Creating, Dropping, At
  <2>3. ASSUME NEW h \in Handlers, NewRequest(h) \/ Step(h) \/ Fail(h)
        PROVE  SessionsInv'
    <3>1. Others(h)
      BY <2>3, OneHandlerMoves
    <3>2. req'[h].step \notin {"drop oldest", "create session"}
      <4>1. ASSUME NEW step \in Steps, Goto(h, step) PROVE req'[h].step = step
        BY <4>1 DEF Goto, TypeOK, Request
      <4>2. ASSUME Finish(h) PROVE req'[h].step = "idle"
        BY <4>2, IdleIsARequest DEF Finish, TypeOK
      <4>3. CASE NewRequest(h)
        BY <4>3, StartSteps
      <4>4. CASE Fail(h)
        BY <4>2, <4>4 DEF Fail
      <4>5. CASE CreateLink(h)
        BY <4>5 DEF CreateLink, TypeOK, Request
      <4>6. CASE \/ ReadUser(h) \/ EndSession(h) \/ UpdatePassword(h) \/ DeleteSessions(h)
                 \/ DeleteOwnAccount(h) \/ InvalidateOthers(h) \/ SendMail(h)
                 \/ DropLink(h) \/ Claim(h)
        <5>1. {"end session", "delete account", "update password", "delete sessions",
               "send mail", "drop link"} \subseteq Steps
          BY DEF Steps
        <5> QED
          BY <4>1, <4>2, <4>6, <5>1 DEF ReadUser, EndSession, UpdatePassword, DeleteSessions,
             DeleteOwnAccount, InvalidateOthers, SendMail, DropLink, Claim
      <4> QED
        BY <1>2, <2>3, <4>3, <4>4, <4>5, <4>6 DEF Step
    <3> QED
      BY <2>1, <3>1, <3>2, SessionsFrame DEF Creating, Dropping, At, Others
  <2>4. CASE \/ \E s \in SessionIds : ExpireSession(s)
             \/ PurgeExpiredSessions
             \/ \E l \in LinkIds : ExpireLink(l)
             \/ UNCHANGED vars
    BY <2>2, <2>4 DEF ExpireSession, PurgeExpiredSessions, ExpireLink, vars
  <2> QED
    BY <2>3, <2>4 DEF Next
<1> QED
  BY <1>1, <1>2

(* createSessionForUser lists, drops and creates in three statements, yet  *)
(* logins that overlap never exceed MAX_SESSIONS_PER_USER by more than     *)
(* there are of them but one.                                              *)
THEOREM SessionsStayBounded == Spec => []SessionsBounded
<1>1. Init => SessionsInv
  <2> SUFFICES ASSUME Init, NEW S \in SUBSET Dropping
               PROVE  Cardinality(Left(S)) + Cardinality(Creating) + Cardinality(S) <= Room
    BY DEF SessionsInv
  <2>1. Left(S) = {} /\ Creating = {} /\ S = {}
    BY NothingYet DEF Left, Creating, Dropping, Steps
  <2>2. Cardinality(Left(S)) = 0 /\ Cardinality(Creating) = 0 /\ Cardinality(S) = 0
    BY <2>1, FS_EmptySet
  <2> QED
    BY <2>2, Countable
<1>2. TypeOK /\ SessionsInv /\ [Next]_vars => SessionsInv'
  BY SessionsStep
<1>3. SessionsInv => SessionsBounded
  <2> SUFFICES ASSUME SessionsInv PROVE Cardinality(Present) <= Room
    BY DEF SessionsBounded, Room
  <2>1. Left({}) = Present /\ {} \in SUBSET Dropping
    BY DEF Left
  <2>2. Cardinality({}) = 0
    BY FS_EmptySet
  <2>3. Cardinality(Present) + Cardinality(Creating) + Cardinality({}) <= Room
    BY <2>1 DEF SessionsInv
  <2>4. /\ Cardinality(Present) \in Nat /\ Cardinality(Creating) \in Nat /\ Room \in Nat
    BY Countable, FS_CardinalityType
  <2> QED
    BY <2>2, <2>3, <2>4
<1> QED
  BY <1>1, <1>2, <1>3, TypeCorrect, PTL DEF Spec

-----------------------------------------------------------------------------
(* How many sessions there can be on the strength of an old password.      *)

LoggingIn == {"list sessions", "drop oldest", "create session"}

LEMMA StaleAreLoggingIn ==
    /\ StaleLogins = {h \in Handlers : req[h].step \in LoggingIn /\ req[h].known # password}
    /\ StaleLogins' = {h \in Handlers : req'[h].step \in LoggingIn /\ req'[h].known # password'}
  BY DEF StaleLogins, At, LoggingIn

LEMMA StaleCountable ==
    /\ IsFiniteSet(StaleSessions) /\ IsFiniteSet(StaleLogins)
    /\ Cardinality(Handlers) \in Nat \ {0}
<1>1. StaleSessions \in SUBSET SessionIds /\ StaleLogins \in SUBSET Handlers
  BY DEF StaleSessions, Present, StaleLogins, At
<1> QED
  BY <1>1, FiniteAlways

(* No session is left, and one handler is not logging in.                  *)
LEMMA NoneIsStale ==
    ASSUME NEW h \in Handlers, Present' = {}, req'[h].step = "idle"
    PROVE  StaleLoginsBounded'
<1>1. StaleLogins' \in SUBSET (Handlers \ {h})
  BY StaleAreLoggingIn DEF LoggingIn
<1>2. /\ Cardinality(StaleLogins') \in Nat
      /\ Cardinality(StaleLogins') + 1 <= Cardinality(Handlers)
  BY <1>1, AccountHandlersAssumption, OneLess
<1>3. StaleSessions' = {}
  BY DEF StaleSessions
<1>4. Cardinality(StaleSessions') = 0
  BY <1>3, FS_EmptySet
<1>5. Cardinality(StaleSessions') + Cardinality(StaleLogins') <= Cardinality(Handlers) - 1
  BY <1>2, <1>4, StaleCountable
<1> QED
  BY <1>5 DEF StaleLoginsBounded

LEMMA SumsFall ==
    ASSUME NEW a \in Nat, NEW b \in Nat, NEW c \in Nat, NEW d \in Nat, NEW n \in Nat,
           a + b <= n - 1, c <= a, d <= b
    PROVE  c + d <= n - 1
  OBVIOUS

(* The password stays, no session and no login becomes a stale one.        *)
LEMMA StaleFrame ==
    ASSUME StaleLoginsBounded, FewerSessions, password' = password,
           StaleLogins' \subseteq StaleLogins,
           failures > 0 => failures' > 0,
           At("delete sessions") \subseteq At("delete sessions")' \/ failures' > 0
    PROVE  StaleLoginsBounded'
<1>1. CASE failures' > 0 \/ At("delete sessions")' # {}
  BY <1>1 DEF StaleLoginsBounded
<1>2. CASE ~(failures' > 0 \/ At("delete sessions")' # {})
  <2>1. Cardinality(StaleSessions) + Cardinality(StaleLogins) <= Cardinality(Handlers) - 1
    BY <1>2 DEF StaleLoginsBounded
  <2>2. StaleSessions' \in SUBSET StaleSessions /\ StaleLogins' \in SUBSET StaleLogins
    BY DEF StaleSessions, FewerSessions
  <2>3. /\ Cardinality(StaleSessions') \in Nat /\ Cardinality(StaleSessions) \in Nat
        /\ Cardinality(StaleSessions') <= Cardinality(StaleSessions)
    BY <2>2, StaleCountable, Smaller
  <2>4. /\ Cardinality(StaleLogins') \in Nat /\ Cardinality(StaleLogins) \in Nat
        /\ Cardinality(StaleLogins') <= Cardinality(StaleLogins)
    BY <2>2, StaleCountable, Smaller
  <2>5. Cardinality(StaleSessions') + Cardinality(StaleLogins') <= Cardinality(Handlers) - 1
    BY <2>1, <2>3, <2>4, StaleCountable, SumsFall
  <2> QED
    BY <2>5 DEF StaleLoginsBounded
<1> QED
  BY <1>1, <1>2

(* A login that compared an old password becomes a session that did.       *)
LEMMA CreateStale ==
    ASSUME TypeOK, StaleLoginsBounded, NEW h \in Handlers, CreateSession(h)
    PROVE  StaleLoginsBounded'
<1>1. /\ req[h].step = "create session" /\ Others(h) /\ req'[h].step = "idle"
      /\ password' = password /\ failures' = failures
  BY OneHandlerMoves, IdleIsARequest DEF CreateSession, Finish, Step, TypeOK, account
<1>2. PICK s \in SessionIds :
        sessions' = [sessions EXCEPT ![s] =
          [state |-> "live", under |-> password, compared |-> req[h].known]]
  BY DEF CreateSession
<1>3. /\ sessions'[s].compared = req[h].known
      /\ \A t \in Present' : t = s \/ (t \in Present /\ sessions'[t] = sessions[t])
  BY <1>2 DEF Present, TypeOK
<1>4. /\ StaleLogins' \in SUBSET (StaleLogins \ {h})
      /\ req[h].known # password => h \in StaleLogins
  BY <1>1, StaleAreLoggingIn DEF Others, LoggingIn
<1>5. At("delete sessions") \subseteq At("delete sessions")'
  BY <1>1, StepRemains
<1>6. CASE failures > 0 \/ At("delete sessions") # {}
  BY <1>1, <1>5, <1>6 DEF StaleLoginsBounded
<1>7. CASE ~(failures > 0 \/ At("delete sessions") # {})
  <2>1. Cardinality(StaleSessions) + Cardinality(StaleLogins) <= Cardinality(Handlers) - 1
    BY <1>7 DEF StaleLoginsBounded
  <2>2. CASE req[h].known = password
    <3>1. StaleSessions' \in SUBSET StaleSessions /\ StaleLogins' \in SUBSET StaleLogins
      BY <1>1, <1>3, <1>4, <2>2 DEF StaleSessions
    <3>2. /\ Cardinality(StaleSessions') \in Nat /\ Cardinality(StaleSessions) \in Nat
          /\ Cardinality(StaleSessions') <= Cardinality(StaleSessions)
      BY <3>1, StaleCountable, Smaller
    <3>3. /\ Cardinality(StaleLogins') \in Nat /\ Cardinality(StaleLogins) \in Nat
          /\ Cardinality(StaleLogins') <= Cardinality(StaleLogins)
      BY <3>1, StaleCountable, Smaller
    <3>4. Cardinality(StaleSessions') + Cardinality(StaleLogins') <= Cardinality(Handlers) - 1
      BY <2>1, <3>2, <3>3, StaleCountable
    <3> QED
      BY <3>4 DEF StaleLoginsBounded
  <2>3. CASE req[h].known # password
    <3>1. StaleSessions' \in SUBSET (StaleSessions \cup {s})
      BY <1>1, <1>3 DEF StaleSessions
    <3>2. /\ Cardinality(StaleSessions') \in Nat /\ Cardinality(StaleSessions) \in Nat
          /\ Cardinality(StaleSessions') <= Cardinality(StaleSessions) + 1
      BY <3>1, StaleCountable, OneMore
    <3>3. /\ Cardinality(StaleLogins') \in Nat /\ Cardinality(StaleLogins) \in Nat
          /\ Cardinality(StaleLogins') + 1 <= Cardinality(StaleLogins)
      BY <1>4, <2>3, StaleCountable, OneLess
    <3>4. Cardinality(StaleSessions') + Cardinality(StaleLogins') <= Cardinality(Handlers) - 1
      BY <2>1, <3>2, <3>3, StaleCountable
    <3> QED
      BY <3>4 DEF StaleLoginsBounded
  <2> QED
    BY <2>2, <2>3
<1> QED
  BY <1>6, <1>7

(* A login that starts has compared the password that there is now; one    *)
(* that goes on keeps what it has compared.                                *)
LEMMA LoginsKeepTheirPassword ==
    ASSUME TypeOK, NEW h \in Handlers,
           \/ NewRequest(h)
           \/ ListSessions(h) \/ DropOldest(h) \/ ReadUser(h) \/ EndSession(h)
           \/ CreateLink(h) \/ InvalidateOthers(h) \/ SendMail(h) \/ DropLink(h)
           \/ Claim(h) /\ ~Goto(h, "delete sessions")
    PROVE  password' = password /\ StaleLogins' \subseteq StaleLogins
<1>1. password' = password
  BY DEF NewRequest, LoginUser, Authenticate, RequestPasswordReset, ConfirmPasswordReset,
         ListSessions, DropOldest, ReadUser, EndSession, CreateLink, InvalidateOthers,
         SendMail, DropLink, Claim, account
<1>2. Others(h)
  BY OneHandlerMoves DEF Step
<1>3. ASSUME req'[h].step \in LoggingIn
      PROVE  \/ req'[h].known = password
             \/ req[h].step \in LoggingIn /\ req'[h].known = req[h].known
  <2>1. ASSUME NEW step \in Steps, Goto(h, step)
        PROVE  req'[h].step = step /\ req'[h].known = req[h].known
    BY <2>1 DEF Goto, TypeOK, Request
  <2>2. ASSUME Finish(h) PROVE FALSE
    <3>1. req'[h].step = "idle"
      BY <2>2, IdleIsARequest DEF Finish, TypeOK
    <3> QED
      BY <1>3, <3>1 DEF LoggingIn
  <2>3. CASE NewRequest(h)
    <3>1. ASSUME NEW p \in Passwords, LoginUser(h, p) PROVE req'[h].known = password
      <4>1. req'[h] = [Idle EXCEPT !.step = "list sessions", !.known = p] /\ p = password
        BY <3>1 DEF LoginUser, Start, TypeOK
      <4> QED
        BY <4>1 DEF Idle
    <3>2. CASE ~\E p \in Passwords : LoginUser(h, p)
      <4>1. ASSUME NEW task, NEW s, NEW known, NEW new, Authenticate(h, task, s, known, new)
            PROVE  FALSE
        <5> DEFINE step == IF sessions[s].state = "live" THEN "read user" ELSE "end session"
        <5>1. req'[h] = [Idle EXCEPT !.task = task, !.session = s, !.known = known,
                                     !.new = new, !.step = step]
          BY <4>1 DEF Authenticate, Start, TypeOK
        <5>2. step \in {"read user", "end session"}
          OBVIOUS
        <5> HIDE DEF step
        <5>3. req'[h].step = step
          BY <5>1 DEF Idle
        <5> QED
          BY <1>3, <5>2, <5>3 DEF LoggingIn
      <4>2. ASSUME RequestPasswordReset(h) PROVE FALSE
        <5>1. req'[h] = [Idle EXCEPT !.step = "create link"]
          BY <4>2 DEF RequestPasswordReset, Start, TypeOK
        <5>2. req'[h].step = "create link"
          BY <5>1 DEF Idle
        <5> QED
          BY <1>3, <5>2 DEF LoggingIn
      <4>3. ASSUME NEW l \in LinkIds, NEW new \in Passwords, ConfirmPasswordReset(h, l, new)
            PROVE  FALSE
        <5> DEFINE early == links[l] # "expired"
        <5>1. req'[h] = [Idle EXCEPT !.step = "claim", !.link = l, !.new = new,
                                     !.inTime = early]
          BY <4>3 DEF ConfirmPasswordReset, Start, TypeOK
        <5> HIDE DEF early
        <5>2. req'[h].step = "claim"
          BY <5>1 DEF Idle
        <5> QED
          BY <1>3, <5>2 DEF LoggingIn
      <4> QED
        BY <2>3, <3>2, <4>1, <4>2, <4>3 DEF NewRequest
    <3> QED
      BY <3>1, <3>2
  <2>4. CASE ListSessions(h)
    <3>1. req[h].step = "list sessions"
      BY <2>4 DEF ListSessions
    <3>2. CASE Goto(h, "create session")
      BY <2>1, <3>1, <3>2 DEF Steps, LoggingIn
    <3>3. CASE ~Goto(h, "create session")
      <4> DEFINE doomed == Oldest(Cardinality(Present) - MaxSessions + 1)
      <4>1. req' = [req EXCEPT ![h] = [req[h] EXCEPT !.step = "drop oldest", !.doomed = doomed]]
        BY <2>4, <3>3 DEF ListSessions
      <4> HIDE DEF doomed
      <4>2. req'[h].known = req[h].known
        BY <4>1 DEF TypeOK, Request
      <4> QED
        BY <3>1, <4>2 DEF LoggingIn
    <3> QED
      BY <3>2, <3>3
  <2>5. CASE DropOldest(h)
    BY <2>1, <2>5 DEF DropOldest, Steps, LoggingIn
  <2>6. CASE CreateLink(h)
    <3>1. req'[h].step = "invalidate"
      BY <2>6 DEF CreateLink, TypeOK, Request
    <3> QED
      BY <1>3, <3>1 DEF LoggingIn
  <2>7. CASE Claim(h) /\ ~Goto(h, "delete sessions")
    BY <2>2, <2>7 DEF Claim
  <2>8. CASE ReadUser(h) \/ EndSession(h) \/ InvalidateOthers(h) \/ SendMail(h) \/ DropLink(h)
    <3>1. \/ Finish(h) \/ Goto(h, "end session") \/ Goto(h, "delete account")
          \/ Goto(h, "update password") \/ Goto(h, "send mail") \/ Goto(h, "drop link")
      BY <2>8 DEF ReadUser, EndSession, InvalidateOthers, SendMail, DropLink
    <3>2. ASSUME NEW step \in {"end session", "delete account", "update password",
                               "send mail", "drop link"}, Goto(h, step)
          PROVE  FALSE
      <4>1. step \in Steps /\ step \notin LoggingIn
        BY DEF Steps, LoggingIn
      <4> QED
        BY <1>3, <2>1, <3>2, <4>1
    <3> QED
      BY <2>2, <3>1, <3>2
  <2> QED
    BY <2>3, <2>4, <2>5, <2>6, <2>7, <2>8
<1> QED
  BY <1>1, <1>2, <1>3, StaleAreLoggingIn DEF Others

LEMMA StaleStep ==
    ASSUME TypeOK, StaleLoginsBounded, [Next]_vars
    PROVE  StaleLoginsBounded'
<1>1. ASSUME NEW h \in Handlers, Goto(h, "delete sessions") PROVE StaleLoginsBounded'
  <2>1. req'[h].step = "delete sessions"
    BY <1>1 DEF Goto, TypeOK, Request
  <2> QED
    BY <2>1 DEF StaleLoginsBounded, At
<1>2. ASSUME NEW h \in Handlers, sessions' = WithoutSessions(Present), Finish(h)
      PROVE  StaleLoginsBounded'
  <2>1. Present' = {}
    BY <1>2, FewerWithout
  <2>2. req'[h].step = "idle"
    BY <1>2, IdleIsARequest DEF Finish, TypeOK
  <2> QED
    BY <2>1, <2>2, NoneIsStale
<1>3. ASSUME NEW h \in Handlers, ~CreateSession(h), NewRequest(h) \/ Step(h) \/ Fail(h),
             FewerSessions
      PROVE  StaleLoginsBounded'
  <2>1. CASE UpdatePassword(h)
    BY <1>1, <2>1 DEF UpdatePassword
  <2>2. CASE DeleteSessions(h) \/ DeleteOwnAccount(h)
    BY <1>2, <2>2 DEF DeleteSessions, DeleteOwnAccount
  <2>3. CASE Claim(h) /\ Goto(h, "delete sessions")
    BY <1>1, <2>3
  <2>4. CASE Fail(h)
    <3>1. failures' > 0
      BY <2>4 DEF Fail, TypeOK
    <3> QED
      BY <3>1 DEF StaleLoginsBounded
  <2>5. CASE \/ NewRequest(h)
             \/ ListSessions(h) \/ DropOldest(h) \/ ReadUser(h) \/ EndSession(h)
             \/ CreateLink(h) \/ InvalidateOthers(h) \/ SendMail(h) \/ DropLink(h)
             \/ Claim(h) /\ ~Goto(h, "delete sessions")
    <3>1. failures' = failures /\ req[h].step # "delete sessions"
      BY <2>5 DEF NewRequest, LoginUser, Authenticate, RequestPasswordReset,
                  ConfirmPasswordReset, Start, ListSessions, DropOldest, ReadUser,
                  EndSession, CreateLink, InvalidateOthers, SendMail, DropLink, Claim
    <3>2. At("delete sessions") \subseteq At("delete sessions")'
      BY <1>3, <3>1, OneHandlerMoves, StepRemains
    <3>3. password' = password /\ StaleLogins' \subseteq StaleLogins
      BY <2>5, LoginsKeepTheirPassword
    <3> QED
      BY <1>3, <3>1, <3>2, <3>3, StaleFrame
  <2> QED
    BY <1>3, <2>1, <2>2, <2>3, <2>4, <2>5 DEF Step
<1>4. CASE \/ \E s \in SessionIds : ExpireSession(s)
           \/ PurgeExpiredSessions
           \/ \E l \in LinkIds : ExpireLink(l)
           \/ UNCHANGED vars
  <2>1. password' = password /\ failures' = failures /\ req' = req
    BY <1>4 DEF ExpireSession, PurgeExpiredSessions, ExpireLink, vars, account
  <2>2. FewerSessions
    <3>1. ASSUME NEW h \in Handlers, CreateSession(h) PROVE FALSE
      <4>1. req'[h].step = "idle" /\ req[h].step = "create session"
        BY <3>1, IdleIsARequest DEF CreateSession, Finish, TypeOK
      <4> QED
        BY <2>1, <4>1
    <3> QED
      BY <3>1, SessionsFall
  <2>3. /\ StaleLogins' = StaleLogins
        /\ At("delete sessions")' = At("delete sessions")
    BY <2>1, StaleAreLoggingIn DEF At
  <2> QED
    BY <2>1, <2>2, <2>3, StaleFrame
<1> QED
  BY <1>3, <1>4, CreateStale, SessionsFall DEF Next

(* A login compares the password and creates its session statements later, *)
(* so one that overlaps a change leaves a session that nobody deletes; but *)
(* never more of them than requests that can overlap the change.           *)
THEOREM StaleLoginsStayBounded == Spec => []StaleLoginsBounded
<1>1. Init => StaleLoginsBounded
  <2> SUFFICES ASSUME Init PROVE StaleLoginsBounded
    OBVIOUS
  <2>1. StaleSessions = {} /\ StaleLogins = {}
    <3>1. Present = {} /\ \A step \in Steps \ {"idle"} : At(step) = {}
      BY NothingYet
    <3>2. LoggingIn \subseteq Steps \ {"idle"}
      BY DEF LoggingIn, Steps
    <3> QED
      BY <3>1, <3>2 DEF StaleSessions, StaleLogins, LoggingIn
  <2>2. Cardinality(StaleSessions) = 0 /\ Cardinality(StaleLogins) = 0
    BY <2>1, FS_EmptySet
  <2>3. Cardinality(StaleSessions) + Cardinality(StaleLogins) <= Cardinality(Handlers) - 1
    BY <2>2, StaleCountable
  <2> QED
    BY <2>3 DEF StaleLoginsBounded
<1>2. TypeOK /\ StaleLoginsBounded /\ [Next]_vars => StaleLoginsBounded'
  BY StaleStep
<1> QED
  BY <1>1, <1>2, TypeCorrect, PTL DEF Spec

-----------------------------------------------------------------------------
(* How many reset links there can be. *)

Invalidating == At("invalidate")

LEMMA LinksCountable ==
    IsFiniteSet(Unclaimed) /\ IsFiniteSet(Invalidating)
  BY FiniteAlways DEF Unclaimed, Invalidating, At

LEMMA LinksFrame ==
    ASSUME TypeOK, UnclaimedLinksBounded, Unclaimed' \subseteq Unclaimed,
           Invalidating \subseteq Invalidating', Invalidating' \subseteq Handlers,
           failures' = failures
    PROVE  UnclaimedLinksBounded'
<1>1. /\ Cardinality(Unclaimed) \in Nat /\ Cardinality(Unclaimed') \in Nat
      /\ Cardinality(Unclaimed') <= Cardinality(Unclaimed)
  BY LinksCountable, Smaller
<1>2. /\ Cardinality(Invalidating) \in Nat /\ Cardinality(Invalidating') \in Nat
      /\ Cardinality(Invalidating) <= Cardinality(Invalidating')
  BY FiniteAlways, Smaller
<1>3. failures \in Nat
  BY DEF TypeOK
<1> QED
  BY <1>1, <1>2, <1>3 DEF UnclaimedLinksBounded, Invalidating

LEMMA CreateLinkStep ==
    ASSUME TypeOK, UnclaimedLinksBounded, NEW h \in Handlers, CreateLink(h)
    PROVE  UnclaimedLinksBounded'
<1> PICK l \in LinkIds :
        /\ links' = [links EXCEPT ![l] = "open"]
        /\ req' = [req EXCEPT ![h].link = l, ![h].step = "invalidate"]
  BY DEF CreateLink
<1>1. Unclaimed' \in SUBSET (Unclaimed \cup {l})
  BY DEF Unclaimed, TypeOK
<1>2. /\ h \notin Invalidating /\ failures' = failures
      /\ Others(h) /\ req'[h].step = "invalidate"
  <2> DEFINE r == [req[h] EXCEPT !.link = l, !.step = "invalidate"]
  <2>1. r.step = "invalidate"
    BY DEF TypeOK, Request
  <2>2. req' = [req EXCEPT ![h] = r]
    OBVIOUS
  <2> HIDE DEF r
  <2>3. req'[h].step = "invalidate"
    BY <2>1, <2>2 DEF TypeOK
  <2>4. Others(h)
    BY OneHandlerMoves DEF Step
  <2> QED
    BY <2>3, <2>4 DEF CreateLink, Invalidating, At
<1>3. Invalidating' = Invalidating \cup {h}
  BY <1>2 DEF Invalidating, At, Others
<1>4. /\ Cardinality(Unclaimed) \in Nat /\ Cardinality(Unclaimed') \in Nat
      /\ Cardinality(Unclaimed') <= Cardinality(Unclaimed) + 1
  BY <1>1, LinksCountable, OneMore
<1>5. /\ Cardinality(Invalidating) \in Nat
      /\ Cardinality(Invalidating') = Cardinality(Invalidating) + 1
  BY <1>2, <1>3, LinksCountable, OneNew
<1>6. failures \in Nat
  BY DEF TypeOK
<1> QED
  BY <1>2, <1>4, <1>5, <1>6 DEF UnclaimedLinksBounded, Invalidating

LEMMA InvalidateStep ==
    ASSUME AInv, NEW h \in Handlers, InvalidateOthers(h)
    PROVE  UnclaimedLinksBounded'
<1>1. Unclaimed' \in SUBSET {req[h].link}
  BY DEF Unclaimed, InvalidateOthers
<1>2. Cardinality(Unclaimed') \in Nat /\ Cardinality(Unclaimed') <= 1
  <2>1. IsFiniteSet({req[h].link}) /\ Cardinality({req[h].link}) = 1
    BY FS_Singleton
  <2> QED
    BY <1>1, <2>1, Smaller
<1>3. Cardinality(Invalidating') \in Nat
  <2>1. Invalidating' \in SUBSET Handlers
    BY DEF Invalidating, At
  <2> QED
    BY <2>1, FiniteAlways, FS_CardinalityType
<1>4. failures' \in Nat
  BY DEF InvalidateOthers, AInv, TypeOK
<1> QED
  BY <1>2, <1>3, <1>4 DEF UnclaimedLinksBounded, Invalidating

LEMMA FailLinkStep ==
    ASSUME TypeOK, UnclaimedLinksBounded, NEW h \in Handlers, Fail(h)
    PROVE  UnclaimedLinksBounded'
<1>1. Unclaimed' = Unclaimed /\ failures' = failures + 1 /\ failures \in Nat
  BY DEF Fail, tables, Unclaimed, TypeOK
<1>2. Invalidating \in SUBSET (Invalidating' \cup {h}) /\ IsFiniteSet(Invalidating')
  BY OneHandlerMoves, FiniteAlways DEF Invalidating, At, Others
<1>3. /\ Cardinality(Invalidating) \in Nat /\ Cardinality(Invalidating') \in Nat
      /\ Cardinality(Invalidating) <= Cardinality(Invalidating') + 1
  BY <1>2, OneMore
<1>4. Cardinality(Unclaimed) \in Nat
  BY LinksCountable, FS_CardinalityType
<1> QED
  BY <1>1, <1>3, <1>4 DEF UnclaimedLinksBounded, Invalidating

LEMMA LinksStep ==
    ASSUME AInv, UnclaimedLinksBounded, [Next]_vars
    PROVE  UnclaimedLinksBounded'
<1>0. TypeOK
  BY DEF AInv
<1>1. ASSUME NEW h \in Handlers, NewRequest(h) \/ Step(h) \/ Fail(h)
      PROVE  UnclaimedLinksBounded'
  <2>1. CASE CreateLink(h)
    BY <1>0, <2>1, CreateLinkStep
  <2>2. CASE InvalidateOthers(h)
    BY <2>2, InvalidateStep
  <2>3. CASE Fail(h)
    BY <1>0, <2>3, FailLinkStep
  <2>4. CASE (NewRequest(h) \/ Step(h)) /\ ~CreateLink(h) /\ ~InvalidateOthers(h)
    <3>1. req[h].step # "invalidate" /\ failures' = failures
      BY <2>4 DEF NewRequest, LoginUser, Authenticate, RequestPasswordReset,
                  ConfirmPasswordReset, Start, Step, ListSessions, DropOldest,
                  CreateSession, ReadUser, EndSession, UpdatePassword, DeleteSessions,
                  DeleteOwnAccount, SendMail, DropLink, Claim
    <3>2. \/ links' = links \/ links' = [links EXCEPT ![req[h].link] = "deleted"]
          \/ links' = [links EXCEPT ![req[h].link] = "used"]
      BY <2>4 DEF NewRequest, LoginUser, Authenticate, RequestPasswordReset,
                  ConfirmPasswordReset, Step, ListSessions, DropOldest,
                  CreateSession, ReadUser, EndSession, UpdatePassword, DeleteSessions,
                  DeleteOwnAccount, SendMail, DropLink, Claim, tables
    <3>3. Unclaimed' \subseteq Unclaimed
      BY <1>0, <3>2 DEF Unclaimed, TypeOK
    <3>4. Invalidating \subseteq Invalidating' /\ Invalidating' \subseteq Handlers
      BY <1>0, <1>1, <3>1, OneHandlerMoves, StepRemains DEF Invalidating, At
    <3> QED
      BY <1>0, <3>1, <3>3, <3>4, LinksFrame
  <2> QED
    BY <1>1, <2>1, <2>2, <2>3, <2>4
<1>2. CASE \/ \E s \in SessionIds : ExpireSession(s)
           \/ PurgeExpiredSessions
           \/ \E l \in LinkIds : ExpireLink(l)
           \/ UNCHANGED vars
  <2>1. /\ failures' = failures /\ req' = req
        /\ links' = links \/ \E l \in LinkIds : /\ links[l] = "open"
                                                /\ links' = [links EXCEPT ![l] = "expired"]
    BY <1>2 DEF ExpireSession, PurgeExpiredSessions, ExpireLink, vars
  <2>2. Unclaimed' \subseteq Unclaimed
    BY <1>0, <2>1 DEF Unclaimed, TypeOK
  <2>3. Invalidating' = Invalidating /\ Invalidating \subseteq Handlers
    BY <2>1 DEF Invalidating, At
  <2> QED
    BY <1>0, <2>1, <2>2, <2>3, LinksFrame
<1> QED
  BY <1>1, <1>2 DEF Next

(* requestPasswordReset creates a link before it deletes the others: there *)
(* is one too many only while a request is between the two, or if one      *)
(* broke off there.                                                        *)
THEOREM LinksStayBounded == Spec => []UnclaimedLinksBounded
<1>1. Init => AInv /\ UnclaimedLinksBounded
  <2> SUFFICES ASSUME Init PROVE UnclaimedLinksBounded
    BY AInvInit
  <2>1. Unclaimed = {} /\ Invalidating = {} /\ failures = 0
    BY NothingYet DEF Invalidating, Steps, Init
  <2> QED
    BY <2>1, FS_EmptySet DEF UnclaimedLinksBounded, Invalidating
<1>2. AInv /\ UnclaimedLinksBounded /\ [Next]_vars => (AInv /\ UnclaimedLinksBounded)'
  BY AInvNext, LinksStep
<1> QED
  BY <1>1, <1>2, PTL DEF Spec

-----------------------------------------------------------------------------
(* One request at a time implements AccountPromise.                        *)

(* What the request in flight can rely on: nobody deletes the account      *)
(* after it was seen, nor changes the password that a login has compared,  *)
(* the new password is one, and there is a single link except while a new  *)
(* one replaces it.                                                        *)
SeenAlive == {"update password", "delete account", "create link", "invalidate"}
OneUnclaimed == \A k, l \in Unclaimed : k = l
Relies(h) ==
    /\ req[h].step \in SeenAlive => ~deleted
    /\ req[h].step \in {"list sessions", "drop oldest", "create session"} => password # Null
    /\ req[h].step \in {"update password", "claim"} => req[h].new \in Passwords
    /\ req[h].step = "read user" /\ req[h].task = "change password" => req[h].new \in Passwords
    /\ req[h].step # "invalidate" => OneUnclaimed

(* The mapping, of the request of the only handler and the tables.         *)
ServedSteps == {"read user", "update password", "delete account"}
SessionsSeen(r, present) ==
    IF r.step = "delete sessions" THEN {}
    ELSE IF r.step \in ServedSteps THEN present \cup {r.session} ELSE present
Open(rows) == {l \in LinkIds : rows[l] = "open"}
UsableSeen(r, rows) ==
    IF r.step = "invalidate" THEN Open(rows) \cap {r.link}
    ELSE IF r.step = "claim" /\ r.inTime
         THEN Open(rows) \cup {l \in LinkIds : l = r.link /\ rows[l] \in {"open", "expired"}}
         ELSE Open(rows)

LEMMA MappingOfOne ==
    ASSUME NEW h, Handlers = {h}
    PROVE  /\ OwnSessions = SessionsSeen(req[h], Present)
           /\ UsableLinks = UsableSeen(req[h], links)
<1>1. /\ \A step : (At(step) = IF req[h].step = step THEN {h} ELSE {})
  BY DEF At
<1>2. Served = IF req[h].step \in ServedSteps THEN {req[h].session} ELSE {}
  BY <1>1 DEF Served, ServedSteps
<1>3. OwnSessions = SessionsSeen(req[h], Present)
  BY <1>1, <1>2 DEF OwnSessions, SessionsSeen, ServedSteps
<1>4. InUse = IF req[h].step = "claim" /\ req[h].inTime THEN {req[h].link} ELSE {}
  BY <1>1 DEF InUse
<1>5. UsableLinks = UsableSeen(req[h], links)
  <2>1. CASE req[h].step = "invalidate"
    <3>1. {req[g].link : g \in At("invalidate")} = {req[h].link} /\ InUse = {}
      BY <1>1, <1>4, <2>1
    <3> QED
      BY <1>1, <2>1, <3>1 DEF UsableLinks, Claimable, UsableSeen, Open
  <2>2. CASE req[h].step # "invalidate"
    BY <1>1, <1>4, <2>2 DEF UsableLinks, Claimable, UsableSeen, Open, Unclaimed
  <2> QED
    BY <2>1, <2>2
<1> QED
  BY <1>3, <1>5

LEMMA MappingOfOneNext ==
    ASSUME NEW h, Handlers = {h}
    PROVE  /\ OwnSessions' = SessionsSeen(req'[h], Present')
           /\ UsableLinks' = UsableSeen(req'[h], links')
<1>1. /\ \A step : (At(step)' = IF req'[h].step = step THEN {h} ELSE {})
  BY DEF At
<1>2. Served' = IF req'[h].step \in ServedSteps THEN {req'[h].session} ELSE {}
  BY <1>1 DEF Served, ServedSteps
<1>3. OwnSessions' = SessionsSeen(req'[h], Present')
  BY <1>1, <1>2 DEF OwnSessions, SessionsSeen, ServedSteps
<1>4. InUse' = IF req'[h].step = "claim" /\ req'[h].inTime THEN {req'[h].link} ELSE {}
  BY <1>1 DEF InUse
<1>5. UsableLinks' = UsableSeen(req'[h], links')
  <2>1. CASE req'[h].step = "invalidate"
    <3>1. {req'[g].link : g \in At("invalidate")'} = {req'[h].link} /\ InUse' = {}
      BY <1>1, <1>4, <2>1
    <3> QED
      BY <1>1, <2>1, <3>1 DEF UsableLinks, Claimable, UsableSeen, Open
  <2>2. CASE req'[h].step # "invalidate"
    BY <1>1, <1>4, <2>2 DEF UsableLinks, Claimable, UsableSeen, Open, Unclaimed
  <2> QED
    BY <2>1, <2>2
<1> QED
  BY <1>3, <1>5

(* A step of the promise, or none.                                         *)
Keeps == [Promise!Next]_(Promise!vars)
NothingSeen ==
    /\ password' = password /\ deleted' = deleted
    /\ OwnSessions' = OwnSessions /\ UsableLinks' = UsableLinks

LEMMA NothingSeenKeeps == ASSUME NothingSeen PROVE Keeps
  BY DEF NothingSeen, Keeps, Promise!vars

LEMMA SessionsEndKeeps ==
    ASSUME UNCHANGED <<password, deleted>>, UsableLinks' = UsableLinks,
           OwnSessions' \subseteq OwnSessions
    PROVE  Keeps
<1>1. Promise!EndSessions
  BY DEF Promise!EndSessions
<1> QED
  BY <1>1 DEF Keeps, Promise!Next

LEMMA LinkEndsKeeps ==
    ASSUME UNCHANGED <<password, deleted>>, OwnSessions' = OwnSessions,
           UsableLinks' = UsableLinks \/ UsableLinks' = {}
    PROVE  Keeps
<1>1. CASE UsableLinks' = UsableLinks
  BY <1>1, NothingSeenKeeps DEF NothingSeen
<1>2. CASE UsableLinks' # UsableLinks
  <2>1. Promise!WithdrawLink
    BY <1>2 DEF Promise!WithdrawLink
  <2> QED
    BY <2>1 DEF Keeps, Promise!Next
<1> QED
  BY <1>1, <1>2

-----------------------------------------------------------------------------
(* A request starts: nothing is seen.                                      *)
LEMMA StartKeeps ==
    ASSUME AInv, NEW h, Handlers = {h}, Relies(h), NewRequest(h)
    PROVE  Relies(h)' /\ Keeps
<1>0. /\ OwnSessions = SessionsSeen(req[h], Present)
      /\ UsableLinks = UsableSeen(req[h], links)
      /\ OwnSessions' = SessionsSeen(req'[h], Present')
      /\ UsableLinks' = UsableSeen(req'[h], links')
  BY MappingOfOne, MappingOfOneNext
<1>1. ASSUME NEW r, req' = [req EXCEPT ![h] = r], req[h].step = "idle",
             UNCHANGED <<account, tables, failures>>,
             r.step \in SeenAlive => ~deleted,
             r.step \in {"list sessions", "drop oldest", "create session"} => password # Null,
             r.step \in {"update password", "claim"} => r.new \in Passwords,
             r.step = "read user" /\ r.task = "change password" => r.new \in Passwords,
             r.step \notin {"delete sessions", "invalidate"},
             r.step \in ServedSteps => r.session \in Present,
             r.step = "claim" /\ r.inTime => r.link \in LinkIds /\ links[r.link] # "expired"
      PROVE  Relies(h)' /\ Keeps
  <2>1. /\ password' = password /\ deleted' = deleted /\ sessions' = sessions
        /\ links' = links /\ req'[h] = r
    BY <1>1 DEF account, tables, AInv, TypeOK
  <2>2. Present' = Present /\ Unclaimed' = Unclaimed
    BY <2>1 DEF Present, Unclaimed
  <2>3. Relies(h)'
    BY <1>1, <2>1, <2>2 DEF Relies, OneUnclaimed
  <2>4. SessionsSeen(r, Present) = Present /\ SessionsSeen(req[h], Present) = Present
    BY <1>1 DEF SessionsSeen, ServedSteps
  <2>5. UsableSeen(r, links) = Open(links) /\ UsableSeen(req[h], links) = Open(links)
    BY <1>1 DEF UsableSeen, Open
  <2>6. NothingSeen
    BY <1>0, <2>1, <2>2, <2>4, <2>5 DEF NothingSeen
  <2> QED
    BY <2>3, <2>6, NothingSeenKeeps
<1>2. ASSUME NEW p \in Passwords, LoginUser(h, p)
      PROVE  Relies(h)' /\ Keeps
  <2>1. PICK r : r = [Idle EXCEPT !.step = "list sessions", !.known = p]
    OBVIOUS
  <2>2. r.step = "list sessions"
    BY <2>1 DEF Idle
  <2> QED
    BY <1>1, <1>2, <2>1, <2>2, AccountNullAssumption DEF LoginUser, Start, SeenAlive, ServedSteps
<1>3. ASSUME NEW task \in Tasks, NEW s \in SessionIds, NEW known, NEW new,
             task = "change password" => new \in Passwords,
             Authenticate(h, task, s, known, new)
      PROVE  Relies(h)' /\ Keeps
  <2>1. PICK step, r : /\ step = IF sessions[s].state = "live" THEN "read user" ELSE "end session"
                       /\ r = [Idle EXCEPT !.task = task, !.session = s, !.known = known,
                                           !.new = new, !.step = step]
    OBVIOUS
  <2>2. /\ r.step = step /\ r.task = task /\ r.session = s /\ r.new = new
        /\ step \in {"read user", "end session"}
    BY <2>1 DEF Idle
  <2>3. s \in Present
    BY <1>3 DEF Authenticate, Present
  <2>4. /\ req' = [req EXCEPT ![h] = r] /\ req[h].step = "idle"
        /\ UNCHANGED <<account, tables, failures>>
    BY <1>3, <2>1 DEF Authenticate, Start
  <2> QED
    BY <1>1, <1>3, <2>2, <2>3, <2>4 DEF SeenAlive
<1>4. ASSUME RequestPasswordReset(h)
      PROVE  Relies(h)' /\ Keeps
  <2>1. PICK r : r = [Idle EXCEPT !.step = "create link"]
    OBVIOUS
  <2>2. r.step = "create link"
    BY <2>1 DEF Idle
  <2> QED
    BY <1>1, <1>4, <2>1, <2>2 DEF RequestPasswordReset, Start, ServedSteps
<1>5. ASSUME NEW l \in LinkIds, NEW new \in Passwords, ConfirmPasswordReset(h, l, new)
      PROVE  Relies(h)' /\ Keeps
  <2>1. PICK early, r : /\ early = (links[l] # "expired")
                        /\ r = [Idle EXCEPT !.step = "claim", !.link = l, !.new = new,
                                            !.inTime = early]
    OBVIOUS
  <2>2. r.step = "claim" /\ r.link = l /\ r.new = new /\ r.inTime = early
    BY <2>1 DEF Idle
  <2>3. /\ req' = [req EXCEPT ![h] = r] /\ req[h].step = "idle"
        /\ UNCHANGED <<account, tables, failures>>
    BY <1>5, <2>1 DEF ConfirmPasswordReset, Start
  <2> QED
    BY <1>1, <2>1, <2>2, <2>3 DEF SeenAlive, ServedSteps
<1>6. "logout" \in Tasks /\ "delete account" \in Tasks /\ "change password" \in Tasks
  BY DEF Tasks
<1> QED
  BY <1>2, <1>3, <1>4, <1>5, <1>6 DEF NewRequest

-----------------------------------------------------------------------------
(* Logging in and out. *)

(* A step of a session: no link is touched.                                *)
LEMMA LinksUntouched ==
    ASSUME AInv, NEW h, Handlers = {h}, Relies(h), NEW r, req' = [req EXCEPT ![h] = r],
           links' = links,
           {req[h].step, r.step} \cap {"invalidate", "claim"} = {}
    PROVE  UsableLinks' = UsableLinks /\ (OneUnclaimed)'
<1>1. req'[h] = r /\ Unclaimed' = Unclaimed
  BY DEF AInv, TypeOK, Unclaimed
<1>2. UsableSeen(r, links) = Open(links) /\ UsableSeen(req[h], links) = Open(links)
  BY DEF UsableSeen
<1> QED
  BY <1>1, <1>2, MappingOfOne, MappingOfOneNext DEF Relies, OneUnclaimed

LEMMA DroppedArePresent ==
    ASSUME NEW gone, sessions' = WithoutSessions(gone)
    PROVE  Present' = Present \ gone
  BY DEF WithoutSessions, Present

LEMMA SessionStepKeeps ==
    ASSUME AInv, NEW h, Handlers = {h}, Relies(h), SessionsBounded',
           ListSessions(h) \/ DropOldest(h) \/ CreateSession(h) \/ EndSession(h)
    PROVE  Relies(h)' /\ Keeps
<1>0. /\ OwnSessions = SessionsSeen(req[h], Present)
      /\ OwnSessions' = SessionsSeen(req'[h], Present')
  BY MappingOfOne, MappingOfOneNext
<1>1. CASE ListSessions(h)
  <2>1. PICK r : req' = [req EXCEPT ![h] = r] /\ r.step \in {"drop oldest", "create session"}
    <3>1. PICK n, far : /\ n = Oldest(Cardinality(Present) - MaxSessions + 1)
                        /\ far = [req[h] EXCEPT !.step = "drop oldest", !.doomed = n]
      OBVIOUS
    <3>2. PICK on : on = [req[h] EXCEPT !.step = "create session"]
      OBVIOUS
    <3>3. req' = [req EXCEPT ![h] = far] \/ req' = [req EXCEPT ![h] = on]
      BY <1>1, <3>1, <3>2 DEF ListSessions, Goto
    <3>4. far.step = "drop oldest" /\ on.step = "create session"
      BY <3>1, <3>2 DEF AInv, TypeOK, Request
    <3> QED
      BY <3>3, <3>4
  <2>2. /\ password' = password /\ deleted' = deleted /\ sessions' = sessions
        /\ links' = links /\ req[h].step = "list sessions" /\ req'[h] = r
    BY <1>1, <2>1 DEF ListSessions, account, tables, AInv, TypeOK
  <2>3. UsableLinks' = UsableLinks /\ OneUnclaimed'
    BY <2>1, <2>2, LinksUntouched
  <2>4. Present' = Present
    BY <2>2 DEF Present
  <2>5. OwnSessions' = OwnSessions
    BY <1>0, <2>1, <2>2, <2>4 DEF SessionsSeen, ServedSteps
  <2>6. Relies(h)'
    BY <2>1, <2>2, <2>3 DEF Relies, SeenAlive
  <2> QED
    BY <2>2, <2>3, <2>5, <2>6, NothingSeenKeeps DEF NothingSeen
<1>2. CASE DropOldest(h)
  <2>1. PICK r, gone : /\ req' = [req EXCEPT ![h] = r] /\ r.step = "create session"
                       /\ sessions' = WithoutSessions(gone)
    BY <1>2 DEF DropOldest, Goto, AInv, TypeOK, Request
  <2>2. /\ password' = password /\ deleted' = deleted
        /\ links' = links /\ req[h].step = "drop oldest" /\ req'[h] = r
    BY <1>2, <2>1 DEF DropOldest, account, AInv, TypeOK
  <2>3. UsableLinks' = UsableLinks /\ OneUnclaimed'
    BY <2>1, <2>2, LinksUntouched
  <2>4. Present' \subseteq Present
    BY <2>1, DroppedArePresent
  <2>5. OwnSessions' \subseteq OwnSessions
    BY <1>0, <2>1, <2>2, <2>4 DEF SessionsSeen, ServedSteps
  <2>6. Relies(h)'
    BY <2>1, <2>2, <2>3 DEF Relies, SeenAlive
  <2> QED
    BY <2>2, <2>3, <2>5, <2>6, SessionsEndKeeps
<1>3. CASE CreateSession(h)
  <2>1. PICK s \in FreeSessions :
          sessions' = [sessions EXCEPT ![s] =
                         [state |-> "live", under |-> password, compared |-> req[h].known]]
    BY <1>3 DEF CreateSession, First
  <2>2. /\ password' = password /\ deleted' = deleted /\ links' = links
        /\ req[h].step = "create session" /\ req' = [req EXCEPT ![h] = Idle] /\ req'[h] = Idle
    BY <1>3 DEF CreateSession, Finish, account, AInv, TypeOK
  <2>3. UsableLinks' = UsableLinks /\ OneUnclaimed'
    BY <2>2, IdleIsARequest, LinksUntouched
  <2>4. Present' = Present \cup {s} /\ s \notin Present /\ s \in SessionIds
    BY <2>1 DEF Present, FreeSessions, AInv, TypeOK
  <2>5. OwnSessions = Present /\ OwnSessions' = Present'
    BY <1>0, <2>2, IdleIsARequest DEF SessionsSeen, ServedSteps
  <2>6. Relies(h)' /\ password # Null
    BY <2>2, <2>3, IdleIsARequest DEF Relies, SeenAlive
  <2>7. Cardinality(OwnSessions') <= MaxSessions
    <3>1. Cardinality(Handlers) = 1
      BY FS_Singleton
    <3>2. Cardinality(Present') <= MaxSessions + Cardinality(Handlers) - 1
      BY DEF SessionsBounded
    <3> QED
      BY <2>5, <3>1, <3>2, AccountBoundsAssumption
  <2>8. Promise!Login(s)
    <3>1. Promise!Cardinality(OwnSessions') = Cardinality(OwnSessions')
      BY DEF Promise!Cardinality, Cardinality
    <3> QED
      BY <2>2, <2>3, <2>4, <2>5, <2>6, <2>7, <3>1 DEF Promise!Login
  <2> QED
    BY <2>4, <2>6, <2>8 DEF Keeps, Promise!Next
<1>4. CASE EndSession(h)
  <2>1. PICK gone : sessions' = WithoutSessions(gone)
    BY <1>4 DEF EndSession
  <2>2. /\ password' = password /\ deleted' = deleted /\ links' = links
        /\ req[h].step = "end session" /\ req' = [req EXCEPT ![h] = Idle] /\ req'[h] = Idle
    BY <1>4 DEF EndSession, Finish, account, AInv, TypeOK
  <2>3. UsableLinks' = UsableLinks /\ OneUnclaimed'
    BY <2>2, IdleIsARequest, LinksUntouched
  <2>4. Present' \subseteq Present
    BY <2>1, DroppedArePresent
  <2>5. OwnSessions' \subseteq OwnSessions
    BY <1>0, <2>2, <2>4, IdleIsARequest DEF SessionsSeen, ServedSteps
  <2>6. Relies(h)'
    BY <2>2, <2>3, IdleIsARequest DEF Relies, SeenAlive
  <2> QED
    BY <2>2, <2>3, <2>5, <2>6, SessionsEndKeeps
<1> QED
  BY <1>1, <1>2, <1>3, <1>4

-----------------------------------------------------------------------------
(* The password and the account. *)

LEMMA PasswordStepKeeps ==
    ASSUME AInv, NEW h, Handlers = {h}, Relies(h),
           ReadUser(h) \/ UpdatePassword(h) \/ DeleteSessions(h) \/ DeleteOwnAccount(h)
    PROVE  Relies(h)' /\ Keeps
<1>0. /\ OwnSessions = SessionsSeen(req[h], Present)
      /\ OwnSessions' = SessionsSeen(req'[h], Present')
  BY MappingOfOne, MappingOfOneNext
<1>1. CASE ReadUser(h)
  <2>1. /\ password' = password /\ deleted' = deleted /\ sessions' = sessions
        /\ links' = links /\ req[h].step = "read user"
    BY <1>1 DEF ReadUser, account, tables
  <2>2. Present' = Present
    BY <2>1 DEF Present
  <2>3. ASSUME NEW r, req' = [req EXCEPT ![h] = r], r.session = req[h].session,
               r.new = req[h].new,
               \/ r.step = "end session"
               \/ r.step = "idle"
               \/ r.step = "delete account" /\ ~deleted
               \/ r.step = "update password" /\ ~deleted /\ req[h].task = "change password"
        PROVE  Relies(h)' /\ Keeps
    <3>1. UsableLinks' = UsableLinks /\ OneUnclaimed' /\ req'[h] = r
      BY <2>1, <2>3, LinksUntouched DEF AInv, TypeOK
    <3>2. OwnSessions' \subseteq OwnSessions
      BY <1>0, <2>1, <2>2, <2>3, <3>1 DEF SessionsSeen, ServedSteps
    <3>3. Relies(h)'
      BY <2>1, <2>3, <3>1 DEF Relies, SeenAlive
    <3> QED
      BY <2>1, <3>1, <3>2, <3>3, SessionsEndKeeps
  <2>4. ASSUME NEW step, Goto(h, step),
               \/ step = "end session"
               \/ step = "delete account" /\ ~deleted
               \/ step = "update password" /\ ~deleted /\ req[h].task = "change password"
        PROVE  Relies(h)' /\ Keeps
    <3>1. PICK r : r = [req[h] EXCEPT !.step = step]
      OBVIOUS
    <3>2. /\ req' = [req EXCEPT ![h] = r] /\ r.step = step /\ r.session = req[h].session
          /\ r.new = req[h].new
      BY <2>4, <3>1 DEF Goto, AInv, TypeOK, Request
    <3> QED
      BY <2>3, <2>4, <3>2
  <2>5. CASE Finish(h)
    <3>1. /\ req' = [req EXCEPT ![h] = Idle] /\ req'[h] = Idle /\ Idle.step = "idle"
      BY <2>5, IdleIsARequest DEF Finish, AInv, TypeOK
    <3>2. UsableLinks' = UsableLinks /\ OneUnclaimed'
      BY <2>1, <3>1, LinksUntouched
    <3>3. OwnSessions' \subseteq OwnSessions
      BY <1>0, <2>1, <2>2, <3>1 DEF SessionsSeen, ServedSteps
    <3>4. Relies(h)'
      BY <3>1, <3>2 DEF Relies, SeenAlive
    <3> QED
      BY <2>1, <3>2, <3>3, <3>4, SessionsEndKeeps
  <2>6. \/ Goto(h, "end session")
        \/ ~deleted /\ req[h].task = "delete account" /\ Goto(h, "delete account")
        \/ ~deleted /\ req[h].task = "change password" /\ Goto(h, "update password")
        \/ Finish(h)
    BY <1>1 DEF ReadUser
  <2> QED
    BY <2>4, <2>5, <2>6
<1>2. CASE UpdatePassword(h)
  <2>1. PICK r : r = [req[h] EXCEPT !.step = "delete sessions"]
    OBVIOUS
  <2>2. /\ req' = [req EXCEPT ![h] = r] /\ req'[h] = r /\ r.step = "delete sessions"
        /\ password' = req[h].new /\ deleted' = deleted /\ links' = links
        /\ req[h].step = "update password"
    BY <1>2, <2>1 DEF UpdatePassword, Goto, tables, AInv, TypeOK, Request
  <2>3. UsableLinks' = UsableLinks /\ OneUnclaimed'
    BY <2>2, LinksUntouched
  <2>4. OwnSessions # {} /\ OwnSessions' = {}
    BY <1>0, <2>2 DEF SessionsSeen, ServedSteps
  <2>5. Relies(h)' /\ ~deleted /\ req[h].new \in Passwords
    BY <2>2, <2>3 DEF Relies, SeenAlive
  <2>6. Promise!ChangePassword(req[h].new)
    BY <2>2, <2>3, <2>4, <2>5 DEF Promise!ChangePassword
  <2> QED
    BY <2>5, <2>6 DEF Keeps, Promise!Next
<1>3. CASE DeleteSessions(h)
  <2>1. /\ req' = [req EXCEPT ![h] = Idle] /\ req'[h] = Idle /\ Idle.step = "idle"
        /\ password' = password /\ deleted' = deleted /\ links' = links
        /\ req[h].step = "delete sessions" /\ sessions' = WithoutSessions(Present)
    BY <1>3, IdleIsARequest DEF DeleteSessions, Finish, account, AInv, TypeOK
  <2>2. UsableLinks' = UsableLinks /\ OneUnclaimed'
    BY <2>1, LinksUntouched
  <2>3. Present' = {}
    BY <2>1, DroppedArePresent
  <2>4. OwnSessions' = OwnSessions
    BY <1>0, <2>1, <2>3 DEF SessionsSeen, ServedSteps
  <2>5. Relies(h)'
    BY <2>1, <2>2 DEF Relies, SeenAlive
  <2> QED
    BY <2>1, <2>2, <2>4, <2>5, NothingSeenKeeps DEF NothingSeen
<1>4. CASE DeleteOwnAccount(h)
  <2>1. /\ req' = [req EXCEPT ![h] = Idle] /\ req'[h] = Idle /\ Idle.step = "idle"
        /\ password' = Null /\ deleted' = TRUE /\ links' = links
        /\ req[h].step = "delete account" /\ sessions' = WithoutSessions(Present)
    BY <1>4, IdleIsARequest DEF DeleteOwnAccount, Finish, AInv, TypeOK
  <2>2. UsableLinks' = UsableLinks /\ OneUnclaimed'
    BY <2>1, LinksUntouched
  <2>3. Present' = {}
    BY <2>1, DroppedArePresent
  <2>4. OwnSessions # {} /\ OwnSessions' = {}
    BY <1>0, <2>1, <2>3 DEF SessionsSeen, ServedSteps
  <2>5. Relies(h)' /\ ~deleted
    BY <2>1, <2>2 DEF Relies, SeenAlive
  <2>6. Promise!DeleteAccount
    BY <2>1, <2>2, <2>4, <2>5 DEF Promise!DeleteAccount
  <2> QED
    BY <2>5, <2>6 DEF Keeps, Promise!Next
<1> QED
  BY <1>1, <1>2, <1>3, <1>4

-----------------------------------------------------------------------------
(* The reset links. *)

(* A step on a link: no session is touched.                                *)
LEMMA SessionsUntouched ==
    ASSUME NEW h, Handlers = {h}, sessions' = sessions,
           {req[h].step, req'[h].step}
             \cap {"read user", "update password", "delete account", "delete sessions"} = {}
    PROVE  OwnSessions' = OwnSessions
<1>1. Present' = Present
  BY DEF Present
<1>2. SessionsSeen(req[h], Present) = Present /\ SessionsSeen(req'[h], Present) = Present
  BY DEF SessionsSeen, ServedSteps
<1> QED
  BY <1>1, <1>2, MappingOfOne, MappingOfOneNext

LEMMA LinkMadeKeeps ==
    ASSUME AInv, NEW h, Handlers = {h}, Relies(h), CreateLink(h)
    PROVE  Relies(h)' /\ Keeps
<1>0. /\ UsableLinks = UsableSeen(req[h], links)
      /\ UsableLinks' = UsableSeen(req'[h], links')
  BY MappingOfOne, MappingOfOneNext
<1>1. PICK l \in FreeLinks : /\ links' = [links EXCEPT ![l] = "open"]
                              /\ req' = [req EXCEPT ![h].link = l, ![h].step = "invalidate"]
  BY DEF CreateLink, First
<1>2. PICK r : r = [req[h] EXCEPT !.link = l, !.step = "invalidate"]
  OBVIOUS
<1>3. /\ req' = [req EXCEPT ![h] = r] /\ req'[h] = r /\ r.step = "invalidate" /\ r.link = l
  BY <1>1, <1>2 DEF AInv, TypeOK, Request
<1>4. /\ password' = password /\ deleted' = deleted /\ sessions' = sessions
      /\ req[h].step = "create link"
  BY DEF CreateLink, account
<1>5. OwnSessions' = OwnSessions
  BY <1>3, <1>4, SessionsUntouched
<1>6. l \in LinkIds /\ links[l] = "unused" /\ links'[l] = "open"
  BY <1>1 DEF FreeLinks, AInv, TypeOK
<1>7. UsableLinks' = {l} /\ l \notin UsableLinks
  BY <1>0, <1>3, <1>4, <1>6 DEF UsableSeen, Open
<1>8. Relies(h)' /\ ~deleted
  BY <1>3, <1>4 DEF Relies, SeenAlive
<1>9. Promise!IssueLink(l)
  BY <1>4, <1>5, <1>7, <1>8 DEF Promise!IssueLink
<1> QED
  BY <1>6, <1>8, <1>9 DEF Keeps, Promise!Next

LEMMA LinkStepKeeps ==
    ASSUME AInv, NEW h, Handlers = {h}, Relies(h),
           InvalidateOthers(h) \/ SendMail(h) \/ DropLink(h)
    PROVE  Relies(h)' /\ Keeps
<1>0. /\ UsableLinks = UsableSeen(req[h], links)
      /\ UsableLinks' = UsableSeen(req'[h], links')
  BY MappingOfOne, MappingOfOneNext
<1>1. CASE InvalidateOthers(h)
  <2>1. PICK r : r = [req[h] EXCEPT !.step = "send mail"]
    OBVIOUS
  <2>2. /\ req' = [req EXCEPT ![h] = r] /\ req'[h] = r /\ r.step = "send mail"
        /\ password' = password /\ deleted' = deleted /\ sessions' = sessions
        /\ req[h].step = "invalidate"
    BY <1>1, <2>1 DEF InvalidateOthers, Goto, account, AInv, TypeOK, Request
  <2>3. \A l \in LinkIds : links'[l] = IF l \in Unclaimed \ {req[h].link} THEN "deleted" ELSE links[l]
    BY <1>1 DEF InvalidateOthers
  <2>4. OwnSessions' = OwnSessions
    BY <2>2, SessionsUntouched
  <2>5. Open(links') = Open(links) \cap {req[h].link}
    BY <2>3 DEF Open, Unclaimed
  <2>6. UsableLinks' = UsableLinks
    BY <1>0, <2>2, <2>5 DEF UsableSeen
  <2>7. Unclaimed' \subseteq {req[h].link}
    BY <2>3 DEF Unclaimed
  <2>8. Relies(h)'
    BY <2>2, <2>7 DEF Relies, SeenAlive, OneUnclaimed
  <2> QED
    BY <2>2, <2>4, <2>6, <2>8, NothingSeenKeeps DEF NothingSeen
<1>2. CASE SendMail(h)
  <2>1. PICK r : r = [req[h] EXCEPT !.step = "drop link"]
    OBVIOUS
  <2>2. /\ \/ req' = [req EXCEPT ![h] = r] /\ req'[h] = r
           \/ req' = [req EXCEPT ![h] = Idle] /\ req'[h] = Idle
        /\ r.step = "drop link"
        /\ password' = password /\ deleted' = deleted /\ sessions' = sessions
        /\ links' = links /\ req[h].step = "send mail"
    BY <1>2, <2>1 DEF SendMail, Goto, Finish, account, AInv, TypeOK, Request
  <2>3. req'[h].step \in {"drop link", "idle"}
    BY <2>2, IdleIsARequest
  <2>4. OwnSessions' = OwnSessions
    BY <2>2, <2>3, SessionsUntouched
  <2>5. UsableLinks' = UsableLinks /\ Unclaimed' = Unclaimed
    BY <1>0, <2>2, <2>3 DEF UsableSeen, Unclaimed
  <2>6. Relies(h)'
    BY <2>2, <2>3, <2>5 DEF Relies, SeenAlive, OneUnclaimed
  <2> QED
    BY <2>2, <2>4, <2>5, <2>6, NothingSeenKeeps DEF NothingSeen
<1>3. CASE DropLink(h)
  <2>1. PICK l : l = req[h].link
    OBVIOUS
  <2>2. /\ req' = [req EXCEPT ![h] = Idle] /\ req'[h] = Idle /\ Idle.step = "idle"
        /\ links' = [links EXCEPT ![l] = "deleted"]
        /\ password' = password /\ deleted' = deleted /\ sessions' = sessions
        /\ req[h].step = "drop link"
    BY <1>3, <2>1, IdleIsARequest DEF DropLink, Finish, account, AInv, TypeOK
  <2>3. OwnSessions' = OwnSessions
    BY <2>2, SessionsUntouched
  <2>4. l \in LinkIds
    BY <2>1, <2>2 DEF AInv, LinkKnown, LinkSteps
  <2>5. \A k \in LinkIds : links'[k] = IF k = l THEN "deleted" ELSE links[k]
    BY <2>2, <2>4 DEF AInv, TypeOK
  <2>6. Open(links') = Open(links) \ {l} /\ Unclaimed' \subseteq Unclaimed
    BY <2>5 DEF Open, Unclaimed
  <2>7. OneUnclaimed /\ Open(links) \subseteq Unclaimed
    BY <2>2 DEF Relies, Open, Unclaimed
  <2>8. Open(links') = Open(links) \/ Open(links') = {}
    BY <2>6, <2>7 DEF OneUnclaimed
  <2>9. UsableLinks = Open(links) /\ UsableLinks' = Open(links')
    BY <1>0, <2>2 DEF UsableSeen
  <2>10. Relies(h)'
    BY <2>2, <2>6, <2>7 DEF Relies, SeenAlive, OneUnclaimed
  <2> QED
    BY <2>2, <2>3, <2>8, <2>9, <2>10, LinkEndsKeeps
<1> QED
  BY <1>1, <1>2, <1>3

(* The transaction that claims a link is the reset of the promise.         *)
LEMMA ClaimKeeps ==
    ASSUME AInv, NEW h, Handlers = {h}, Relies(h), Claim(h)
    PROVE  Relies(h)' /\ Keeps
<1>0. /\ OwnSessions' = SessionsSeen(req'[h], Present')
      /\ UsableLinks = UsableSeen(req[h], links)
      /\ UsableLinks' = UsableSeen(req'[h], links')
  BY MappingOfOne, MappingOfOneNext
<1>1. PICK l, r, in : /\ l = req[h].link /\ r = [req[h] EXCEPT !.step = "delete sessions"]
                      /\ in = req[h].inTime
  OBVIOUS
<1>2. /\ deleted' = deleted /\ sessions' = sessions /\ req[h].step = "claim"
      /\ r.step = "delete sessions"
  BY <1>1 DEF Claim, AInv, TypeOK, Request
<1>3. l \in LinkIds /\ req[h].new \in Passwords /\ OneUnclaimed
  BY <1>1, <1>2 DEF AInv, LinkKnown, LinkSteps, Relies
<1>4. CASE links[l] = "open" \/ (links[l] = "expired" /\ in)
  <2>1. /\ links' = [links EXCEPT ![l] = "used"] /\ password' = req[h].new
        /\ req' = [req EXCEPT ![h] = r] /\ req'[h] = r
    BY <1>1, <1>4 DEF Claim, Goto, AInv, TypeOK
  <2>2. \A k \in LinkIds : links'[k] = IF k = l THEN "used" ELSE links[k]
    BY <1>3, <2>1 DEF AInv, TypeOK
  <2>3. l \in Unclaimed /\ Unclaimed' = {}
    BY <1>3, <1>4, <2>2 DEF Unclaimed, OneUnclaimed
  <2>4. l \in UsableLinks
    BY <1>0, <1>1, <1>2, <1>3, <1>4 DEF UsableSeen, Open
  <2>5. UsableLinks' = {} /\ OwnSessions' = {}
    BY <1>0, <1>2, <2>1, <2>3 DEF UsableSeen, Open, Unclaimed, SessionsSeen
  <2>6. Relies(h)'
    BY <1>2, <2>1, <2>3 DEF Relies, SeenAlive, OneUnclaimed
  <2>7. Promise!ResetPassword(req[h].new)
    BY <1>2, <2>1, <2>4, <2>5 DEF Promise!ResetPassword
  <2> QED
    BY <1>3, <2>6, <2>7 DEF Keeps, Promise!Next
<1>5. CASE ~(links[l] = "open" \/ (links[l] = "expired" /\ in))
  <2>1. /\ links' = links /\ password' = password
        /\ req' = [req EXCEPT ![h] = Idle] /\ req'[h] = Idle /\ Idle.step = "idle"
    BY <1>1, <1>5, IdleIsARequest DEF Claim, Finish, AInv, TypeOK
  <2>2. OwnSessions' = OwnSessions
    BY <1>2, <2>1, SessionsUntouched
  <2>3. UsableLinks' = UsableLinks
    BY <1>0, <1>1, <1>2, <1>5, <2>1 DEF UsableSeen, Open
  <2>4. Unclaimed' = Unclaimed
    BY <2>1 DEF Unclaimed
  <2>5. Relies(h)'
    BY <1>3, <2>1, <2>4 DEF Relies, SeenAlive, OneUnclaimed
  <2> QED
    BY <1>2, <2>1, <2>2, <2>3, <2>5, NothingSeenKeeps DEF NothingSeen
<1> QED
  BY <1>4, <1>5

-----------------------------------------------------------------------------
(* The clock. *)

LEMMA ClockKeeps ==
    ASSUME AInv, NEW h, Handlers = {h}, Relies(h),
           \/ \E s \in SessionIds : ExpireSession(s)
           \/ PurgeExpiredSessions
           \/ \E l \in LinkIds : ExpireLink(l)
    PROVE  Relies(h)' /\ Keeps
<1>0. /\ OwnSessions = SessionsSeen(req[h], Present)
      /\ OwnSessions' = SessionsSeen(req'[h], Present')
      /\ UsableLinks = UsableSeen(req[h], links)
      /\ UsableLinks' = UsableSeen(req'[h], links')
  BY MappingOfOne, MappingOfOneNext
<1>1. password' = password /\ deleted' = deleted /\ req' = req
  BY DEF ExpireSession, PurgeExpiredSessions, ExpireLink, account
<1>2. CASE (\E s \in SessionIds : ExpireSession(s)) \/ PurgeExpiredSessions
  <2>1. links' = links
    BY <1>2 DEF ExpireSession, PurgeExpiredSessions
  <2>2. Present' \subseteq Present
    <3>1. ASSUME NEW s \in SessionIds, ExpireSession(s) PROVE Present' \subseteq Present
      BY <3>1 DEF ExpireSession, Present, AInv, TypeOK
    <3>2. ASSUME PurgeExpiredSessions PROVE Present' \subseteq Present
      BY <3>2, DroppedArePresent DEF PurgeExpiredSessions
    <3> QED
      BY <1>2, <3>1, <3>2
  <2>3. OwnSessions' \subseteq OwnSessions
    BY <1>0, <1>1, <2>2 DEF SessionsSeen
  <2>4. UsableLinks' = UsableLinks /\ Unclaimed' = Unclaimed
    BY <1>0, <1>1, <2>1 DEF Unclaimed
  <2>5. Relies(h)'
    BY <1>1, <2>4 DEF Relies, OneUnclaimed
  <2> QED
    BY <1>1, <2>3, <2>4, <2>5, SessionsEndKeeps
<1>3. ASSUME NEW l \in LinkIds, ExpireLink(l)
      PROVE  Relies(h)' /\ Keeps
  <2>1. sessions' = sessions /\ links[l] = "open" /\ links' = [links EXCEPT ![l] = "expired"]
    BY <1>3 DEF ExpireLink
  <2>2. Present' = Present
    BY <2>1 DEF Present
  <2>3. OwnSessions' = OwnSessions
    BY <1>0, <1>1, <2>2
  <2>4. \A k \in LinkIds : links'[k] = IF k = l THEN "expired" ELSE links[k]
    BY <2>1 DEF AInv, TypeOK
  <2>5. Unclaimed' = Unclaimed /\ Open(links') = Open(links) \ {l} /\ l \in Unclaimed
        /\ Open(links) \subseteq Unclaimed
    BY <2>1, <2>4 DEF Unclaimed, Open
  <2>6. Relies(h)'
    BY <1>1, <2>5 DEF Relies, OneUnclaimed
  <2>7. UsableLinks' = UsableLinks \/ UsableLinks' = {}
    <3>1. CASE req[h].step = "invalidate"
      BY <1>0, <1>1, <2>5, <3>1 DEF UsableSeen
    <3>2. CASE req[h].step # "invalidate"
      <4>1. Open(links) = {l} /\ Open(links') = {}
        BY <2>1, <2>5, <3>2 DEF Relies, OneUnclaimed, Open
      <4>2. CASE req[h].step = "claim" /\ req[h].inTime /\ req[h].link = l
        <5>1. links[l] = "open" /\ links'[l] = "expired" /\ l \in LinkIds
          BY <1>3, <2>1, <2>4
        <5>2. {k \in LinkIds : k = l /\ links[k] \in {"open", "expired"}} = {l}
          BY <5>1
        <5>3. {k \in LinkIds : k = l /\ links'[k] \in {"open", "expired"}} = {l}
          BY <5>1
        <5>4. UsableSeen(req[h], links) = {l} /\ UsableSeen(req[h], links') = {l}
          BY <4>1, <4>2, <5>2, <5>3 DEF UsableSeen
        <5> QED
          BY <1>0, <1>1, <5>4
      <4>3. CASE req[h].step = "claim" /\ req[h].inTime /\ req[h].link # l
        <5>1. req[h].link \in Unclaimed => req[h].link = l
          BY <2>5, <3>2 DEF Relies, OneUnclaimed
        <5>2. UsableLinks' = {}
          BY <1>0, <1>1, <2>4, <4>1, <4>3, <5>1 DEF UsableSeen, Unclaimed
        <5> QED
          BY <5>2
      <4>4. CASE ~(req[h].step = "claim" /\ req[h].inTime)
        BY <1>0, <1>1, <3>2, <4>1, <4>4 DEF UsableSeen
      <4> QED
        BY <4>2, <4>3, <4>4
    <3> QED
      BY <3>1, <3>2
  <2> QED
    BY <1>1, <2>3, <2>6, <2>7, LinkEndsKeeps
<1> QED
  BY <1>2, <1>3

-----------------------------------------------------------------------------
LEMMA StepKeepsPromise ==
    ASSUME NEW h, Handlers = {h}, MaxFailures = 0,
           AInv, Relies(h), SessionsBounded', [Next]_vars
    PROVE  Relies(h)' /\ Keeps
<1>1. CASE UNCHANGED vars
  <2>1. /\ password' = password /\ deleted' = deleted /\ sessions' = sessions /\ links' = links
        /\ req' = req
    BY <1>1 DEF vars
  <2>2. Present' = Present /\ Unclaimed' = Unclaimed
    BY <2>1 DEF Present, Unclaimed
  <2>3. NothingSeen
    BY <2>1, <2>2, MappingOfOne, MappingOfOneNext DEF NothingSeen
  <2>4. Relies(h)'
    BY <2>1, <2>2 DEF Relies, OneUnclaimed
  <2> QED
    BY <2>3, <2>4, NothingSeenKeeps
<1>2. CASE NewRequest(h)
  BY <1>2, StartKeeps
<1>3. CASE Step(h)
  BY <1>3, SessionStepKeeps, PasswordStepKeeps, LinkMadeKeeps, LinkStepKeeps, ClaimKeeps DEF Step
<1>4. CASE Fail(h)
  BY <1>4 DEF Fail, AInv, TypeOK
<1> QED
  BY <1>1, <1>2, <1>3, <1>4, ClockKeeps DEF Next

(* The two statements of a change or a reset of the password, and the two  *)
(* that replace a reset link, act as one when requests come one at a time  *)
(* and none breaks off, whatever else the clock does in between: that is   *)
(* the account that its owner is promised.                                 *)
THEOREM PromiseIsKept ==
    ASSUME NEW h, Handlers = {h}, MaxFailures = 0
    PROVE  Spec => PromiseKept
<1>1. Init => AInv /\ Relies(h) /\ Promise!Init
  <2> SUFFICES ASSUME Init PROVE AInv /\ Relies(h) /\ Promise!Init
    OBVIOUS
  <2>1. /\ req[h].step = "idle" /\ password \in Passwords /\ deleted = FALSE
        /\ \A s \in SessionIds : sessions[s].state = "unused"
        /\ \A l \in LinkIds : links[l] = "unused"
    BY IdleIsARequest DEF Init
  <2>2. Present = {} /\ Unclaimed = {} /\ Open(links) = {}
    BY <2>1 DEF Present, Unclaimed, Open
  <2>3. OwnSessions = {} /\ UsableLinks = {}
    BY <2>1, <2>2, MappingOfOne DEF SessionsSeen, ServedSteps, UsableSeen
  <2>4. Relies(h)
    BY <2>1, <2>2 DEF Relies, SeenAlive, OneUnclaimed
  <2> QED
    BY <2>1, <2>3, <2>4, AInvInit DEF Promise!Init
<1>2. AInv /\ [Next]_vars => AInv'
  BY AInvNext
<1>3. /\ AInv /\ Relies(h) /\ SessionsBounded' /\ [Next]_vars
      => Relies(h)' /\ [Promise!Next]_(Promise!vars)
  BY StepKeepsPromise DEF Keeps
<1> QED
  BY <1>1, <1>2, <1>3, SessionsStayBounded, PTL DEF Spec, PromiseKept, Promise!Spec
=============================================================================
