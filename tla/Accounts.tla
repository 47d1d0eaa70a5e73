------------------------------ MODULE Accounts ------------------------------
(***************************************************************************)
(* One user's account: login sessions (services/session.js), the change    *)
(* and the reset of the password and the deletion of the account           *)
(* (services/authService.js).  Every query of this code is by the user's   *)
(* id, so accounts do not interact.  An action is one statement with the   *)
(* code up to the next one, as in CustodyState.                            *)
(*                                                                         *)
(* A password is only ever compared for equality.  Profile data, keys and  *)
(* the tables of the retired e-mail codes and trusted devices, which no    *)
(* login reads any more, are left out.                                     *)
(***************************************************************************)
EXTENDS Naturals, FiniteSets

CONSTANTS
    Passwords,      \* bound: the passwords that the client tries
    Handlers,       \* bound: how many requests can be in flight at once
    MaxSessions,    \* MAX_SESSIONS_PER_USER
    SessionRows,    \* bound: rows of Session
    LinkRows,       \* bound: rows of PasswordResetToken
    Kinds,          \* bound: the kinds of request that clients send
    MaxFailures,    \* bound: how many requests break off in mid-air
    Null            \* the password of a deleted account, which nobody knows

ASSUME AccountBoundsAssumption ==
    /\ MaxSessions \in Nat \ {0}
    /\ SessionRows \in Nat /\ LinkRows \in Nat /\ MaxFailures \in Nat
ASSUME AccountHandlersAssumption == IsFiniteSet(Handlers) /\ Handlers # {}
ASSUME AccountNullAssumption == Null \notin Passwords

SessionIds == 1 .. SessionRows      \* in the order of createdAt
LinkIds == 1 .. LinkRows            \* in the order of createdAt
NoId == 0

VARIABLES
    password,   \* what users.passwordHash was made from
    deleted,    \* users.deletedAt is set
    sessions,   \* table Session
    links,      \* table PasswordResetToken
    mailed,     \* the links that reached the user's mailbox
    req,        \* what each handler is doing
    failures    \* how many requests have broken off so far

vars == <<password, deleted, sessions, links, mailed, req, failures>>

account == <<password, deleted>>
tables == <<sessions, links, mailed>>

-----------------------------------------------------------------------------
(* The rows: expiresAt is "live" or "expired" by the clock.  With a session *)
(* go, for the properties alone, the password at its creation and the one  *)
(* that its login had compared.                                            *)

SessionState == {"unused", "live", "expired", "deleted"}
Session == [state : SessionState, under : Passwords \cup {Null},
            compared : Passwords \cup {Null}]
LinkState == {"unused", "open", "expired", "used", "deleted"}

Present == {s \in SessionIds : sessions[s].state \in {"live", "expired"}}
Unclaimed == {l \in LinkIds : links[l] \in {"open", "expired"}}

First(r, unused) == r \in unused /\ \A x \in unused : r <= x
FreeSessions == {s \in SessionIds : sessions[s].state = "unused"}
FreeLinks == {l \in LinkIds : links[l] = "unused"}

WithoutSessions(gone) ==
    [s \in SessionIds |-> IF s \in gone THEN [sessions[s] EXCEPT !.state = "deleted"]
                                        ELSE sessions[s]]

(* The requests. *)
Tasks == {"logout", "change password", "delete account"}
Steps == {"idle", "list sessions", "drop oldest", "create session",
          "read user", "end session", "update password", "delete sessions",
          "delete account", "create link", "invalidate", "send mail",
          "drop link", "claim"}

Request ==
    [step : Steps, task : Tasks \cup {Null},
     session : SessionIds \cup {NoId},      \* req.sessionToken
     known : Passwords \cup {Null},         \* the current password, as sent
     new : Passwords \cup {Null},           \* the new password, as sent
     doomed : SUBSET SessionIds,            \* the oldest sessions, as listed
     link : LinkIds \cup {NoId},
     inTime : BOOLEAN]                      \* the link had not expired at `now`

Idle == [step |-> "idle", task |-> Null, session |-> NoId, known |-> Null,
         new |-> Null, doomed |-> {}, link |-> NoId, inTime |-> FALSE]

At(step) == {h \in Handlers : req[h].step = step}
Goto(h, step) == req' = [req EXCEPT ![h].step = step]
Finish(h) == req' = [req EXCEPT ![h] = Idle]
Start(h, kind, request) ==
    /\ kind \in Kinds
    /\ req[h].step = "idle"
    /\ req' = [req EXCEPT ![h] = request]

Init ==
    /\ password \in Passwords
    /\ deleted = FALSE
    /\ sessions = [s \in SessionIds |-> [state |-> "unused", under |-> Null, compared |-> Null]]
    /\ links = [l \in LinkIds |-> "unused"]
    /\ mailed = {}
    /\ req = [h \in Handlers |-> Idle]
    /\ failures = 0

-----------------------------------------------------------------------------
(* Logging in and out, and sessions that expire. *)

(* POST /login: the user is found by e-mail, deleted or not, and the       *)
(* password is compared with the hash read.  The random one of a deleted   *)
(* account nobody knows; but a reset link that survived the deletion may   *)
(* have set another.                                                       *)
LoginUser(h, p) ==
    /\ Start(h, "login", [Idle EXCEPT !.step = "list sessions", !.known = p])
    /\ p = password                         \* else invalid_credentials
    /\ Cardinality(FreeSessions) >
         Cardinality(At("list sessions") \cup At("drop oldest") \cup At("create session"))
    /\ UNCHANGED <<account, tables, failures>>

(* createSessionForUser lists the sessions, the expired ones too... *)
Oldest(n) == {s \in Present : Cardinality({t \in Present : t < s}) < n}
ListBeyondTheLimit(h) ==    \* mutant: ">" in place of ">="
    /\ req[h].step = "list sessions"
    /\ IF Cardinality(Present) > MaxSessions
       THEN req' = [req EXCEPT ![h].step = "drop oldest",
                      ![h].doomed = Oldest(Cardinality(Present) - MaxSessions)]
       ELSE Goto(h, "create session")
    /\ UNCHANGED <<account, tables, failures>>
ListSessions(h) ==
    /\ req[h].step = "list sessions"
    /\ IF Cardinality(Present) >= MaxSessions
       THEN req' = [req EXCEPT ![h].step = "drop oldest",
                      ![h].doomed = Oldest(Cardinality(Present) - MaxSessions + 1)]
       ELSE Goto(h, "create session")
    /\ UNCHANGED <<account, tables, failures>>

(* ...deletes the oldest ones by id, if there are too many... *)
DropOldest(h) ==
    /\ req[h].step = "drop oldest"
    /\ sessions' = WithoutSessions(req[h].doomed \cap Present)
    /\ Goto(h, "create session")
    /\ UNCHANGED <<account, links, mailed, failures>>

(* ...and creates the new one, without a look at the user's row. *)
CreateSession(h) ==
    /\ req[h].step = "create session"
    /\ \E s \in SessionIds :
         /\ First(s, FreeSessions)
         /\ sessions' = [sessions EXCEPT ![s] =
                 [state |-> "live", under |-> password, compared |-> req[h].known]]
    /\ Finish(h)
    /\ UNCHANGED <<account, links, mailed, failures>>

(* requireAuth reads the session of the token; an expired one is deleted. *)
Authenticate(h, task, s, known, new) ==
    /\ Start(h, task, [Idle EXCEPT !.task = task, !.session = s, !.known = known,
                                   !.new = new,
                                   !.step = IF sessions[s].state = "live"
                                            THEN "read user" ELSE "end session"])
    /\ sessions[s].state \in {"live", "expired"}    \* else invalid_session
    /\ UNCHANGED <<account, tables, failures>>

(* requireAuth reads the user, deleteOwnAccount and changeUserPassword     *)
(* read it once more and compare the current password; a deletion between  *)
(* the two reads makes the second one refuse.                              *)
ReadUser(h) ==
    /\ req[h].step = "read user"
    /\ \/ /\ deleted \/ req[h].task = "logout"
          /\ Goto(h, "end session")
       \/ /\ ~deleted
          /\ req[h].task \in {"change password", "delete account"}
          /\ IF req[h].known # password
             THEN Finish(h)                         \* invalid_credentials
             ELSE Goto(h, IF req[h].task = "delete account"
                          THEN "delete account" ELSE "update password")
    /\ UNCHANGED <<account, tables, failures>>

(* deleteSession *)
EndSession(h) ==
    /\ req[h].step = "end session"
    /\ sessions' = WithoutSessions({req[h].session} \cap Present)
    /\ Finish(h)
    /\ UNCHANGED <<account, links, mailed, failures>>

(* The clock, and the hourly purge of index.js. *)
ExpireSession(s) ==
    /\ "expiry" \in Kinds
    /\ sessions[s].state = "live"
    /\ sessions' = [sessions EXCEPT ![s].state = "expired"]
    /\ UNCHANGED <<account, links, mailed, req, failures>>
PurgeExpiredSessions ==
    /\ \E s \in SessionIds : sessions[s].state = "expired"
    /\ sessions' = WithoutSessions({s \in SessionIds : sessions[s].state = "expired"})
    /\ UNCHANGED <<account, links, mailed, req, failures>>

-----------------------------------------------------------------------------
(* Changing the password, and deleting the account. *)

UpdateAndAnswer(h) ==       \* mutant: the sessions are left alone
    /\ req[h].step = "update password"
    /\ password' = req[h].new
    /\ Finish(h)
    /\ UNCHANGED <<deleted, tables, failures>>

(* The user's row is updated by id, whatever it holds by then... *)
UpdatePassword(h) ==
    /\ req[h].step = "update password"
    /\ password' = req[h].new
    /\ Goto(h, "delete sessions")
    /\ UNCHANGED <<deleted, tables, failures>>

(* ...and deleteAllSessionsForUser is a statement of its own. *)
DeleteSessions(h) ==
    /\ req[h].step = "delete sessions"
    /\ sessions' = WithoutSessions(Present)
    /\ Finish(h)
    /\ UNCHANGED <<account, links, mailed, failures>>

(* One transaction: the sessions go and the row is made anonymous, with    *)
(* the hash of a random password.  Reset links stay.                       *)
DeleteOwnAccount(h) ==
    /\ req[h].step = "delete account"
    /\ sessions' = WithoutSessions(Present)
    /\ deleted' = TRUE
    /\ password' = Null
    /\ Finish(h)
    /\ UNCHANGED <<links, mailed, failures>>

-----------------------------------------------------------------------------
(* Password-reset links.  A child's account gets them by a request of a    *)
(* parent (requestChildPasswordReset), to the parents' mailboxes: the      *)
(* statements are the same.                                                *)

RequestPasswordReset(h) ==
    /\ Start(h, "reset", [Idle EXCEPT !.step = "create link"])
    /\ ~deleted                             \* else the generic answer
    /\ Cardinality(FreeLinks) > Cardinality(At("create link"))
    /\ UNCHANGED <<account, tables, failures>>

CreateLink(h) ==
    /\ req[h].step = "create link"
    /\ \E l \in LinkIds :
         /\ First(l, FreeLinks)
         /\ links' = [links EXCEPT ![l] = "open"]
         /\ req' = [req EXCEPT ![h].link = l, ![h].step = "invalidate"]
    /\ UNCHANGED <<account, sessions, mailed, failures>>

InvalidateNone(h) ==        \* mutant: deletes no link
    /\ req[h].step = "invalidate"
    /\ Goto(h, "send mail")
    /\ UNCHANGED <<account, tables, failures>>

(* Every other link that has not been used is deleted. *)
InvalidateOthers(h) ==
    /\ req[h].step = "invalidate"
    /\ links' = [l \in LinkIds |-> IF l \in Unclaimed \ {req[h].link} THEN "deleted"
                                                                     ELSE links[l]]
    /\ Goto(h, "send mail")
    /\ UNCHANGED <<account, sessions, mailed, failures>>

(* A mail that is reported as failed, or as timed out, may have arrived. *)
SendMail(h) ==
    /\ req[h].step = "send mail"
    /\ \/ /\ mailed' = mailed \cup {req[h].link}
          /\ Finish(h)
       \/ /\ mailed' \in {mailed, mailed \cup {req[h].link}}
          /\ Goto(h, "drop link")
    /\ UNCHANGED <<account, sessions, links, failures>>

DropAsNeverCreated(h) ==    \* mutant: the row is free again
    /\ req[h].step = "drop link"
    /\ links' = [links EXCEPT ![req[h].link] = "unused"]
    /\ Finish(h)
    /\ UNCHANGED <<account, sessions, mailed, failures>>

DropLink(h) ==
    /\ req[h].step = "drop link"
    /\ links' = [links EXCEPT ![req[h].link] = "deleted"]
    /\ Finish(h)
    /\ UNCHANGED <<account, sessions, mailed, failures>>

(* POST /reset-password/confirm takes the time before it hashes the new    *)
(* password...                                                             *)
ConfirmPasswordReset(h, l, new) ==
    /\ Start(h, "reset", [Idle EXCEPT !.step = "claim", !.link = l, !.new = new,
                                      !.inTime = links[l] # "expired"])
    /\ l \in mailed
    /\ UNCHANGED <<account, tables, failures>>

ClaimAndAnswer(h) ==        \* mutant: the sessions are left alone
    /\ req[h].step = "claim"
    /\ IF links[req[h].link] = "open"
       THEN /\ links' = [links EXCEPT ![req[h].link] = "used"]
            /\ password' = req[h].new
       ELSE UNCHANGED <<links, password>>
    /\ Finish(h)
    /\ UNCHANGED <<deleted, sessions, mailed, failures>>

(* ...and then, in one transaction, claims the link and sets the password, *)
(* of a deleted account too.                                               *)
Claim(h) ==
    /\ req[h].step = "claim"
    /\ IF \/ links[req[h].link] = "open"
          \/ links[req[h].link] = "expired" /\ req[h].inTime
       THEN /\ links' = [links EXCEPT ![req[h].link] = "used"]
            /\ password' = req[h].new
            /\ Goto(h, "delete sessions")
       ELSE /\ Finish(h)                    \* invalid_or_expired_token
            /\ UNCHANGED <<links, password>>
    /\ UNCHANGED <<deleted, sessions, mailed, failures>>

ExpireLink(l) ==
    /\ "expiry" \in Kinds
    /\ links[l] = "open"
    /\ links' = [links EXCEPT ![l] = "expired"]
    /\ UNCHANGED <<account, sessions, mailed, req, failures>>

-----------------------------------------------------------------------------

(* Any await can throw, and what was written stays written. *)
Fail(h) ==
    /\ failures < MaxFailures
    /\ req[h].step # "idle"
    /\ Finish(h)
    /\ failures' = failures + 1
    /\ UNCHANGED <<account, tables>>

NewRequest(h) ==
    \/ \E p \in Passwords : LoginUser(h, p)
    \/ \E s \in SessionIds :
         \/ Authenticate(h, "logout", s, Null, Null)
         \/ \E p \in Passwords :
              \/ Authenticate(h, "delete account", s, p, Null)
              \/ \E new \in Passwords : Authenticate(h, "change password", s, p, new)
    \/ RequestPasswordReset(h)
    \/ \E l \in LinkIds, new \in Passwords : ConfirmPasswordReset(h, l, new)

Step(h) ==
    \/ ListSessions(h) \/ DropOldest(h) \/ CreateSession(h)
    \/ ReadUser(h) \/ EndSession(h)
    \/ UpdatePassword(h) \/ DeleteSessions(h) \/ DeleteOwnAccount(h)
    \/ CreateLink(h) \/ InvalidateOthers(h) \/ SendMail(h) \/ DropLink(h)
    \/ Claim(h)

Next ==
    \/ \E h \in Handlers : NewRequest(h) \/ Step(h) \/ Fail(h)
    \/ \E s \in SessionIds : ExpireSession(s)
    \/ PurgeExpiredSessions
    \/ \E l \in LinkIds : ExpireLink(l)

Spec == Init /\ [][Next]_vars

-----------------------------------------------------------------------------

(* The rows and requests of the code; only links with a row are mailed. *)
TypeOK ==
    /\ password \in Passwords \cup {Null}
    /\ deleted \in BOOLEAN
    /\ sessions \in [SessionIds -> Session]
    /\ links \in [LinkIds -> LinkState]
    /\ mailed \subseteq {l \in LinkIds : links[l] # "unused"}
    /\ req \in [Handlers -> Request]
    /\ failures \in Nat

(* Logins that overlap list the same sessions and each add one; but the    *)
(* excess over MAX_SESSIONS_PER_USER never grows beyond the overlap.       *)
SessionsBounded ==
    Cardinality(Present) <= MaxSessions + Cardinality(Handlers) - 1

(* A session does not outlive the password it was created under: after a   *)
(* change, a reset or a deletion none is left but those that are still to  *)
(* be deleted, unless a request broke off between the two statements.      *)
NoSessionOutlivesThePassword ==
    \A s \in Present : \/ sessions[s].under = password
                       \/ At("delete sessions") # {}
                       \/ failures > 0

(* A login that overlaps a change of the password may create its session   *)
(* after the others were deleted, on the strength of the old one.  Such    *)
(* sessions stay until the next change; with the logins on their way to    *)
(* one they are at most as many as requests can overlap a change.          *)
StaleSessions == {s \in Present : sessions[s].compared # password}
StaleLogins == {h \in At("list sessions") \cup At("drop oldest") \cup At("create session") :
                  req[h].known # password}
StaleLoginsBounded ==
    \/ Cardinality(StaleSessions) + Cardinality(StaleLogins) <= Cardinality(Handlers) - 1
    \/ At("delete sessions") # {}
    \/ failures > 0

(* Requests for a link that overlap leave no more links than they are, and *)
(* one more only while one of them has not invalidated the others yet, or  *)
(* when one broke off before it did.                                       *)
UnclaimedLinksBounded ==
    Cardinality(Unclaimed) <= 1 + Cardinality(At("invalidate")) + failures

(* "Invalidate older unused reset links for this user (keep the one just   *)
(* created)."  (authService.js)                                            *)
OnlyOlderLinksAreInvalidated ==
    [][\A h \in Handlers : InvalidateOthers(h) =>
          \A l \in Unclaimed : l > req[h].link => links'[l] = links[l]]_vars

(* A request is served by the session it authenticated with even when that *)
(* one has been purged meanwhile; the password counts as changed when its  *)
(* row is, with the sessions yet to be deleted.                            *)
Served == {req[h].session :
             h \in At("read user") \cup At("update password") \cup At("delete account")}
OwnSessions == IF At("delete sessions") # {} THEN {} ELSE Present \cup Served

(* A link is used in time when it was in time at the start of the request; *)
(* and a new link replaces the others when it is created, with them yet to *)
(* be deleted.                                                             *)
InUse == {req[h].link : h \in {g \in At("claim") : req[g].inTime}}
Claimable == {l \in LinkIds : links[l] = "open"} \cup (InUse \cap Unclaimed)
UsableLinks == IF At("invalidate") = {} THEN Claimable
               ELSE Claimable \cap {req[h].link : h \in At("invalidate")}

Promise == INSTANCE AccountPromise WITH sessions <- OwnSessions, usable <- UsableLinks

(* Requests that come one at a time, none of which breaks off, keep the    *)
(* promise of an account: the two statements of a password change or reset *)
(* act as one, and so do the two that replace a reset link.                *)
PromiseKept == Promise!Spec
=============================================================================
