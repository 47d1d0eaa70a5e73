--------------------------- MODULE AccountPromise ---------------------------
(***************************************************************************)
(* What an account promises to its owner: the password is changed only     *)
(* from within a session or by the one reset link that is usable, and each *)
(* such change ends every session and, by a link, uses the link up.  A     *)
(* deleted account serves nobody: from within a session nothing happens to *)
(* it any more but that the session ends.                                  *)
(***************************************************************************)
EXTENDS Naturals, FiniteSets

CONSTANTS Passwords, MaxSessions, SessionIds, LinkIds, Null

VARIABLES password, deleted, sessions, usable

vars == <<password, deleted, sessions, usable>>

Init ==
    /\ password \in Passwords
    /\ deleted = FALSE
    /\ sessions = {}
    /\ usable = {}

(* With a password that somebody knows: until a link that survived the     *)
(* deletion sets one, nobody logs in to a deleted account.  The newest     *)
(* session is kept, if need be at the expense of others.                   *)
Login(s) ==
    /\ password # Null
    /\ s \notin sessions
    /\ \E kept \in SUBSET sessions : sessions' = kept \cup {s}
    /\ Cardinality(sessions') <= MaxSessions
    /\ UNCHANGED <<password, deleted, usable>>

(* By logging out, by the clock, or to make room. *)
EndSessions ==
    /\ \E kept \in SUBSET sessions : sessions' = kept
    /\ UNCHANGED <<password, deleted, usable>>

ChangePassword(new) ==
    /\ sessions # {} /\ ~deleted
    /\ password' = new
    /\ sessions' = {}
    /\ UNCHANGED <<deleted, usable>>

DeleteAccount ==
    /\ sessions # {} /\ ~deleted
    /\ password' = Null
    /\ deleted' = TRUE
    /\ sessions' = {}
    /\ UNCHANGED usable

IssueLink(l) ==
    /\ ~deleted
    /\ l \notin usable
    /\ usable' = {l}
    /\ UNCHANGED <<password, deleted, sessions>>

WithdrawLink ==
    /\ usable # {} /\ usable' = {}
    /\ UNCHANGED <<password, deleted, sessions>>

ResetPassword(new) ==
    /\ usable # {} /\ usable' = {}
    /\ password' = new
    /\ sessions' = {}
    /\ UNCHANGED deleted

Next ==
    \/ \E s \in SessionIds : Login(s)
    \/ EndSessions
    \/ \E new \in Passwords : ChangePassword(new) \/ ResetPassword(new)
    \/ DeleteAccount
    \/ \E l \in LinkIds : IssueLink(l)
    \/ WithdrawLink

Spec == Init /\ [][Next]_vars
=============================================================================
