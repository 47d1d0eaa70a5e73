---------------------------- MODULE RecoveryKeys ----------------------------
(***************************************************************************)
(* The recovery envelope of one user (POST /user/recovery-key of           *)
(* routes/user.js) and the mail with the code that opens it                *)
(* (sendRecoveryCodeEmail of utils/mailer.js).  The code is told by its    *)
(* envelope.                                                               *)
(***************************************************************************)
EXTENDS Load

CONSTANT Envelopes      \* bound: envelopes that clients make, each with a code

ASSUME RecoveryAssumption == Null \notin Envelopes

VARIABLES
    envelope,   \* User.recoveryKeyEnvelope
    used,       \* envelopes that a request has brought
    newest,     \* history: the last envelope whose mail was not refused
    lost,       \* history: a crash, or a rollback that failed, since then
    kreq        \* what each handler is doing

recoveryVars == <<envelope, used, newest, lost, kreq>>

-----------------------------------------------------------------------------
MaybeEnvelope == Envelopes \cup {Null}
KRequest == [step : {"idle", "store", "mail", "roll back", "change password"},
             new : MaybeEnvelope, previous : MaybeEnvelope]
KIdle == [step |-> "idle", new |-> Null, previous |-> Null]

KStart(h, kind, request) ==
    /\ h \in Crowd /\ Serves(kind)
    /\ kreq[h].step = "idle"
    /\ kreq' = [kreq EXCEPT ![h] = request]
    /\ UNCHANGED load
KAt(h, step) == kreq[h].step = step /\ UNCHANGED load
KGoto(h, step) == kreq' = [kreq EXCEPT ![h].step = step]
KFinish(h) == kreq' = [kreq EXCEPT ![h] = KIdle]

RecoveryInit ==
    /\ LoadInit
    /\ envelope = Null /\ used = {} /\ newest = Null /\ lost = FALSE
    /\ kreq = [h \in Handlers |-> KIdle]

-----------------------------------------------------------------------------
(* The user is read; a child needs a parent with an address.               *)
PostRecoveryKey(h, new) ==
    /\ new \notin used
    /\ used' = used \cup {new}
    /\ KStart(h, "recovery", [step |-> "store", new |-> new, previous |-> envelope])
    /\ UNCHANGED <<envelope, newest, lost>>

StoreEnvelope(h) ==
    /\ KAt(h, "store")
    /\ envelope' = kreq[h].new
    /\ KGoto(h, "mail")
    /\ UNCHANGED <<used, newest, lost>>

(* The provider takes the mail... *)
MailCode(h) ==
    /\ KAt(h, "mail")
    /\ newest' = kreq[h].new /\ lost' = FALSE
    /\ KFinish(h)
    /\ UNCHANGED <<envelope, used>>

(* ...or has not answered in 30 seconds: the mail may arrive yet or not,   *)
(* and the envelope is kept in case it does.                               *)
MailTimesOut(h) ==
    /\ KAt(h, "mail")
    /\ newest' = kreq[h].new /\ lost' = FALSE
    /\ KFinish(h)
    /\ UNCHANGED <<envelope, used>>

FailAndKeep(h) ==           \* mutant: every failure is taken for a timeout
    /\ KAt(h, "mail")
    /\ KFinish(h)
    /\ UNCHANGED <<envelope, used, newest, lost>>
(* There is no provider or it refuses the mail; when its answer is what    *)
(* was lost, the mail may have arrived all the same.                       *)
FailToMail(h) ==
    /\ KAt(h, "mail")
    /\ KGoto(h, "roll back")
    /\ UNCHANGED <<envelope, used, newest, lost>>

RollBack(h) ==
    /\ KAt(h, "roll back")
    /\ envelope' = kreq[h].previous
    /\ KFinish(h)
    /\ UNCHANGED <<used, newest, lost>>

(* changeUserPassword with no new keys: the password is compared and the   *)
(* new one hashed; the envelope is cleared with the update.                *)
ChangePassword(h) ==
    /\ KStart(h, "recovery", [KIdle EXCEPT !.step = "change password"])
    /\ UNCHANGED <<envelope, used, newest, lost>>

ClearEnvelope(h) ==
    /\ KAt(h, "change password")
    /\ envelope' = Null /\ newest' = Null /\ lost' = FALSE
    /\ KFinish(h)
    /\ UNCHANGED used

(* A statement that fails (the rollback's error is swallowed) or a crash.  *)
AbortRecovery(h) ==
    /\ kreq[h].step # "idle"
    /\ lost' = (lost \/ kreq[h].step \in {"mail", "roll back"})
    /\ KFinish(h)
    /\ UNCHANGED <<load, envelope, used, newest>>

-----------------------------------------------------------------------------
RecoveryStep(h) ==
    \/ \E new \in Envelopes : PostRecoveryKey(h, new)
    \/ StoreEnvelope(h)
    \/ MailCode(h)
    \/ MailTimesOut(h)
    \/ FailToMail(h)
    \/ RollBack(h)
    \/ ChangePassword(h)
    \/ ClearEnvelope(h)
    \/ AbortRecovery(h)

RecoveryNext == \E h \in Handlers : RecoveryStep(h)
RecoverySpec == RecoveryInit /\ [][RecoveryNext]_<<load, recoveryVars>>

-----------------------------------------------------------------------------
RecoveryTypeOK ==
    /\ load \in Loads
    /\ envelope \in MaybeEnvelope /\ used \subseteq Envelopes
    /\ newest \in MaybeEnvelope /\ lost \in BOOLEAN
    /\ kreq \in [Handlers -> KRequest]

(* With one request at a time, the stored envelope is the newest of those  *)
(* whose mail the server was not told had failed: a refusal takes back the *)
(* envelope and nothing before it, a timeout takes back nothing.  After a  *)
(* crash this holds again with the next mail.  Which mails arrive is not   *)
(* known to the server, and nothing is said of it.                         *)
RefusedCodeIsNotKept ==
    Serial /\ ~lost /\ (\A h \in Handlers : kreq[h].step = "idle") => envelope = newest
=============================================================================
