------------------------------- MODULE Threads -------------------------------
(***************************************************************************)
(* The threads of one family and the messages in them (services/threads.js *)
(* and services/custody/messaging.js).                                     *)
(*                                                                         *)
(* One clock gives every stamp: a thread is known by its createdAt and a   *)
(* message by its sentAt.  The contents of messages are left out.  An      *)
(* interactive transaction takes two actions, as its rows are stamped      *)
(* before they can be seen.                                                *)
(***************************************************************************)
EXTENDS Load

CONSTANTS
    Adults,         \* bound: people who may be parents here
    Kids,           \* bound: children that have had an account here
    Topics,         \* categories whose channel is for parents
    FamilyChannel,  \* "Rodzina", the channel with the children
    SystemChannel,  \* "Zmiana grafiku", where the server writes too
    MaxStamps       \* bound: how many rows are stamped

ASSUME ThreadsAssumption ==
    /\ MaxStamps \in Nat
    /\ Topics \cap {FamilyChannel, SystemChannel, Null} = {}
    /\ FamilyChannel # SystemChannel /\ Null \notin {FamilyChannel, SystemChannel}
    /\ Adults \cap Kids = {}

VARIABLES
    parents,    \* the parents that listParentUserIds finds
    gone,       \* whose account has been deleted; its row stays
    clock,      \* the last stamp given
    threads,    \* tables Thread and ThreadKey
    messages,   \* table Message
    treq        \* what each handler is doing

threadVars == <<parents, gone, clock, threads, messages, treq>>

-----------------------------------------------------------------------------
Channels == Topics \cup {FamilyChannel, SystemChannel}
People == Adults \cup Kids
Stamps == 1 .. MaxStamps

(* A thread that a parent opened under a subject of its own is no channel. *)
Thread == [createdAt : Stamps, channel : Channels \cup {Null},
           keys : SUBSET People, lastActivity : Stamps]
Message == [sentAt : Stamps, thread : Stamps, sender : People, read : BOOLEAN]

TSteps == {"idle", "check keys", "create thread", "commit thread",
           "add system message", "commit message", "create key"}
TRequest == [step : TSteps, user : People \cup {Null}, channel : Channels \cup {Null},
             keys : SUBSET People, notify : BOOLEAN, stamp : Stamps \cup {0},
             thread : Stamps \cup {0}]
TIdle == [step |-> "idle", user |-> Null, channel |-> Null, keys |-> {},
          notify |-> FALSE, stamp |-> 0, thread |-> 0]

Find(id) == CHOOSE t \in threads : t.createdAt = id
RowsOf(channel) == {t \in threads : t.channel = channel}
OldestOf(channel) == CHOOSE t \in RowsOf(channel) :
                         \A other \in RowsOf(channel) : t.createdAt <= other.createdAt

TStart(h, kind, request) ==
    /\ h \in Crowd /\ Serves(kind)
    /\ treq[h].step = "idle"
    /\ treq' = [treq EXCEPT ![h] = request]
    /\ UNCHANGED load
TAt(h, step) == treq[h].step = step /\ UNCHANGED load
TGoto(h, step) == treq' = [treq EXCEPT ![h].step = step]
TFinish(h) == treq' = [treq EXCEPT ![h] = TIdle]
Tick == clock < MaxStamps /\ clock' = clock + 1

ThreadsInit ==
    /\ LoadInit
    /\ \E founder \in Adults : parents = {founder}
    /\ gone = {}
    /\ clock = 0 /\ threads = {} /\ messages = {}
    /\ treq = [h \in Handlers |-> TIdle]

-----------------------------------------------------------------------------
(* canUserAccessThread and canUserSendMessage *)
MayAccess(u, channel) ==
    u \in parents \/ (u \in Kids \ gone /\ channel = FamilyChannel)
(* assertValidParentThreadKeys *)
ValidKeys(keys) == keys = parents

OpenBesideChannel(h, u, channel, keys) ==  \* mutant: nobody looks for the channel
    /\ MayAccess(u, channel)
    /\ TStart(h, "open",
         [TIdle EXCEPT !.user = u, !.channel = channel, !.step = "create thread"])
    /\ UNCHANGED <<parents, gone, clock, threads, messages>>
(* POST /channel, and POST / with a channel's name for subject: nothing is *)
(* written if the channel is there.  The keys that a client may still send *)
(* are checked first, except for the system channel, which has none.       *)
OpenChannel(h, u, channel, keys) ==
    /\ MayAccess(u, channel)
    /\ RowsOf(channel) = {}
    /\ TStart(h, "open",
         [TIdle EXCEPT !.user = u, !.channel = channel, !.keys = keys,
            !.step = IF keys = {} \/ channel = SystemChannel
                     THEN "create thread" ELSE "check keys"])
    /\ UNCHANGED <<parents, gone, clock, threads, messages>>

(* POST / with another subject. *)
OpenTopic(h, u, keys) ==
    /\ u \in parents
    /\ TStart(h, "topic",
         [TIdle EXCEPT !.user = u, !.keys = keys,
            !.step = IF keys = {} THEN "create thread" ELSE "check keys"])
    /\ UNCHANGED <<parents, gone, clock, threads, messages>>

CheckKeys(h) ==
    /\ TAt(h, "check keys")
    /\ IF ValidKeys(treq[h].keys) THEN TGoto(h, "create thread") ELSE TFinish(h)
    /\ UNCHANGED <<parents, gone, clock, threads, messages>>

(* notifyScheduleThread: the system channel is found or created... *)
Notify(h, u) ==
    /\ u \in parents
    /\ TStart(h, "notify",
         IF RowsOf(SystemChannel) = {}
         THEN [TIdle EXCEPT !.user = u, !.channel = SystemChannel, !.notify = TRUE,
                            !.step = "create thread"]
         ELSE [TIdle EXCEPT !.user = u, !.thread = OldestOf(SystemChannel).createdAt,
                            !.step = "add system message"])
    /\ UNCHANGED <<parents, gone, clock, threads, messages>>

CreateThread(h) ==
    /\ TAt(h, "create thread")
    /\ Tick
    /\ treq' = [treq EXCEPT ![h].step = "commit thread", ![h].stamp = clock + 1]
    /\ UNCHANGED <<parents, gone, threads, messages>>

NewThread(r) ==
    [createdAt |-> r.stamp, channel |-> r.channel, lastActivity |-> r.stamp,
     keys |-> IF r.channel = SystemChannel THEN {} ELSE r.keys]

CommitThread(h) ==
    LET r == treq[h] IN
    /\ TAt(h, "commit thread")
    /\ threads' = threads \cup {NewThread(r)}
    /\ IF r.notify
       THEN treq' = [treq EXCEPT ![h] = [TIdle EXCEPT !.step = "add system message",
                                           !.user = r.user, !.thread = r.stamp]]
       ELSE TFinish(h)
    /\ UNCHANGED <<parents, gone, clock, messages>>

(* ...and a message of the server is added to it. *)
AddSystemMessage(h) ==
    /\ TAt(h, "add system message")
    /\ Tick
    /\ treq' = [treq EXCEPT ![h].step = "commit message", ![h].stamp = clock + 1]
    /\ UNCHANGED <<parents, gone, threads, messages>>

(* POST /:threadId/messages: sentAt is taken before the transaction... *)
AddMessage(h, u, id) ==
    /\ \E t \in threads : t.createdAt = id /\ MayAccess(u, t.channel)
    /\ Tick
    /\ TStart(h, "post", [TIdle EXCEPT !.step = "commit message", !.user = u,
                                       !.thread = id, !.stamp = clock + 1])
    /\ UNCHANGED <<parents, gone, threads, messages>>

(* ...that adds the message and moves lastActivity to it. *)
Touched(id, stamp) ==
    {IF t.createdAt = id THEN [t EXCEPT !.lastActivity = stamp] ELSE t : t \in threads}

CommitMessageOnly(h) ==     \* mutant: the thread is not updated
    LET r == treq[h] IN
    /\ TAt(h, "commit message")
    /\ messages' = messages \cup {[sentAt |-> r.stamp, thread |-> r.thread,
                                   sender |-> r.user, read |-> FALSE]}
    /\ TFinish(h)
    /\ UNCHANGED <<parents, gone, clock, threads>>
CommitMessage(h) ==
    LET r == treq[h] IN
    /\ TAt(h, "commit message")
    /\ messages' = messages \cup {[sentAt |-> r.stamp, thread |-> r.thread,
                                   sender |-> r.user, read |-> FALSE]}
    /\ threads' = Touched(r.thread, r.stamp)
    /\ TFinish(h)
    /\ UNCHANGED <<parents, gone, clock>>

(* POST /:threadId/read is one update, of the messages of others. *)
MarkThreadAsRead(h, u, id) ==
    /\ \E t \in threads : t.createdAt = id /\ MayAccess(u, t.channel)
    /\ TStart(h, "read", TIdle)
    /\ messages' = {IF m.thread = id /\ m.sender # u THEN [m EXCEPT !.read = TRUE] ELSE m :
                      m \in messages}
    /\ UNCHANGED <<parents, gone, clock, threads>>

(* POST /:threadId/keys/family-sync: a parent hands a child the key of the *)
(* family's thread, if the child has none; the child's account may have    *)
(* been deleted (its row has workspace and role still)...                  *)
SyncFamilyThreadKey(h, u, id, kid) ==
    /\ u \in parents
    /\ \E t \in threads : t.createdAt = id /\ t.channel = FamilyChannel /\ kid \notin t.keys
    /\ TStart(h, "sync", [TIdle EXCEPT !.step = "create key", !.user = kid, !.thread = id])
    /\ UNCHANGED <<parents, gone, clock, threads, messages>>

(* ...and the key is unique for the thread and the child. *)
CreateKey(h) ==
    LET r == treq[h] IN
    /\ TAt(h, "create key")
    /\ r.user \notin Find(r.thread).keys
    /\ threads' = {IF t.createdAt = r.thread
                   THEN [t EXCEPT !.keys = @ \cup {r.user}] ELSE t : t \in threads}
    /\ TFinish(h)
    /\ UNCHANGED <<parents, gone, clock, messages>>

(* What other parts of the program do to the family: somebody becomes a    *)
(* parent in it, by code or by invitation...                               *)
ParentJoins(h, u) ==
    /\ u \notin parents \cup gone
    /\ TStart(h, "family", TIdle)
    /\ parents' = parents \cup {u}
    /\ UNCHANGED <<gone, clock, threads, messages>>

(* ...a parent left alone moves to another family by an invitation, and    *)
(* its keys stay here...                                                   *)
ParentMoves(h, u) ==
    /\ parents = {u} /\ Kids \subseteq gone
    /\ TStart(h, "family", TIdle)
    /\ parents' = {}
    /\ UNCHANGED <<gone, clock, threads, messages>>

(* ...a parent or a child deletes the account and, with it, the keys...    *)
DeleteOwnAccountOnly(h, u) ==   \* mutant: the keys are left
    /\ u \in parents \cup (Kids \ gone)
    /\ TStart(h, "family", TIdle)
    /\ parents' = parents \ {u} /\ gone' = gone \cup {u}
    /\ UNCHANGED <<clock, threads, messages>>
DeleteOwnAccount(h, u) ==
    /\ u \in parents \cup (Kids \ gone)
    /\ TStart(h, "family", TIdle)
    /\ parents' = parents \ {u} /\ gone' = gone \cup {u}
    /\ threads' = {[t EXCEPT !.keys = @ \ {u}] : t \in threads}
    /\ UNCHANGED <<clock, messages>>

(* ...or a parent deletes a child with its account, whose keys are left.   *)
DeleteChild(h, kid) ==
    /\ parents # {} /\ kid \notin gone
    /\ TStart(h, "family", TIdle)
    /\ gone' = gone \cup {kid}
    /\ UNCHANGED <<parents, clock, threads, messages>>

(* A statement that fails, or a crash; notifyScheduleThread only logs it.  *)
AbortThread(h) ==
    /\ treq[h].step # "idle"
    /\ TFinish(h)
    /\ UNCHANGED <<load, parents, gone, clock, threads, messages>>

-----------------------------------------------------------------------------
ChannelStep(h) ==
    \/ \E u \in People, c \in Channels, keys \in SUBSET People : OpenChannel(h, u, c, keys)
    \/ \E u \in Adults, keys \in SUBSET People : OpenTopic(h, u, keys)
    \/ CheckKeys(h)
    \/ CreateThread(h)
    \/ CommitThread(h)
    \/ AbortThread(h)

MessageStep(h) ==
    \/ \E u \in Adults : Notify(h, u)
    \/ AddSystemMessage(h)
    \/ \E u \in People, id \in Stamps : AddMessage(h, u, id)
    \/ CommitMessage(h)
    \/ \E u \in People, id \in Stamps : MarkThreadAsRead(h, u, id)

KeyStep(h) ==
    \/ \E u \in Adults, id \in Stamps, kid \in Kids : SyncFamilyThreadKey(h, u, id, kid)
    \/ CreateKey(h)
    \/ \E u \in Adults : ParentJoins(h, u) \/ ParentMoves(h, u)
    \/ \E u \in People : DeleteOwnAccount(h, u)
    \/ \E kid \in Kids : DeleteChild(h, kid)

ThreadStep(h) == ChannelStep(h) \/ MessageStep(h) \/ KeyStep(h)

ThreadsNext == \E h \in Handlers : ThreadStep(h)
ThreadsSpec == ThreadsInit /\ [][ThreadsNext]_<<load, threadVars>>

-----------------------------------------------------------------------------
ThreadsTypeOK ==
    /\ load \in Loads /\ clock \in 0 .. MaxStamps
    /\ parents \subseteq Adults /\ gone \subseteq People
    /\ threads \subseteq Thread /\ messages \subseteq Message
    /\ treq \in [Handlers -> TRequest]

(* Requests that have seen no channel of this name and have yet to make it *)
Openers(c) == {h \in Handlers :
                 /\ treq[h].step \in {"check keys", "create thread", "commit thread"}
                 /\ treq[h].channel = c}

(* A channel exists once if requests come one at a time.  No key of the    *)
(* table says so: each request that overlaps others may add one.           *)
ChannelsBounded ==
    \A c \in Channels : Cardinality(RowsOf(c)) + Cardinality(Openers(c)) <= Overlap

(* lastActivity, by which threads are listed, is the stamp of the thread   *)
(* or of one of its messages; with one request at a time, of the newest.   *)
(* Messages that overlap may move it back.                                 *)
NewestActivity ==
    \A t \in threads :
        LET stamps == {t.createdAt} \cup
                {m.sentAt : m \in {n \in messages : n.thread = t.createdAt}}
        IN  /\ t.lastActivity \in stamps
            /\ Serial => \A s \in stamps : s <= t.lastActivity

(* With one request at a time a deleted account holds no key: the keys     *)
(* that a client sends are checked against the parents there are, and      *)
(* deleteOwnAccount removes those of its user.  Children are excepted:     *)
(* deleteChild leaves their keys, and a sync gives one to whoever was a    *)
(* child here, deleted or not.                                             *)
NoKeyOutlivesItsAccount ==
    Serial => \A t \in threads : t.keys \cap gone \subseteq Kids
=============================================================================
