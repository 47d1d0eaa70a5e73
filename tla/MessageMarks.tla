---------------------------- MODULE MessageMarks ----------------------------
(***************************************************************************)
(* The marks that people put on a message: a reaction each                 *)
(* (services/messageReactions.js) and private tags                         *)
(* (services/messageTags.js).  A mark is of one user on one message, and   *)
(* no message is ever deleted.                                             *)
(***************************************************************************)
EXTENDS Load

CONSTANTS
    Marks,      \* bound: pairs <<user, message>>
    Emojis,     \* ALLOWED_MESSAGE_REACTIONS
    Tags,       \* bound: the tags that people write
    MaxTags     \* MAX_TAGS_PER_MESSAGE

ASSUME MarksAssumption ==
    /\ MaxTags \in Nat /\ IsFiniteSet(Tags)
    /\ Null \notin Emojis \cup Marks /\ "raced" \notin Emojis \cup {Null}

VARIABLES
    reactions,  \* table MessageReaction: the emoji of each mark
    tags,       \* table MessageUserTag: the tags of each mark
    wanted,     \* history: the reaction that the user was shown last or asked for
    mreq        \* what each handler is doing

markVars == <<reactions, tags, wanted, mreq>>

-----------------------------------------------------------------------------
MSteps == {"idle", "read reaction", "delete reaction", "upsert reaction",
           "delete tags", "insert tags"}
MRequest == [step : MSteps, mark : Marks \cup {Null}, emoji : Emojis \cup {Null},
             tags : SUBSET Tags, victims : SUBSET Tags]
MIdle == [step |-> "idle", mark |-> Null, emoji |-> Null, tags |-> {}, victims |-> {}]

MStart(h, kind, request) ==
    /\ h \in Crowd /\ Serves(kind)
    /\ mreq[h].step = "idle"
    /\ mreq' = [mreq EXCEPT ![h] = request]
    /\ UNCHANGED load
MAt(h, step) == mreq[h].step = step /\ UNCHANGED load
MGoto(h, step) == mreq' = [mreq EXCEPT ![h].step = step]
MFinish(h) == mreq' = [mreq EXCEPT ![h] = MIdle]

ReactionSteps == {"read reaction", "delete reaction", "upsert reaction"}
Reacting(k) == {h \in Handlers : mreq[h].step \in ReactionSteps /\ mreq[h].mark = k}

MarksInit ==
    /\ LoadInit
    /\ reactions = [k \in Marks |-> Null]
    /\ tags = [k \in Marks |-> {}]
    /\ wanted = [k \in Marks |-> Null]
    /\ mreq = [h \in Handlers |-> MIdle]

-----------------------------------------------------------------------------
(* Reactions.  What a tap asks for: the emoji, or none if it was there.    *)
Toggle(old, emoji) == IF old = emoji THEN Null ELSE emoji

(* PUT /messages/:messageId/reaction; emoji is Null to take it away.       *)
SetMessageReaction(h, k, emoji) ==
    /\ MStart(h, "react", [MIdle EXCEPT !.step = "read reaction", !.mark = k, !.emoji = emoji])
    /\ wanted' = [wanted EXCEPT ![k] = IF Reacting(k) = {} THEN Toggle(reactions[k], emoji)
                                                           ELSE "raced"]
    /\ UNCHANGED <<reactions, tags>>

ReadReaction(h) ==
    LET r == mreq[h] IN
    /\ MAt(h, "read reaction")
    /\ MGoto(h, IF r.emoji \in {Null, reactions[r.mark]}
                THEN "delete reaction" ELSE "upsert reaction")
    /\ UNCHANGED <<reactions, tags, wanted>>

(* mutant: the user is left out of the where clause *)
DeleteReactions(h) ==
    /\ MAt(h, "delete reaction")
    /\ reactions' = [k \in Marks |-> Null]
    /\ MFinish(h)
    /\ UNCHANGED <<tags, wanted>>
DeleteReaction(h) ==
    /\ MAt(h, "delete reaction")
    /\ reactions' = [reactions EXCEPT ![mreq[h].mark] = Null]
    /\ MFinish(h)
    /\ UNCHANGED <<tags, wanted>>

UpsertReaction(h) ==
    /\ MAt(h, "upsert reaction")
    /\ reactions' = [reactions EXCEPT ![mreq[h].mark] = mreq[h].emoji]
    /\ MFinish(h)
    /\ UNCHANGED <<tags, wanted>>

-----------------------------------------------------------------------------
(* PUT /messages/:messageId/tags: the tags that the user holds are deleted *)
(* and the new ones inserted in one transaction...                         *)
SetMessageTags(h, k, new) ==
    /\ Cardinality(new) <= MaxTags
    /\ MStart(h, "tag", [MIdle EXCEPT !.step = "delete tags", !.mark = k, !.tags = new])
    /\ UNCHANGED <<reactions, tags, wanted>>

(* ...where the delete sees the rows that are committed when it starts...  *)
DeleteTags(h) ==
    /\ MAt(h, "delete tags")
    /\ mreq' = [mreq EXCEPT ![h].step = "insert tags", ![h].victims = tags[mreq[h].mark]]
    /\ UNCHANGED <<reactions, tags, wanted>>

InsertTagsOnly(h) ==        \* mutant: the old tags stay
    LET r == mreq[h] IN
    /\ MAt(h, "insert tags")
    /\ tags' = [tags EXCEPT ![r.mark] = @ \cup r.tags]
    /\ MFinish(h)
    /\ UNCHANGED <<reactions, wanted>>

(* ...and the insert fails on a tag that another request has put there.    *)
InsertTags(h) ==
    LET r == mreq[h]
        kept == tags[r.mark] \ r.victims
    IN  /\ MAt(h, "insert tags")
        /\ kept \cap r.tags = {}
        /\ tags' = [tags EXCEPT ![r.mark] = kept \cup r.tags]
        /\ MFinish(h)
        /\ UNCHANGED <<reactions, wanted>>

(* deleteOwnAccount takes the tags of the user, and leaves the reactions.  *)
DropTags(h, u) ==
    /\ MStart(h, "tag", MIdle)
    /\ tags' = [k \in Marks |-> IF k[1] = u THEN {} ELSE tags[k]]
    /\ UNCHANGED <<reactions, wanted>>

(* A statement that fails, or a crash: the user is told, or sees, what is  *)
(* there. *)
AbortMark(h) ==
    LET r == mreq[h] IN
    /\ r.step # "idle"
    /\ MFinish(h)
    /\ wanted' = IF r.step \in ReactionSteps /\ wanted[r.mark] # "raced"
                 THEN [wanted EXCEPT ![r.mark] = reactions[r.mark]] ELSE wanted
    /\ UNCHANGED <<load, reactions, tags>>

-----------------------------------------------------------------------------
MarkStep(h) ==
    \/ \E k \in Marks, emoji \in Emojis \cup {Null} : SetMessageReaction(h, k, emoji)
    \/ ReadReaction(h)
    \/ DeleteReaction(h)
    \/ UpsertReaction(h)
    \/ \E k \in Marks, new \in SUBSET Tags : SetMessageTags(h, k, new)
    \/ DeleteTags(h)
    \/ InsertTags(h)
    \/ \E k \in Marks : DropTags(h, k[1])
    \/ AbortMark(h)

MarksNext == \E h \in Handlers : MarkStep(h)
MarksSpec == MarksInit /\ [][MarksNext]_<<load, markVars>>

-----------------------------------------------------------------------------
MarksTypeOK ==
    /\ load \in Loads
    /\ reactions \in [Marks -> Emojis \cup {Null}]
    /\ tags \in [Marks -> SUBSET Tags]
    /\ wanted \in [Marks -> Emojis \cup {Null, "raced"}]
    /\ mreq \in [Handlers -> MRequest]

(* A tap does to the reaction what it says, whatever taps there are on     *)
(* other marks at once, as long as no other of the same user on the same   *)
(* message overlaps it: then both may add or both remove.                  *)
ReactionsToggle ==
    \A k \in Marks : Reacting(k) = {} /\ wanted[k] # "raced" => reactions[k] = wanted[k]

(* A message has at most the tags of the requests that set them at once,   *)
(* which delete what they all see and then add: ten, one at a time.        *)
TagsBounded == \A k \in Marks : Cardinality(tags[k]) <= MaxTags * Overlap
=============================================================================
