--------------------------- MODULE MessagesProofs ---------------------------
(***************************************************************************)
(* Proofs about what people write to each other, for any people, handlers  *)
(* and overlap.                                                            *)
(*                                                                         *)
(* Threads: how many rows a channel has, what lastActivity says, who holds *)
(* keys.  MessageMarks: a reaction is what its user asked for, as only     *)
(* taps of the same user on the same message disturb each other; and the   *)
(* tags of a mark stay within their limit for each request at once.        *)
(***************************************************************************)
EXTENDS Threads, MessageMarks, FiniteSetTheorems, FunctionTheorems,
        WellFoundedInduction, TLAPS

-----------------------------------------------------------------------------
(* Counting. *)

LEMMA FewerElements ==
    ASSUME NEW S, NEW T, NEW m \in Nat, IsFiniteSet(S), T \subseteq S, Cardinality(S) <= m
    PROVE  IsFiniteSet(T) /\ Cardinality(T) <= m
<1>1. IsFiniteSet(T) /\ Cardinality(T) <= Cardinality(S)
  BY FS_Subset
<1>2. Cardinality(T) \in Nat /\ Cardinality(S) \in Nat
  BY <1>1, FS_CardinalityType
<1> QED
  BY <1>1, <1>2

(* Rows (A), and the requests that are about to add one (B): either both   *)
(* shrink, or a request is served and adds its row.                        *)
LEMMA BothShrink ==
    ASSUME NEW A, NEW B, NEW A1, NEW B1, NEW n \in Nat, IsFiniteSet(A), IsFiniteSet(B),
           IsFiniteSet(A1), Cardinality(A1) <= Cardinality(A), B1 \subseteq B,
           Cardinality(A) + Cardinality(B) <= n
    PROVE  Cardinality(A1) + Cardinality(B1) <= n
<1>1. Cardinality(B1) <= Cardinality(B) /\ IsFiniteSet(B1)
  BY FS_Subset
<1>2. /\ Cardinality(A) \in Nat /\ Cardinality(B) \in Nat
      /\ Cardinality(A1) \in Nat /\ Cardinality(B1) \in Nat
  BY <1>1, FS_CardinalityType
<1> QED
  BY <1>1, <1>2

LEMMA RequestBecomesRow ==
    ASSUME NEW A, NEW B, NEW A1, NEW B1, NEW n \in Nat, NEW h, NEW s,
           IsFiniteSet(A), IsFiniteSet(B), h \in B, B1 \subseteq B \ {h},
           A1 \subseteq A \cup {s}, Cardinality(A) + Cardinality(B) <= n
    PROVE  Cardinality(A1) + Cardinality(B1) <= n
<1>1. /\ IsFiniteSet(A \cup {s})
      /\ Cardinality(A \cup {s}) = IF s \in A THEN Cardinality(A) ELSE Cardinality(A) + 1
  BY FS_AddElement
<1>2. IsFiniteSet(A1) /\ Cardinality(A1) <= Cardinality(A \cup {s})
  BY <1>1, FS_Subset
<1>3. IsFiniteSet(B \ {h}) /\ Cardinality(B \ {h}) = Cardinality(B) - 1
  BY FS_RemoveElement
<1>4. IsFiniteSet(B1) /\ Cardinality(B1) <= Cardinality(B \ {h})
  BY <1>3, FS_Subset
<1>5. /\ Cardinality(A) \in Nat /\ Cardinality(A1) \in Nat /\ Cardinality(A \cup {s}) \in Nat
      /\ Cardinality(B) \in Nat /\ Cardinality(B1) \in Nat /\ Cardinality(B \ {h}) \in Nat
  BY <1>1, <1>2, <1>3, <1>4, FS_CardinalityType
<1>6. Cardinality(A1) <= Cardinality(A) + 1
  BY <1>1, <1>2, <1>5
<1>7. Cardinality(B1) + 1 <= Cardinality(B)
  BY <1>3, <1>4, <1>5
<1> QED
  BY <1>5, <1>6, <1>7

LEMMA NoLargerImage ==
    ASSUME NEW S, NEW T, IsFiniteSet(S), NEW f \in [S -> T],
           \A t \in T : \E s \in S : f[s] = t
    PROVE  IsFiniteSet(T) /\ Cardinality(T) <= Cardinality(S)
<1>1. f \in Surjection(S, T)
  BY Fun_IsSurj
<1> QED
  BY <1>1, FS_Surjection

(* Counting by owner: a finite set in which each owner of C has m elements *)
(* at most has m elements for each of them at most.                        *)
LEMMA CountedByOwner ==
    ASSUME NEW S, NEW C, IsFiniteSet(S), IsFiniteSet(C), NEW m \in Nat,
           NEW own \in [S -> C],
           \A c \in C : Cardinality({t \in S : own[t] = c}) <= m
    PROVE  Cardinality(S) <= m * Cardinality(C)
<1> DEFINE Part(c) == {t \in S : own[t] = c}
           Places == C \X (1 .. m)
<1>1. ASSUME NEW c \in C PROVE Injection(Part(c), 1 .. m) # {}
  <2>1. IsFiniteSet(Part(c)) /\ Part(c) \subseteq S
    BY FS_Subset
  <2>2. PICK n \in Nat : n = Cardinality(Part(c)) /\ n <= m
    BY <2>1, FS_CardinalityType
  <2>3. ExistsBijection(1 .. n, Part(c))
    BY <2>1, <2>2, FS_CardinalityType
  <2>4. PICK f : f \in Bijection(Part(c), 1 .. n)
    BY <2>3, Fun_ExistsBijSymmetric DEF ExistsBijection
  <2>5. f \in [Part(c) -> 1 .. n] /\ IsInjective(f)
    BY <2>4 DEF Bijection, Injection
  <2>6. f \in [Part(c) -> 1 .. m]
    BY <2>2, <2>5
  <2> QED
    BY <2>5, <2>6 DEF Injection
<1> DEFINE place(c) == CHOOSE f : f \in Injection(Part(c), 1 .. m)
<1>2. ASSUME NEW c \in C
      PROVE  /\ place(c) \in [Part(c) -> 1 .. m]
             /\ \A a, b \in Part(c) : place(c)[a] = place(c)[b] => a = b
  <2>1. place(c) \in Injection(Part(c), 1 .. m)
    BY <1>1
  <2> HIDE DEF place, Part
  <2> QED
    BY <2>1 DEF Injection, IsInjective
<1> HIDE DEF place
<1> DEFINE g == [t \in S |-> <<own[t], place(own[t])[t]>>]
<1>3. ASSUME NEW t \in S PROVE own[t] \in C /\ t \in Part(own[t]) /\ place(own[t])[t] \in 1 .. m
  BY <1>2
<1>4. g \in [S -> Places]
  BY <1>3
<1>5. ASSUME NEW a \in S, NEW b \in S, g[a] = g[b] PROVE a = b
  <2>1. own[a] = own[b] /\ place(own[a])[a] = place(own[b])[b]
    BY <1>5
  <2>2. a \in Part(own[a]) /\ b \in Part(own[a]) /\ own[a] \in C
    BY <1>3, <2>1
  <2> QED
    BY <1>2, <2>1, <2>2
<1>6. g \in Injection(S, Places)
  <2> HIDE DEF g, Places
  <2> QED
    BY <1>4, <1>5, Fun_IsInj
<1>7. IsFiniteSet(1 .. m) /\ Cardinality(1 .. m) = m
  <2>0. 1 \in Int /\ m \in Int
    OBVIOUS
  <2>1. Cardinality(1 .. m) = IF 1 > m THEN 0 ELSE m - 1 + 1
    BY <2>0, FS_Interval, Zenon
  <2>2. IsFiniteSet(1 .. m)
    BY <2>0, FS_Interval, Zenon
  <2> QED
    BY <2>1, <2>2
<1>8. IsFiniteSet(Places) /\ Cardinality(Places) = Cardinality(C) * m
  BY <1>7, FS_Product
<1>9. Cardinality(S) <= Cardinality(Places)
  <2> HIDE DEF g, Places
  <2> QED
    BY <1>6, <1>8, FS_Injection
<1>10. Cardinality(C) \in Nat /\ Cardinality(S) \in Nat
  BY FS_CardinalityType
<1> QED
  <2>1. Cardinality(C) * m = m * Cardinality(C)
    BY <1>10
  <2> QED
    BY <1>8, <1>9, <2>1

LEMMA Smallest ==
    ASSUME NEW S \in SUBSET Nat, S # {}
    PROVE  \E x \in S : \A y \in S : x <= y
<1> DEFINE less == OpToRel(<, Nat)
<1>1. less = {ss \in Nat \X Nat : ss[1] < ss[2]}
  BY DEF OpToRel
<1>2. IsWellFoundedOn(less, Nat)
  BY NatLessThanWellFounded
<1> HIDE DEF less
<1>3. PICK x \in S : \A y \in S : ~(<<y, x>> \in less)
  BY <1>2, WFMin
<1>4. \A y \in S : y < x => <<y, x>> \in less
  BY <1>1
<1>5. ASSUME NEW y \in S PROVE x <= y
  <2>1. ~(y < x)
    BY <1>3, <1>4
  <2> QED
    BY <2>1
<1> QED
  BY <1>5

-----------------------------------------------------------------------------
(* The handlers of a load. *)

LEMMA CrowdIsFinite ==
    ASSUME load \in Loads
    PROVE  IsFiniteSet(Crowd) /\ Overlap \in Nat /\ Crowd \subseteq Handlers /\ Overlap >= 1
<1>1. Crowd \subseteq Handlers /\ Crowd # {}
  BY LoadsAssumption DEF Crowd
<1>2. IsFiniteSet(Crowd)
  BY <1>1, HandlersAssumption, FS_Subset
<1>3. Cardinality(Crowd) \in Nat /\ Cardinality(Crowd) # 0
  BY <1>1, <1>2, FS_CardinalityType, FS_EmptySet
<1> QED
  BY <1>1, <1>2, <1>3 DEF Overlap

LEMMA OneInTheCrowd ==
    ASSUME load \in Loads, Serial, NEW g \in Crowd, NEW h \in Crowd
    PROVE  g = h
<1>1. IsFiniteSet(Crowd) /\ Cardinality(Crowd) = 1
  BY CrowdIsFinite DEF Serial, Overlap
<1>2. \E x : Crowd = {x}
  BY <1>1, FS_Singleton
<1> QED
  BY <1>2

-----------------------------------------------------------------------------
(* Threads. *)

OpeningSteps == {"check keys", "create thread", "commit thread"}
CommitSteps == {"commit thread", "commit message"}

(* What a request knows at its step. *)
Sound(r) ==
    /\ r \in TRequest
    /\ r.step # "idle" => r.user \in People
    /\ r.step \in CommitSteps => r.stamp \in Stamps
    /\ r.step \in {"add system message", "commit message", "create key"} => r.thread \in Stamps
    /\ r.step = "create key" => r.user \in Kids

ThreadsTyped ==
    /\ ThreadsTypeOK
    /\ IsFiniteSet(threads)
    /\ \A h \in Handlers : Sound(treq[h])
    /\ \A h \in Handlers : treq[h].step # "idle" => h \in Crowd

ChannelsOK ==
    \A c \in Channels : Cardinality(RowsOf(c)) + Cardinality(Openers(c)) <= Overlap

(* The stamps come from the clock, and lastActivity from the stamps.       *)
StampsOK ==
    /\ \A t \in threads : t.createdAt <= clock
    /\ \A m \in messages : m.sentAt <= clock
    /\ \A h \in Handlers : treq[h].step \in CommitSteps => treq[h].stamp <= clock
    /\ \A t \in threads :
         \/ t.lastActivity = t.createdAt
         \/ \E m \in messages : m.thread = t.createdAt /\ m.sentAt = t.lastActivity

NewestOK == Serial =>
    /\ \A h \in Handlers : treq[h].step \in CommitSteps => treq[h].stamp = clock
    /\ \A t \in threads :
         /\ t.createdAt <= t.lastActivity
         /\ \A m \in messages : m.thread = t.createdAt => m.sentAt <= t.lastActivity

(* The keys that a request is about to store are those of parents; the     *)
(* system channel stores none.                                             *)
Checked(r, ps) ==
    /\ r.step \in {"create thread", "commit thread"}
    /\ r.channel # SystemChannel
    => r.keys \subseteq ps

KeysOK ==
    /\ parents \cap gone = {}
    /\ Serial => /\ \A h \in Handlers : Checked(treq[h], parents)
                 /\ \A t \in threads : t.keys \cap gone \subseteq Kids

ThreadsInv == ThreadsTyped /\ ChannelsOK /\ StampsOK /\ NewestOK /\ KeysOK

(* Handler h goes on with request r. *)
Turns(h, r) == treq' = [treq EXCEPT ![h] = r] /\ load' = load

LEMMA TurnsEffect ==
    ASSUME ThreadsTyped, NEW h \in Handlers, NEW r, Turns(h, r)
    PROVE  /\ treq'[h] = r /\ \A g \in Handlers : g # h => treq'[g] = treq[g]
           /\ load' = load /\ Crowd' = Crowd /\ Overlap' = Overlap /\ (Serial' <=> Serial)
  BY DEF ThreadsTyped, ThreadsTypeOK, Turns, Crowd, Overlap, Serial

LEMMA IdleIsChecked == ASSUME NEW ps PROVE Checked(TIdle, ps)
  BY DEF Checked, TIdle

LEMMA TIdleIsSound ==
    /\ Sound(TIdle) /\ TIdle.step = "idle" /\ TIdle.step \notin OpeningSteps
    /\ TIdle.step \notin CommitSteps
  BY DEF Sound, TIdle, TRequest, TSteps, OpeningSteps, CommitSteps

LEMMA StampsAreNumbers == Stamps \subseteq Nat /\ \A i \in Stamps : i # 0
  BY ThreadsAssumption DEF Stamps

(* The four parts of the invariant, for a step whose rows are known.       *)
LEMMA TypedStep ==
    ASSUME ThreadsTyped, NEW h \in Handlers, NEW r, Turns(h, r), Sound(r),
           r.step = "idle" \/ h \in Crowd,
           parents' \subseteq Adults, gone' \subseteq People, clock' \in 0 .. MaxStamps,
           threads' \subseteq Thread, IsFiniteSet(threads'), messages' \subseteq Message
    PROVE  ThreadsTyped'
<1>1. /\ treq'[h] = r /\ \A g \in Handlers : g # h => treq'[g] = treq[g]
      /\ load' = load /\ Crowd' = Crowd
  BY TurnsEffect
<1>2. treq' \in [Handlers -> TRequest]
  BY DEF ThreadsTyped, ThreadsTypeOK, Turns, Sound
<1>3. \A g \in Handlers : Sound(treq'[g])
  BY <1>1 DEF ThreadsTyped
<1>4. \A g \in Handlers : treq'[g].step # "idle" => g \in Crowd'
  BY <1>1 DEF ThreadsTyped
<1>5. ThreadsTypeOK'
  BY <1>1, <1>2 DEF ThreadsTyped, ThreadsTypeOK
<1> QED
  BY <1>3, <1>4, <1>5 DEF ThreadsTyped, Sound

LEMMA RowsAreFinite ==
    ASSUME ThreadsTyped, NEW c
    PROVE  IsFiniteSet(RowsOf(c)) /\ IsFiniteSet(Openers(c)) /\ Openers(c) \subseteq Crowd
<1>1. RowsOf(c) \subseteq threads /\ Openers(c) \subseteq Crowd
  BY DEF RowsOf, Openers, ThreadsTyped
<1> QED
  BY <1>1, CrowdIsFinite, FS_Subset DEF ThreadsTyped, ThreadsTypeOK

(* No request sets out to open a channel, and threads keep their channels. *)
LEMMA ChannelsStay ==
    ASSUME ThreadsTyped, ThreadsTyped', ChannelsOK, NEW h \in Handlers, NEW r, Turns(h, r),
           \/ r.step \notin OpeningSteps \/ r.channel \notin Channels
           \/ treq[h].step \in OpeningSteps /\ r.channel = treq[h].channel,
           NEW f \in [threads -> threads'],
           \A t \in threads : f[t].channel = t.channel,
           \A s \in threads' : \E t \in threads : f[t] = s
    PROVE  ChannelsOK'
<1>1. /\ treq'[h] = r /\ \A g \in Handlers : g # h => treq'[g] = treq[g]
      /\ Overlap' = Overlap
  BY TurnsEffect
<1>2. Overlap \in Nat
  BY CrowdIsFinite DEF ThreadsTyped, ThreadsTypeOK
<1>3. ASSUME NEW c \in Channels
      PROVE  (Cardinality(RowsOf(c)) + Cardinality(Openers(c)) <= Overlap)'
  <2>1. Openers(c)' \subseteq Openers(c)
    BY <1>1 DEF Openers, OpeningSteps
  <2>2. PICK A, A1 : A = RowsOf(c) /\ A1 = RowsOf(c)'
    OBVIOUS
  <2>3. PICK e : e = [t \in A |-> f[t]]
    OBVIOUS
  <2>4. e \in [A -> A1] /\ \A s \in A1 : \E t \in A : e[t] = s
    <3>1. /\ \A t : t \in A <=> t \in threads /\ t.channel = c
          /\ \A t : t \in A1 <=> t \in threads' /\ t.channel = c
      BY <2>2 DEF RowsOf
    <3>2. \A t \in A : f[t] \in A1
      BY <3>1
    <3>3. \A s \in A1 : \E t \in A : f[t] = s
      BY <3>1
    <3> QED
      BY <2>3, <3>2, <3>3
  <2>5. IsFiniteSet(A) /\ IsFiniteSet(Openers(c))
    BY <2>2, RowsAreFinite
  <2>6. IsFiniteSet(A1) /\ Cardinality(A1) <= Cardinality(A)
    BY <2>4, <2>5, NoLargerImage
  <2>7. Cardinality(A) + Cardinality(Openers(c)) <= Overlap
    BY <2>2 DEF ChannelsOK
  <2>8. Cardinality(A1) + Cardinality(Openers(c)') <= Overlap
    BY <1>2, <2>1, <2>5, <2>6, <2>7, BothShrink
  <2> QED
    BY <1>1, <2>2, <2>8
<1> QED
  BY <1>3 DEF ChannelsOK

(* A request that finds no row of its channel sets out to open it.         *)
LEMMA ChannelsOpening ==
    ASSUME ThreadsTyped, ThreadsTyped', ChannelsOK, NEW h \in Handlers, NEW r, Turns(h, r),
           RowsOf(r.channel) = {}, treq[h].step = "idle", threads' = threads
    PROVE  ChannelsOK'
<1>1. /\ treq'[h] = r /\ \A g \in Handlers : g # h => treq'[g] = treq[g]
      /\ Overlap' = Overlap /\ Crowd' = Crowd
  BY TurnsEffect
<1>2. Overlap \in Nat /\ IsFiniteSet(Crowd)
  BY CrowdIsFinite DEF ThreadsTyped, ThreadsTypeOK
<1>3. ASSUME NEW c \in Channels
      PROVE  (Cardinality(RowsOf(c)) + Cardinality(Openers(c)) <= Overlap)'
  <2>1. CASE c = r.channel
    <3>1. RowsOf(c)' = {} /\ Cardinality({}) = 0
      BY <2>1, FS_EmptySet DEF RowsOf
    <3>2. Openers(c)' \subseteq Crowd
      BY <1>1 DEF Openers, ThreadsTyped
    <3>3. PICK B : B = Openers(c)'
      OBVIOUS
    <3>4. IsFiniteSet(B) /\ Cardinality(B) <= Overlap
      BY <1>2, <3>2, <3>3, FS_Subset DEF Overlap
    <3>5. Cardinality(B) \in Nat
      BY <3>4, FS_CardinalityType
    <3> QED
      BY <1>1, <1>2, <3>1, <3>3, <3>4, <3>5
  <2>2. CASE c # r.channel
    <3>1. RowsOf(c)' = RowsOf(c)
      BY DEF RowsOf
    <3>2. Openers(c)' = Openers(c)
      BY <1>1, <2>2 DEF Openers
    <3> QED
      BY <1>1, <3>1, <3>2 DEF ChannelsOK
  <2> QED
    BY <2>1, <2>2
<1> QED
  BY <1>3 DEF ChannelsOK

(* Requests of which one may have moved the clock, while the rows kept     *)
(* their stamps.                                                           *)
LEMMA StampsStay ==
    ASSUME ThreadsTyped, ThreadsTyped', StampsOK, NEW h \in Handlers, NEW r, Turns(h, r),
           clock' >= clock, r.step \in CommitSteps => r.stamp <= clock',
           \A s \in threads' : \E t \in threads :
              s.createdAt = t.createdAt /\ s.lastActivity = t.lastActivity,
           \A n \in messages' : \E m \in messages : n.sentAt = m.sentAt,
           \A m \in messages : \E n \in messages' : n.sentAt = m.sentAt /\ n.thread = m.thread
    PROVE  StampsOK'
<1>1. treq'[h] = r /\ \A g \in Handlers : g # h => treq'[g] = treq[g]
  BY TurnsEffect
<1>2. clock \in Nat /\ clock' \in Nat
  BY ThreadsAssumption DEF ThreadsTyped, ThreadsTypeOK
<1>3. ASSUME NEW s \in threads' PROVE s.createdAt <= clock'
  <2>1. PICK t \in threads : s.createdAt = t.createdAt
    OBVIOUS
  <2>2. t.createdAt \in Nat /\ t.createdAt <= clock
    BY StampsAreNumbers DEF ThreadsTyped, ThreadsTypeOK, Thread, StampsOK
  <2> QED
    BY <1>2, <2>1, <2>2
<1>4. ASSUME NEW n \in messages' PROVE n.sentAt <= clock'
  <2>1. PICK m \in messages : n.sentAt = m.sentAt
    OBVIOUS
  <2>2. m.sentAt \in Nat /\ m.sentAt <= clock
    BY StampsAreNumbers DEF ThreadsTyped, ThreadsTypeOK, Message, StampsOK
  <2> QED
    BY <1>2, <2>1, <2>2
<1>5. ASSUME NEW g \in Handlers, treq'[g].step \in CommitSteps
      PROVE  treq'[g].stamp <= clock'
  <2>1. CASE g = h
    BY <1>1, <1>5, <2>1
  <2>2. CASE g # h
    <3>1. treq[g].step \in CommitSteps /\ treq'[g].stamp = treq[g].stamp
      BY <1>1, <1>5, <2>2
    <3>2. treq[g].stamp \in Nat /\ treq[g].stamp <= clock
      BY <3>1, StampsAreNumbers DEF ThreadsTyped, Sound, StampsOK
    <3> QED
      BY <1>2, <3>1, <3>2
  <2> QED
    BY <2>1, <2>2
<1>6. ASSUME NEW s \in threads'
      PROVE  \/ s.lastActivity = s.createdAt
             \/ \E m \in messages' : m.thread = s.createdAt /\ m.sentAt = s.lastActivity
  <2>1. PICK t \in threads : s.createdAt = t.createdAt /\ s.lastActivity = t.lastActivity
    OBVIOUS
  <2>2. CASE t.lastActivity = t.createdAt
    BY <2>1, <2>2
  <2>3. CASE \E m \in messages : m.thread = t.createdAt /\ m.sentAt = t.lastActivity
    BY <2>1, <2>3
  <2> QED
    BY <2>2, <2>3 DEF StampsOK
<1> QED
  BY <1>3, <1>4, <1>5, <1>6 DEF StampsOK

LEMMA NewestStays ==
    ASSUME ThreadsTyped, ThreadsTyped', StampsOK, NewestOK, NEW h \in Handlers, NEW r,
           Turns(h, r),
           clock' = clock \/ h \in Crowd, r.step \in CommitSteps => r.stamp = clock' \/
              (r.step = treq[h].step /\ r.stamp = treq[h].stamp /\ clock' = clock),
           \A s \in threads' : \E t \in threads :
              s.createdAt = t.createdAt /\ s.lastActivity = t.lastActivity,
           \A n \in messages' : \E m \in messages : n.sentAt = m.sentAt /\ n.thread = m.thread
    PROVE  NewestOK'
<1>1. /\ treq'[h] = r /\ \A g \in Handlers : g # h => treq'[g] = treq[g]
      /\ Serial' <=> Serial
  BY TurnsEffect
<1>2. ASSUME Serial, NEW g \in Handlers, treq'[g].step \in CommitSteps
      PROVE  treq'[g].stamp = clock'
  <2>1. CASE g = h
    BY <1>1, <1>2, <2>1 DEF NewestOK
  <2>2. CASE g # h
    <3>1. treq'[g] = treq[g] /\ treq[g].step # "idle" /\ g \in Crowd
      BY <1>1, <1>2, <2>2 DEF ThreadsTyped, CommitSteps
    <3>2. h \notin Crowd
      BY <1>2, <2>2, <3>1, OneInTheCrowd DEF ThreadsTyped, ThreadsTypeOK
    <3> QED
      BY <1>2, <3>1, <3>2 DEF NewestOK
  <2> QED
    BY <2>1, <2>2
<1>3. ASSUME Serial, NEW s \in threads'
      PROVE  /\ s.createdAt <= s.lastActivity
             /\ \A n \in messages' : n.thread = s.createdAt => n.sentAt <= s.lastActivity
  <2>1. PICK t \in threads : s.createdAt = t.createdAt /\ s.lastActivity = t.lastActivity
    OBVIOUS
  <2> QED
    BY <1>3, <2>1 DEF NewestOK
<1> QED
  BY <1>1, <1>2, <1>3 DEF NewestOK

LEMMA KeysStay ==
    ASSUME ThreadsTyped, ThreadsTyped', KeysOK, NEW h \in Handlers, NEW r, Turns(h, r),
           Serial => Checked(r, parents), parents' = parents, gone' = gone,
           \A s \in threads' : \E t \in threads : s.keys = t.keys
    PROVE  KeysOK'
<1>1. /\ treq'[h] = r /\ \A g \in Handlers : g # h => treq'[g] = treq[g]
      /\ Serial' <=> Serial
  BY TurnsEffect
<1>2. ASSUME Serial, NEW g \in Handlers PROVE Checked(treq'[g], parents)
  <2>1. CASE g = h
    BY <1>1, <1>2, <2>1
  <2>2. CASE g # h
    BY <1>1, <1>2, <2>2 DEF KeysOK
  <2> QED
    BY <2>1, <2>2
<1>3. ASSUME Serial, NEW s \in threads' PROVE s.keys \cap gone \subseteq Kids
  BY <1>3 DEF KeysOK
<1> QED
  BY <1>1, <1>2, <1>3 DEF KeysOK

-----------------------------------------------------------------------------
(* The oldest row of a channel is there, if the channel is. *)
LEMMA OldestIsThere ==
    ASSUME ThreadsTyped, NEW c, RowsOf(c) # {}
    PROVE  OldestOf(c) \in RowsOf(c) /\ OldestOf(c).createdAt \in Stamps
<1>1. \A t \in RowsOf(c) : t.createdAt \in Stamps /\ t.createdAt \in Nat
  BY StampsAreNumbers DEF RowsOf, ThreadsTyped, ThreadsTypeOK, Thread
<1>2. PICK born : born = {t.createdAt : t \in RowsOf(c)}
  OBVIOUS
<1>3. born \in SUBSET Nat /\ born # {}
  BY <1>1, <1>2
<1>4. PICK x \in born : \A y \in born : x <= y
  BY <1>3, Smallest
<1>5. \E t \in RowsOf(c) : \A other \in RowsOf(c) : t.createdAt <= other.createdAt
  BY <1>2, <1>4
<1> QED
  BY <1>1, <1>5 DEF OldestOf

(* A request that only turns to another step, while no row changes.        *)
LEMMA RowsUntouched ==
    ASSUME ThreadsInv, NEW h \in Handlers, NEW r, Turns(h, r), Sound(r),
           r.step = "idle" \/ h \in Crowd,
           parents' = parents, gone' = gone, threads' = threads, messages' = messages,
           clock' \in 0 .. MaxStamps, clock' = clock \/ (clock' = clock + 1 /\ h \in Crowd),
           r.step \in CommitSteps =>
              r.stamp = clock' \/ (/\ r.step = treq[h].step
                                   /\ r.stamp = treq[h].stamp /\ clock' = clock),
           Serial => Checked(r, parents),
           \/ r.step \notin OpeningSteps \/ r.channel \notin Channels
           \/ treq[h].step \in OpeningSteps /\ r.channel = treq[h].channel
           \/ RowsOf(r.channel) = {} /\ treq[h].step = "idle"
    PROVE  ThreadsInv'
<1>1. /\ ThreadsTyped /\ ChannelsOK /\ StampsOK /\ NewestOK /\ KeysOK
      /\ clock \in Nat /\ clock' \in Nat
      /\ treq[h].step \in CommitSteps => treq[h].stamp <= clock
  BY ThreadsAssumption DEF ThreadsInv, ThreadsTyped, ThreadsTypeOK, StampsOK
<1>2. ThreadsTyped'
  BY <1>1, TypedStep DEF ThreadsTyped, ThreadsTypeOK
<1>3. PICK f : f = [t \in threads |-> t]
  OBVIOUS
<1>4. /\ f \in [threads -> threads'] /\ \A t \in threads : f[t].channel = t.channel
      /\ \A s \in threads' : \E t \in threads : f[t] = s
  BY <1>3
<1>5. ChannelsOK'
  BY <1>1, <1>2, <1>4, ChannelsStay, ChannelsOpening
<1>6. r.step \in CommitSteps => r.stamp <= clock'
  BY <1>1
<1>7. StampsOK'
  BY <1>1, <1>2, <1>6, StampsStay
<1>8. NewestOK'
  BY <1>1, <1>2, NewestStays
<1>9. KeysOK'
  BY <1>1, <1>2, KeysStay
<1> QED
  BY <1>2, <1>5, <1>7, <1>8, <1>9 DEF ThreadsInv

LEMMA InvIsTyped ==
    ASSUME ThreadsInv
    PROVE  /\ ThreadsTyped /\ ThreadsTypeOK /\ clock \in 0 .. MaxStamps /\ clock \in Nat
           /\ parents \subseteq Adults /\ gone \subseteq People
           /\ threads \subseteq Thread /\ messages \subseteq Message
           /\ IsFiniteSet(threads) /\ \A h \in Handlers : Sound(treq[h])
           /\ \A h \in Handlers : treq[h].step # "idle" => h \in Crowd
  BY ThreadsAssumption DEF ThreadsInv, ThreadsTyped, ThreadsTypeOK

LEMMA NextStamp ==
    ASSUME ThreadsInv, Tick
    PROVE  /\ clock + 1 \in Stamps /\ clock' = clock + 1 /\ clock' \in 0 .. MaxStamps
           /\ clock' >= clock
  BY InvIsTyped, ThreadsAssumption DEF Tick, Stamps

LEMMA OpenChannelKeeps ==
    ASSUME ThreadsInv, NEW h \in Handlers, NEW u \in People, NEW c \in Channels,
           NEW keys \in SUBSET People, OpenChannel(h, u, c, keys)
    PROVE  ThreadsInv'
<1>1. PICK step \in {"create thread", "check keys"} :
        step = IF keys = {} \/ c = SystemChannel THEN "create thread" ELSE "check keys"
  OBVIOUS
<1>2. PICK r : r = [TIdle EXCEPT !.user = u, !.channel = c, !.keys = keys, !.step = step]
  OBVIOUS
<1>3. /\ Turns(h, r) /\ h \in Crowd /\ treq[h].step = "idle" /\ RowsOf(c) = {}
      /\ UNCHANGED <<parents, gone, clock, threads, messages>>
  BY <1>1, <1>2 DEF OpenChannel, TStart, Turns
<1>4. /\ r.step = step /\ r.user = u /\ r.channel = c /\ r.keys = keys /\ r \in TRequest
  BY <1>2 DEF TIdle, TRequest, TSteps
<1>5. Sound(r) /\ r.step \notin CommitSteps
  BY <1>4 DEF Sound, CommitSteps
<1>6. Checked(r, parents)
  BY <1>1, <1>4 DEF Checked
<1> QED
  BY <1>3, <1>4, <1>5, <1>6, InvIsTyped, RowsUntouched

LEMMA OpenTopicKeeps ==
    ASSUME ThreadsInv, NEW h \in Handlers, NEW u \in Adults,
           NEW keys \in SUBSET People, OpenTopic(h, u, keys)
    PROVE  ThreadsInv'
<1>1. PICK step \in {"create thread", "check keys"} :
        step = IF keys = {} THEN "create thread" ELSE "check keys"
  OBVIOUS
<1>2. PICK r : r = [TIdle EXCEPT !.user = u, !.keys = keys, !.step = step]
  OBVIOUS
<1>3. /\ Turns(h, r) /\ h \in Crowd /\ treq[h].step = "idle"
      /\ UNCHANGED <<parents, gone, clock, threads, messages>>
  BY <1>1, <1>2 DEF OpenTopic, TStart, Turns
<1>4. u \in People
  BY DEF People
<1>5. /\ r.step = step /\ r.user = u /\ r.channel = Null /\ r.keys = keys /\ r \in TRequest
  BY <1>2, <1>4 DEF TIdle, TRequest, TSteps
<1>6. Sound(r) /\ r.step \notin CommitSteps
  BY <1>4, <1>5 DEF Sound, CommitSteps
<1>7. r.channel \notin Channels
  BY <1>5, ThreadsAssumption DEF Channels
<1>8. Checked(r, parents)
  BY <1>1, <1>5 DEF Checked
<1> QED
  BY <1>3, <1>5, <1>6, <1>7, <1>8, InvIsTyped, RowsUntouched

LEMMA FinishKeeps ==
    ASSUME ThreadsInv, NEW h \in Handlers, TFinish(h),
           UNCHANGED <<load, parents, gone, clock, threads, messages>>
    PROVE  ThreadsInv'
<1>1. Turns(h, TIdle)
  BY DEF TFinish, Turns
<1> QED
  BY <1>1, TIdleIsSound, IdleIsChecked, InvIsTyped, RowsUntouched

LEMMA CheckKeysKeeps ==
    ASSUME ThreadsInv, NEW h \in Handlers, CheckKeys(h)
    PROVE  ThreadsInv'
<1>1. UNCHANGED <<load, parents, gone, clock, threads, messages>> /\ treq[h].step = "check keys"
  BY DEF CheckKeys, TAt
<1>2. CASE TFinish(h)
  BY <1>1, <1>2, FinishKeeps
<1>3. CASE ValidKeys(treq[h].keys) /\ TGoto(h, "create thread")
  <2>1. PICK q, r : /\ q = treq[h] /\ r = [q EXCEPT !.step = "create thread"]
                    /\ Turns(h, r)
    BY <1>1, <1>3 DEF TGoto, Turns
  <2>2. Sound(q) /\ q \in TRequest /\ h \in Crowd
    BY <1>1, <2>1, InvIsTyped DEF Sound
  <2>3. /\ r.step = "create thread" /\ r.user = q.user /\ r.channel = q.channel
        /\ r.keys = q.keys /\ r \in TRequest
    BY <2>1, <2>2 DEF TRequest, TSteps
  <2>4. Sound(r) /\ r.step \notin CommitSteps /\ q.step \in OpeningSteps
    BY <1>1, <2>1, <2>2, <2>3 DEF Sound, CommitSteps, OpeningSteps
  <2>5. Checked(r, parents)
    BY <1>3, <2>1, <2>3 DEF Checked, ValidKeys
  <2> QED
    BY <1>1, <2>1, <2>2, <2>3, <2>4, <2>5, InvIsTyped, RowsUntouched
<1> QED
  BY <1>2, <1>3 DEF CheckKeys

LEMMA NotifyKeeps ==
    ASSUME ThreadsInv, NEW h \in Handlers, NEW u \in Adults, Notify(h, u)
    PROVE  ThreadsInv'
<1>1. u \in People /\ SystemChannel \in Channels
  BY DEF People, Channels
<1>2. CASE RowsOf(SystemChannel) = {}
  <2>1. PICK r : /\ r = [TIdle EXCEPT !.user = u, !.channel = SystemChannel, !.notify = TRUE,
                                      !.step = "create thread"]
                 /\ Turns(h, r) /\ h \in Crowd /\ treq[h].step = "idle"
                 /\ UNCHANGED <<parents, gone, clock, threads, messages>>
    BY <1>2 DEF Notify, TStart, Turns
  <2>2. /\ r.step = "create thread" /\ r.user = u /\ r.channel = SystemChannel
        /\ r.keys = {} /\ r \in TRequest
    BY <1>1, <2>1 DEF TIdle, TRequest, TSteps
  <2>3. Sound(r) /\ r.step \notin CommitSteps /\ Checked(r, parents)
    BY <1>1, <2>2 DEF Sound, CommitSteps, Checked
  <2> QED
    BY <1>2, <2>1, <2>2, <2>3, InvIsTyped, RowsUntouched
<1>3. CASE RowsOf(SystemChannel) # {}
  <2>1. PICK id, r :
          /\ id = OldestOf(SystemChannel).createdAt
          /\ r = [TIdle EXCEPT !.user = u, !.thread = id, !.step = "add system message"]
          /\ Turns(h, r) /\ h \in Crowd /\ treq[h].step = "idle"
          /\ UNCHANGED <<parents, gone, clock, threads, messages>>
    BY <1>3 DEF Notify, TStart, Turns
  <2>2. id \in Stamps
    BY <1>3, <2>1, InvIsTyped, OldestIsThere
  <2>3. r.step = "add system message" /\ r.user = u /\ r.thread = id /\ r \in TRequest
    BY <1>1, <2>1, <2>2 DEF TIdle, TRequest, TSteps
  <2>4. /\ Sound(r) /\ r.step \notin CommitSteps /\ r.step \notin OpeningSteps
        /\ Checked(r, parents)
    BY <1>1, <2>2, <2>3 DEF Sound, CommitSteps, OpeningSteps, Checked
  <2> QED
    BY <2>1, <2>3, <2>4, InvIsTyped, RowsUntouched
<1> QED
  BY <1>2, <1>3

(* A row is given its stamp.                                               *)
LEMMA StampingKeeps ==
    ASSUME ThreadsInv, NEW h \in Handlers, NEW step \in CommitSteps, Tick,
           treq[h].step # "idle", load' = load, UNCHANGED <<parents, gone, threads, messages>>,
           treq' = [treq EXCEPT ![h].step = step, ![h].stamp = clock + 1],
           step = "commit thread" => treq[h].step = "create thread",
           step = "commit message" => treq[h].step = "add system message"
    PROVE  ThreadsInv'
<1>1. PICK q, r : /\ q = treq[h] /\ r = [q EXCEPT !.step = step, !.stamp = clock + 1]
                  /\ Turns(h, r)
  BY DEF Turns
<1>2. Sound(q) /\ q \in TRequest /\ h \in Crowd
  BY <1>1, InvIsTyped DEF Sound
<1>3. step \in TSteps /\ clock + 1 \in Stamps
  BY NextStamp DEF TSteps, CommitSteps
<1>4. /\ r.step = step /\ r.user = q.user /\ r.channel = q.channel /\ r.thread = q.thread
      /\ r.keys = q.keys /\ r.stamp = clock + 1 /\ r \in TRequest
  BY <1>1, <1>2, <1>3 DEF TRequest
<1>5. Sound(r)
  BY <1>1, <1>2, <1>3, <1>4 DEF Sound, CommitSteps, OpeningSteps
<1>6. r.stamp = clock'
  BY <1>4, NextStamp
<1>7. r.step \notin OpeningSteps \/ (q.step \in OpeningSteps /\ r.keys = q.keys
                                      /\ r.channel = q.channel)
  BY <1>1, <1>4 DEF CommitSteps, OpeningSteps
<1>8. Serial => Checked(r, parents)
  BY <1>1, <1>4 DEF ThreadsInv, KeysOK, Checked, CommitSteps
<1> QED
  BY <1>1, <1>2, <1>5, <1>6, <1>7, <1>8, NextStamp, RowsUntouched

LEMMA CreateThreadKeeps ==
    ASSUME ThreadsInv, NEW h \in Handlers, CreateThread(h)
    PROVE  ThreadsInv'
  BY StampingKeeps DEF CreateThread, TAt, CommitSteps, OpeningSteps

LEMMA AddSystemMessageKeeps ==
    ASSUME ThreadsInv, NEW h \in Handlers, AddSystemMessage(h)
    PROVE  ThreadsInv'
  BY StampingKeeps DEF AddSystemMessage, TAt, CommitSteps, OpeningSteps

LEMMA AddMessageKeeps ==
    ASSUME ThreadsInv, NEW h \in Handlers, NEW u \in People, NEW id \in Stamps,
           AddMessage(h, u, id)
    PROVE  ThreadsInv'
<1>1. PICK r : /\ r = [TIdle EXCEPT !.step = "commit message", !.user = u,
                                    !.thread = id, !.stamp = clock + 1]
               /\ Turns(h, r) /\ h \in Crowd /\ Tick
               /\ UNCHANGED <<parents, gone, threads, messages>>
  BY DEF AddMessage, TStart, Turns
<1>2. clock + 1 \in Stamps
  BY <1>1, NextStamp
<1>3. /\ r.step = "commit message" /\ r.user = u /\ r.thread = id /\ r.stamp = clock + 1
      /\ r \in TRequest
  BY <1>1, <1>2 DEF TIdle, TRequest, TSteps
<1>4. Sound(r) /\ r.step \notin OpeningSteps /\ Checked(r, parents)
  BY <1>2, <1>3 DEF Sound, CommitSteps, OpeningSteps, Checked
<1>5. r.stamp = clock' /\ clock' \in 0 .. MaxStamps /\ clock' = clock + 1
  BY <1>1, <1>3, NextStamp
<1> QED
  BY <1>1, <1>4, <1>5, RowsUntouched

-----------------------------------------------------------------------------
(* Steps that change rows. *)

LEMMA NewThreadEffect ==
    ASSUME NEW r, Sound(r), r.step = "commit thread"
    PROVE  /\ NewThread(r) \in Thread /\ NewThread(r).createdAt = r.stamp
           /\ NewThread(r).lastActivity = r.stamp /\ NewThread(r).channel = r.channel
           /\ NewThread(r).keys \subseteq r.keys /\ r.stamp \in Stamps
           /\ \A ps : Checked(r, ps) => NewThread(r).keys \subseteq ps
<1>1. r \in TRequest /\ r.stamp \in Stamps
  BY DEF Sound, CommitSteps
<1> QED
  BY <1>1 DEF NewThread, TRequest, Thread, Checked

LEMMA CommitThreadKeeps ==
    ASSUME ThreadsInv, NEW h \in Handlers, CommitThread(h)
    PROVE  ThreadsInv'
<1>1. PICK q, new, r :
        /\ q = treq[h] /\ q.step = "commit thread" /\ new = NewThread(q)
        /\ threads' = threads \cup {new}
        /\ \/ r = TIdle
           \/ r = [TIdle EXCEPT !.step = "add system message", !.user = q.user,
                                !.thread = q.stamp]
        /\ Turns(h, r) /\ UNCHANGED <<parents, gone, clock, messages>>
  BY DEF CommitThread, TAt, TFinish, Turns
<1>2. Sound(q) /\ q \in TRequest /\ h \in Crowd /\ q.user \in People
  BY <1>1, InvIsTyped DEF Sound
<1>3. /\ new \in Thread /\ new.createdAt = q.stamp /\ new.lastActivity = q.stamp
      /\ new.channel = q.channel /\ new.keys \subseteq q.keys /\ q.stamp \in Stamps
      /\ Checked(q, parents) => new.keys \subseteq parents
  BY <1>1, <1>2, NewThreadEffect
<1>4. /\ Sound(r) /\ r.step \notin OpeningSteps /\ r.step \notin CommitSteps
  <2>1. CASE r = TIdle
    BY <2>1, TIdleIsSound
  <2>2. CASE r = [TIdle EXCEPT !.step = "add system message", !.user = q.user,
                               !.thread = q.stamp]
    <3>1. /\ r.step = "add system message" /\ r.user = q.user /\ r.thread = q.stamp
          /\ r \in TRequest
      BY <1>2, <1>3, <2>2 DEF TIdle, TRequest, TSteps
    <3> QED
      BY <1>2, <1>3, <3>1 DEF Sound, OpeningSteps, CommitSteps
  <2> QED
    BY <1>1, <2>1, <2>2
<1>5. /\ ThreadsTyped /\ ChannelsOK /\ StampsOK /\ NewestOK /\ KeysOK
      /\ threads \subseteq Thread /\ messages \subseteq Message
  BY InvIsTyped DEF ThreadsInv
<1>6. ThreadsTyped'
  <2>1. IsFiniteSet(threads')
    BY <1>1, InvIsTyped, FS_AddElement
  <2> QED
    BY <1>1, <1>2, <1>3, <1>4, <1>5, <2>1, InvIsTyped, TypedStep
<1>7. /\ treq'[h] = r /\ \A g \in Handlers : g # h => treq'[g] = treq[g]
      /\ Overlap' = Overlap /\ Crowd' = Crowd /\ (Serial' <=> Serial)
  BY <1>1, <1>5, TurnsEffect
<1>8. ASSUME NEW c \in Channels
      PROVE  (Cardinality(RowsOf(c)) + Cardinality(Openers(c)) <= Overlap)'
  <2>1. PICK A, B, A1, B1 : /\ A = RowsOf(c) /\ A1 = RowsOf(c)'
                            /\ B = Openers(c) /\ B1 = Openers(c)'
    OBVIOUS
  <2>2. IsFiniteSet(A) /\ IsFiniteSet(B) /\ Cardinality(A) + Cardinality(B) <= Overlap
    BY <1>5, <2>1, RowsAreFinite DEF ChannelsOK
  <2>3. Overlap \in Nat
    BY <1>5, CrowdIsFinite DEF ThreadsTyped, ThreadsTypeOK
  <2>4. CASE c = q.channel
    <3>1. A1 \subseteq A \cup {new}
      BY <1>1, <2>1 DEF RowsOf
    <3>2. h \in B /\ B1 \subseteq B \ {h}
      BY <1>1, <1>4, <1>7, <2>1, <2>4 DEF Openers, OpeningSteps
    <3>3. Cardinality(A1) + Cardinality(B1) <= Overlap
      BY <2>2, <2>3, <3>1, <3>2, RequestBecomesRow
    <3> QED
      BY <1>7, <2>1, <3>3
  <2>5. CASE c # q.channel
    <3>1. A1 = A
      BY <1>1, <1>3, <2>1, <2>5 DEF RowsOf
    <3>2. B1 \subseteq B
      BY <1>1, <1>4, <1>7, <2>1 DEF Openers, OpeningSteps
    <3>3. Cardinality(A) \in Nat
      BY <2>2, FS_CardinalityType
    <3>4. Cardinality(A1) + Cardinality(B1) <= Overlap
      BY <2>2, <2>3, <3>1, <3>2, <3>3, BothShrink
    <3> QED
      BY <1>7, <2>1, <3>4
  <2> QED
    BY <2>4, <2>5
<1>9. ChannelsOK'
  BY <1>8 DEF ChannelsOK
<1>10. q.stamp <= clock /\ q.stamp \in Nat /\ (Serial => q.stamp = clock)
  BY <1>1, <1>3, <1>5, StampsAreNumbers DEF StampsOK, NewestOK, CommitSteps
<1>11. StampsOK'
  <2>1. \A g \in Handlers : treq'[g].step \in CommitSteps => treq'[g].stamp <= clock'
    BY <1>1, <1>4, <1>5, <1>7 DEF StampsOK
  <2> QED
    BY <1>1, <1>3, <1>5, <1>10, <2>1 DEF StampsOK
<1>12. NewestOK'
  <2>1. ASSUME Serial, NEW g \in Handlers, treq'[g].step \in CommitSteps
        PROVE  treq'[g].stamp = clock'
    BY <1>1, <1>4, <1>5, <1>7, <2>1 DEF NewestOK
  <2>2. ASSUME Serial, NEW s \in threads'
        PROVE  /\ s.createdAt <= s.lastActivity
               /\ \A n \in messages' : n.thread = s.createdAt => n.sentAt <= s.lastActivity
    <3>1. CASE s \in threads
      BY <1>1, <1>5, <2>2, <3>1 DEF NewestOK
    <3>2. CASE s = new
      BY <1>1, <1>3, <1>5, <1>10, <2>2, <3>2 DEF StampsOK
    <3> QED
      BY <1>1, <3>1, <3>2
  <2> QED
    BY <1>7, <2>1, <2>2 DEF NewestOK
<1>13. KeysOK'
  <2>1. Serial => new.keys \cap gone = {}
    BY <1>1, <1>3, <1>5 DEF KeysOK
  <2>2. Checked(r, parents)
    BY <1>4 DEF Checked, OpeningSteps
  <2>3. ASSUME Serial, NEW g \in Handlers PROVE Checked(treq'[g], parents')
    <3>1. CASE g = h
      BY <1>1, <1>7, <2>2, <3>1
    <3>2. CASE g # h
      BY <1>1, <1>5, <1>7, <2>3, <3>2 DEF KeysOK
    <3> QED
      BY <3>1, <3>2
  <2>4. ASSUME Serial, NEW s \in threads' PROVE s.keys \cap gone' \subseteq Kids
    BY <1>1, <1>5, <2>1, <2>4 DEF KeysOK
  <2> QED
    BY <1>1, <1>5, <1>7, <2>3, <2>4 DEF KeysOK
<1> QED
  BY <1>6, <1>9, <1>11, <1>12, <1>13 DEF ThreadsInv

(* Every thread is changed by f, which keeps its channel.                  *)
LEMMA ThreadsMapped ==
    ASSUME ThreadsInv, NEW h \in Handlers, NEW f,
           f = [t \in threads |-> f[t]], threads' = {f[t] : t \in threads},
           \A t \in threads : f[t] \in Thread /\ f[t].channel = t.channel,
           Turns(h, TIdle), parents' \subseteq Adults, gone' \subseteq People, clock' = clock,
           messages' \subseteq Message
    PROVE  ThreadsTyped' /\ ChannelsOK'
<1>1. ThreadsTyped /\ ChannelsOK
  BY DEF ThreadsInv
<1>2. /\ f \in [threads -> threads']
      /\ \A s \in threads' : \E t \in threads : f[t] = s
  OBVIOUS
<1>3. IsFiniteSet(threads')
  <2>1. IsFiniteSet(threads)
    BY InvIsTyped
  <2>2. PICK S, T : S = threads /\ T = threads'
    OBVIOUS
  <2>3. IsFiniteSet(S) /\ f \in [S -> T] /\ \A t \in T : \E s \in S : f[s] = t
    BY <1>2, <2>1, <2>2
  <2>4. IsFiniteSet(T)
    BY <2>3, NoLargerImage
  <2> QED
    BY <2>2, <2>4
<1>4. threads' \subseteq Thread
  OBVIOUS
<1>5. ThreadsTyped'
  BY <1>1, <1>3, <1>4, TIdleIsSound, InvIsTyped, TypedStep
<1> QED
  BY <1>1, <1>2, <1>5, TIdleIsSound, ChannelsStay

LEMMA CommitMessageKeeps ==
    ASSUME ThreadsInv, NEW h \in Handlers, CommitMessage(h)
    PROVE  ThreadsInv'
<1>1. PICK q, new : /\ q = treq[h] /\ q.step = "commit message"
                    /\ new = [sentAt |-> q.stamp, thread |-> q.thread,
                              sender |-> q.user, read |-> FALSE]
                    /\ messages' = messages \cup {new}
                    /\ threads' = Touched(q.thread, q.stamp)
                    /\ Turns(h, TIdle) /\ UNCHANGED <<parents, gone, clock>>
  BY DEF CommitMessage, TAt, TFinish, Turns
<1>2. /\ Sound(q) /\ q.user \in People /\ q.stamp \in Stamps /\ q.thread \in Stamps
      /\ h \in Crowd
  BY <1>1, InvIsTyped DEF Sound, CommitSteps
<1>3. new \in Message /\ new.sentAt = q.stamp /\ new.thread = q.thread
  BY <1>1, <1>2 DEF Message
<1>4. /\ ThreadsTyped /\ StampsOK /\ NewestOK /\ KeysOK
      /\ threads \subseteq Thread /\ messages \subseteq Message
  BY InvIsTyped DEF ThreadsInv
<1>5. PICK f : f = [t \in threads |-> IF t.createdAt = q.thread
                                      THEN [t EXCEPT !.lastActivity = q.stamp] ELSE t]
  OBVIOUS
<1>6. f = [t \in threads |-> f[t]] /\ threads' = {f[t] : t \in threads}
  BY <1>1, <1>5 DEF Touched
<1>7. ASSUME NEW t \in threads
      PROVE  /\ f[t] \in Thread /\ f[t].channel = t.channel /\ f[t].createdAt = t.createdAt
             /\ f[t].keys = t.keys
             /\ t.createdAt = q.thread => f[t].lastActivity = q.stamp
             /\ t.createdAt # q.thread => f[t].lastActivity = t.lastActivity
  BY <1>2, <1>4, <1>5 DEF Thread
<1>8. ThreadsTyped' /\ ChannelsOK'
  <2>1. messages' \subseteq Message
    BY <1>1, <1>3, <1>4
  <2> QED
    BY <1>1, <1>6, <1>7, <2>1, InvIsTyped, ThreadsMapped
<1>9. /\ treq'[h] = TIdle /\ \A g \in Handlers : g # h => treq'[g] = treq[g]
      /\ (Serial' <=> Serial)
  BY <1>1, <1>4, TurnsEffect
<1>10. q.stamp <= clock /\ q.stamp \in Nat /\ clock \in Nat /\ (Serial => q.stamp = clock)
  BY <1>1, <1>2, <1>4, StampsAreNumbers, InvIsTyped DEF StampsOK, NewestOK, CommitSteps
<1>11. StampsOK'
  <2>1. ASSUME NEW s \in threads'
        PROVE  /\ s.createdAt <= clock'
               /\ \/ s.lastActivity = s.createdAt
                  \/ \E m \in messages' : m.thread = s.createdAt /\ m.sentAt = s.lastActivity
    <3>1. PICK t \in threads : s = f[t]
      BY <1>6
    <3>2. s.createdAt <= clock'
      BY <1>1, <1>4, <1>7, <3>1 DEF StampsOK
    <3>3. CASE t.createdAt = q.thread
      <4>1. new \in messages' /\ new.thread = s.createdAt /\ new.sentAt = s.lastActivity
        BY <1>1, <1>3, <1>7, <3>1, <3>3
      <4> QED
        BY <3>2, <4>1
    <3>4. CASE t.createdAt # q.thread
      <4>1. s.createdAt = t.createdAt /\ s.lastActivity = t.lastActivity
        BY <1>7, <3>1, <3>4
      <4>2. \/ t.lastActivity = t.createdAt
            \/ \E m \in messages : m.thread = t.createdAt /\ m.sentAt = t.lastActivity
        BY <1>4 DEF StampsOK
      <4> QED
        BY <1>1, <3>2, <4>1, <4>2
    <3> QED
      BY <3>3, <3>4
  <2>2. \A m \in messages' : m.sentAt <= clock'
    BY <1>1, <1>3, <1>4, <1>10 DEF StampsOK
  <2>3. \A g \in Handlers : treq'[g].step \in CommitSteps => treq'[g].stamp <= clock'
    BY <1>1, <1>4, <1>9, TIdleIsSound DEF StampsOK
  <2> QED
    BY <2>1, <2>2, <2>3 DEF StampsOK
<1>12. NewestOK'
  <2>1. ASSUME Serial, NEW g \in Handlers, treq'[g].step \in CommitSteps
        PROVE  treq'[g].stamp = clock'
    BY <1>1, <1>4, <1>9, <2>1, TIdleIsSound DEF NewestOK
  <2>2. ASSUME Serial, NEW s \in threads'
        PROVE  /\ s.createdAt <= s.lastActivity
               /\ \A n \in messages' : n.thread = s.createdAt => n.sentAt <= s.lastActivity
    <3>1. PICK t \in threads : s = f[t]
      BY <1>6
    <3>2. CASE t.createdAt = q.thread
      <4>1. s.lastActivity = clock /\ s.createdAt <= clock
        BY <1>4, <1>7, <1>10, <2>2, <3>1, <3>2 DEF StampsOK
      <4>2. \A n \in messages' : n.sentAt <= clock
        BY <1>1, <1>3, <1>4, <1>10 DEF StampsOK
      <4> QED
        BY <4>1, <4>2
    <3>3. CASE t.createdAt # q.thread
      <4>1. s.createdAt = t.createdAt /\ s.lastActivity = t.lastActivity
        BY <1>7, <3>1, <3>3
      <4>2. \A n \in messages' : n.thread = t.createdAt => n \in messages
        BY <1>1, <1>3, <3>3
      <4> QED
        BY <1>4, <2>2, <4>1, <4>2 DEF NewestOK
    <3> QED
      BY <3>2, <3>3
  <2> QED
    BY <1>9, <2>1, <2>2 DEF NewestOK
<1>13. KeysOK'
  <2>1. ASSUME NEW s \in threads' PROVE \E t \in threads : s.keys = t.keys
    BY <1>6, <1>7
  <2> QED
    BY <1>1, <1>4, <1>8, <2>1, IdleIsChecked, KeysStay
<1> QED
  BY <1>8, <1>11, <1>12, <1>13 DEF ThreadsInv

LEMMA MarkThreadAsReadKeeps ==
    ASSUME ThreadsInv, NEW h \in Handlers, NEW u, NEW id, MarkThreadAsRead(h, u, id)
    PROVE  ThreadsInv'
<1>1. /\ Turns(h, TIdle) /\ UNCHANGED <<parents, gone, clock, threads>>
      /\ messages' = {IF m.thread = id /\ m.sender # u THEN [m EXCEPT !.read = TRUE] ELSE m :
                        m \in messages}
  BY DEF MarkThreadAsRead, TStart, Turns
<1>2. /\ ThreadsTyped /\ ChannelsOK /\ StampsOK /\ NewestOK /\ KeysOK
      /\ messages \subseteq Message /\ threads \subseteq Thread /\ clock >= clock
  BY InvIsTyped DEF ThreadsInv
<1>3. PICK g : g = [m \in messages |-> IF m.thread = id /\ m.sender # u
                                       THEN [m EXCEPT !.read = TRUE] ELSE m]
  OBVIOUS
<1>4. messages' = {g[m] : m \in messages}
  BY <1>1, <1>3
<1>5. \A m \in messages : g[m] \in Message /\ g[m].sentAt = m.sentAt /\ g[m].thread = m.thread
  BY <1>2, <1>3 DEF Message
<1>6. /\ messages' \subseteq Message
      /\ \A n \in messages' : \E m \in messages : n.sentAt = m.sentAt /\ n.thread = m.thread
      /\ \A m \in messages : \E n \in messages' : n.sentAt = m.sentAt /\ n.thread = m.thread
  BY <1>4, <1>5
<1>7. ThreadsTyped'
  BY <1>1, <1>2, <1>6, TIdleIsSound, InvIsTyped, TypedStep
<1>8. PICK f : f = [t \in threads |-> t]
  OBVIOUS
<1>9. /\ f \in [threads -> threads'] /\ \A t \in threads : f[t].channel = t.channel
      /\ \A s \in threads' : \E t \in threads : f[t] = s
  BY <1>1, <1>8
<1>10. ChannelsOK'
  BY <1>1, <1>2, <1>7, <1>9, TIdleIsSound, ChannelsStay
<1>11. StampsOK'
  BY <1>1, <1>2, <1>6, <1>7, TIdleIsSound, StampsStay
<1>12. NewestOK'
  BY <1>1, <1>2, <1>6, <1>7, TIdleIsSound, NewestStays
<1>13. KeysOK'
  BY <1>1, <1>2, <1>7, IdleIsChecked, KeysStay
<1> QED
  BY <1>7, <1>10, <1>11, <1>12, <1>13 DEF ThreadsInv

LEMMA SyncFamilyThreadKeyKeeps ==
    ASSUME ThreadsInv, NEW h \in Handlers, NEW u, NEW id \in Stamps, NEW kid \in Kids,
           SyncFamilyThreadKey(h, u, id, kid)
    PROVE  ThreadsInv'
<1>1. PICK r : /\ r = [TIdle EXCEPT !.step = "create key", !.user = kid, !.thread = id]
               /\ Turns(h, r) /\ h \in Crowd
               /\ UNCHANGED <<parents, gone, clock, threads, messages>>
  BY DEF SyncFamilyThreadKey, TStart, Turns
<1>2. r.step = "create key" /\ r.user = kid /\ r.thread = id /\ r \in TRequest
  BY <1>1 DEF TIdle, TRequest, TSteps, People
<1>3. Sound(r) /\ r.step \notin CommitSteps /\ r.step \notin OpeningSteps /\ Checked(r, parents)
  BY <1>2 DEF Sound, CommitSteps, OpeningSteps, People, Checked
<1> QED
  BY <1>1, <1>3, InvIsTyped, RowsUntouched

(* The keys of threads change, and nothing else in them.                   *)
LEMMA KeysChange ==
    ASSUME ThreadsInv, NEW h \in Handlers, NEW f,
           f = [t \in threads |-> f[t]], threads' = {f[t] : t \in threads},
           \A t \in threads : /\ f[t] \in Thread /\ f[t].channel = t.channel
                              /\ f[t].createdAt = t.createdAt
                              /\ f[t].lastActivity = t.lastActivity,
           Turns(h, TIdle), parents' \subseteq Adults, gone' \subseteq People,
           UNCHANGED <<clock, messages>>
    PROVE  ThreadsTyped' /\ ChannelsOK' /\ StampsOK' /\ NewestOK'
<1>1. /\ ThreadsTyped /\ StampsOK /\ NewestOK
      /\ messages \subseteq Message /\ clock >= clock
  BY InvIsTyped DEF ThreadsInv
<1>2. ThreadsTyped' /\ ChannelsOK'
  BY <1>1, ThreadsMapped
<1>3. \A s \in threads' : \E t \in threads :
         s.createdAt = t.createdAt /\ s.lastActivity = t.lastActivity
  OBVIOUS
<1>4. StampsOK'
  BY <1>1, <1>2, <1>3, TIdleIsSound, StampsStay
<1>5. NewestOK'
  BY <1>1, <1>2, <1>3, TIdleIsSound, NewestStays
<1> QED
  BY <1>2, <1>4, <1>5

LEMMA CreateKeyKeeps ==
    ASSUME ThreadsInv, NEW h \in Handlers, CreateKey(h)
    PROVE  ThreadsInv'
<1>1. PICK q : /\ q = treq[h] /\ q.step = "create key"
               /\ threads' = {IF t.createdAt = q.thread
                              THEN [t EXCEPT !.keys = @ \cup {q.user}] ELSE t : t \in threads}
               /\ Turns(h, TIdle) /\ UNCHANGED <<parents, gone, clock, messages>>
  BY DEF CreateKey, TAt, TFinish, Turns
<1>2. Sound(q) /\ q.user \in Kids /\ q.user \in People
  BY <1>1, InvIsTyped DEF Sound
<1>3. /\ ThreadsTyped /\ KeysOK /\ threads \subseteq Thread /\ parents \subseteq Adults
      /\ gone \subseteq People
  BY InvIsTyped DEF ThreadsInv
<1>4. PICK f : f = [t \in threads |-> IF t.createdAt = q.thread
                                      THEN [t EXCEPT !.keys = @ \cup {q.user}] ELSE t]
  OBVIOUS
<1>5. f = [t \in threads |-> f[t]] /\ threads' = {f[t] : t \in threads}
  BY <1>1, <1>4
<1>6. \A t \in threads :
        /\ f[t] \in Thread /\ f[t].channel = t.channel /\ f[t].createdAt = t.createdAt
        /\ f[t].lastActivity = t.lastActivity /\ f[t].keys \subseteq t.keys \cup Kids
  BY <1>2, <1>3, <1>4 DEF Thread
<1>7. ThreadsTyped' /\ ChannelsOK' /\ StampsOK' /\ NewestOK'
  BY <1>1, <1>3, <1>5, <1>6, KeysChange
<1>8. /\ treq'[h] = TIdle /\ \A g \in Handlers : g # h => treq'[g] = treq[g]
      /\ (Serial' <=> Serial)
  BY <1>1, <1>3, TurnsEffect
<1>9. Serial => \A s \in threads' : s.keys \cap gone \subseteq Kids
  BY <1>3, <1>5, <1>6 DEF KeysOK
<1>10. ASSUME Serial, NEW g \in Handlers PROVE Checked(treq'[g], parents)
  <2>1. CASE g = h
    BY <1>8, <2>1, IdleIsChecked
  <2>2. CASE g # h
    BY <1>3, <1>8, <1>10, <2>2 DEF KeysOK
  <2> QED
    BY <2>1, <2>2
<1>11. KeysOK'
  BY <1>1, <1>3, <1>8, <1>9, <1>10 DEF KeysOK
<1> QED
  BY <1>7, <1>11 DEF ThreadsInv

(* The family changes, and with it no more than the keys of threads.  With *)
(* one request at a time no other is about to store keys.                  *)
LEMMA FamilyChanges ==
    ASSUME ThreadsInv, NEW h \in Handlers, NEW f,
           f = [t \in threads |-> f[t]], threads' = {f[t] : t \in threads},
           \A t \in threads : /\ f[t] \in Thread /\ f[t].channel = t.channel
                              /\ f[t].createdAt = t.createdAt
                              /\ f[t].lastActivity = t.lastActivity
                              /\ f[t].keys \cap gone' \subseteq (t.keys \cap gone) \cup Kids,
           h \in Crowd, Turns(h, TIdle), parents' \subseteq Adults, gone' \subseteq People,
           parents' \cap gone' = {}, UNCHANGED <<clock, messages>>
    PROVE  ThreadsInv'
<1>1. ThreadsTyped /\ KeysOK
  BY DEF ThreadsInv
<1>2. ThreadsTyped' /\ ChannelsOK' /\ StampsOK' /\ NewestOK'
  BY KeysChange
<1>3. /\ treq'[h] = TIdle /\ \A g \in Handlers : g # h => treq'[g] = treq[g]
      /\ (Serial' <=> Serial)
  BY <1>1, TurnsEffect
<1>4. ASSUME Serial, NEW g \in Handlers PROVE Checked(treq'[g], parents')
  <2>1. CASE g = h
    BY <1>3, <2>1, IdleIsChecked
  <2>2. CASE g # h
    <3>1. treq[g].step = "idle"
      BY <1>1, <1>4, <2>2, OneInTheCrowd DEF ThreadsTyped, ThreadsTypeOK
    <3> QED
      BY <1>3, <2>2, <3>1 DEF Checked
  <2> QED
    BY <2>1, <2>2
<1>5. ASSUME Serial, NEW s \in threads' PROVE s.keys \cap gone' \subseteq Kids
  <2>1. PICK t \in threads : s = f[t]
    OBVIOUS
  <2>2. t.keys \cap gone \subseteq Kids
    BY <1>1, <1>5 DEF KeysOK
  <2> QED
    BY <2>1, <2>2
<1>6. KeysOK'
  BY <1>3, <1>4, <1>5 DEF KeysOK
<1> QED
  BY <1>2, <1>6 DEF ThreadsInv

(* Somebody joins or moves away, or a child is deleted: the keys stay.     *)
LEMMA KeysAreLeft ==
    ASSUME ThreadsInv, NEW h \in Handlers,
           \/ \E u \in Adults : ParentJoins(h, u) \/ ParentMoves(h, u)
           \/ \E kid \in Kids : DeleteChild(h, kid)
    PROVE  ThreadsInv'
<1>1. /\ KeysOK /\ threads \subseteq Thread /\ parents \subseteq Adults /\ gone \subseteq People
  BY InvIsTyped DEF ThreadsInv
<1>2. /\ h \in Crowd /\ Turns(h, TIdle) /\ UNCHANGED <<clock, threads, messages>>
      /\ parents' \subseteq Adults /\ gone' \subseteq gone \cup Kids /\ parents' \cap gone' = {}
  <2>1. ASSUME NEW u \in Adults, ParentJoins(h, u)
        PROVE  /\ h \in Crowd /\ Turns(h, TIdle) /\ UNCHANGED <<clock, threads, messages>>
               /\ parents' = parents \cup {u} /\ gone' = gone /\ u \notin gone
    BY <2>1 DEF ParentJoins, TStart, Turns
  <2>2. ASSUME NEW u \in Adults, ParentMoves(h, u)
        PROVE  /\ h \in Crowd /\ Turns(h, TIdle) /\ UNCHANGED <<clock, threads, messages>>
               /\ parents' = {} /\ gone' = gone
    BY <2>2 DEF ParentMoves, TStart, Turns
  <2>3. ASSUME NEW kid \in Kids, DeleteChild(h, kid)
        PROVE  /\ h \in Crowd /\ Turns(h, TIdle) /\ UNCHANGED <<clock, threads, messages>>
               /\ parents' = parents /\ gone' = gone \cup {kid} /\ kid \notin Adults
    BY <2>3, ThreadsAssumption DEF DeleteChild, TStart, Turns
  <2>4. parents \cap gone = {}
    BY <1>1 DEF KeysOK
  <2> QED
    BY <1>1, <2>1, <2>2, <2>3, <2>4
<1>3. PICK f : f = [t \in threads |-> t]
  OBVIOUS
<1>4. f = [t \in threads |-> f[t]] /\ threads' = {f[t] : t \in threads}
  BY <1>2, <1>3
<1>5. \A t \in threads :
        /\ f[t] \in Thread /\ f[t].channel = t.channel /\ f[t].createdAt = t.createdAt
        /\ f[t].lastActivity = t.lastActivity
        /\ f[t].keys \cap gone' \subseteq (t.keys \cap gone) \cup Kids
  BY <1>1, <1>2, <1>3
<1>6. gone' \subseteq People
  BY <1>1, <1>2 DEF People
<1> QED
  BY <1>2, <1>4, <1>5, <1>6, FamilyChanges

(* An account is deleted by its user, with the keys it holds.              *)
LEMMA DeleteOwnAccountKeeps ==
    ASSUME ThreadsInv, NEW h \in Handlers, NEW u \in People, DeleteOwnAccount(h, u)
    PROVE  ThreadsInv'
<1>1. /\ h \in Crowd /\ Turns(h, TIdle) /\ UNCHANGED <<clock, messages>>
      /\ parents' = parents \ {u} /\ gone' = gone \cup {u}
      /\ threads' = {[t EXCEPT !.keys = @ \ {u}] : t \in threads}
  BY DEF DeleteOwnAccount, TStart, Turns
<1>2. /\ parents \cap gone = {} /\ threads \subseteq Thread
      /\ parents \subseteq Adults /\ gone \subseteq People
  BY InvIsTyped DEF ThreadsInv, KeysOK
<1>3. PICK f : f = [t \in threads |-> [t EXCEPT !.keys = @ \ {u}]]
  OBVIOUS
<1>4. f = [t \in threads |-> f[t]] /\ threads' = {f[t] : t \in threads}
  BY <1>1, <1>3
<1>5. \A t \in threads :
        /\ f[t] \in Thread /\ f[t].channel = t.channel /\ f[t].createdAt = t.createdAt
        /\ f[t].lastActivity = t.lastActivity /\ f[t].keys = t.keys \ {u}
  BY <1>2, <1>3 DEF Thread
<1>6. \A t \in threads : f[t].keys \cap gone' \subseteq (t.keys \cap gone) \cup Kids
  BY <1>1, <1>5
<1>7. /\ parents' \subseteq Adults /\ gone' \subseteq People /\ parents' \cap gone' = {}
  BY <1>1, <1>2
<1> QED
  BY <1>1, <1>4, <1>5, <1>6, <1>7, FamilyChanges

-----------------------------------------------------------------------------
LEMMA ThreadsInvInit == ASSUME ThreadsInit PROVE ThreadsInv
<1>1. /\ load \in Loads /\ threads = {} /\ messages = {} /\ clock = 0
      /\ parents \subseteq Adults /\ gone = {} /\ treq = [h \in Handlers |-> TIdle]
  BY DEF ThreadsInit, LoadInit
<1>2. \A h \in Handlers : treq[h] = TIdle
  BY <1>1
<1>3. ThreadsTyped
  <2>1. treq \in [Handlers -> TRequest] /\ \A h \in Handlers : Sound(treq[h])
    BY <1>1, <1>2, TIdleIsSound DEF Sound
  <2>2. IsFiniteSet(threads)
    BY <1>1, FS_EmptySet
  <2> QED
    BY <1>1, <1>2, <2>1, <2>2, TIdleIsSound, ThreadsAssumption DEF ThreadsTyped, ThreadsTypeOK
<1>4. ASSUME NEW c \in Channels
      PROVE  Cardinality(RowsOf(c)) + Cardinality(Openers(c)) <= Overlap
  <2>1. RowsOf(c) = {} /\ Openers(c) = {}
    BY <1>1, <1>2, TIdleIsSound DEF RowsOf, Openers, OpeningSteps
  <2>2. Cardinality({}) = 0 /\ Overlap \in Nat
    BY <1>1, CrowdIsFinite, FS_EmptySet
  <2> QED
    BY <2>1, <2>2
<1>5. StampsOK /\ NewestOK /\ KeysOK
  BY <1>1, <1>2, TIdleIsSound, IdleIsChecked DEF StampsOK, NewestOK, KeysOK
<1> QED
  BY <1>3, <1>4, <1>5 DEF ThreadsInv, ChannelsOK

LEMMA ThreadsInvNext ==
    ASSUME ThreadsInv, [ThreadsNext]_<<load, threadVars>>
    PROVE  ThreadsInv'
<1>1. CASE ThreadsNext
  <2> PICK h \in Handlers : ThreadStep(h)
    BY <1>1 DEF ThreadsNext
  <2>1. CASE \E u \in People, c \in Channels, keys \in SUBSET People : OpenChannel(h, u, c, keys)
    BY <2>1, OpenChannelKeeps
  <2>2. CASE \E u \in Adults, keys \in SUBSET People : OpenTopic(h, u, keys)
    BY <2>2, OpenTopicKeeps
  <2>3. CASE CheckKeys(h)
    BY <2>3, CheckKeysKeeps
  <2>4. CASE CreateThread(h)
    BY <2>4, CreateThreadKeeps
  <2>5. CASE CommitThread(h)
    BY <2>5, CommitThreadKeeps
  <2>6. CASE AbortThread(h)
    BY <2>6, FinishKeeps DEF AbortThread
  <2>7. CASE \E u \in Adults : Notify(h, u)
    BY <2>7, NotifyKeeps
  <2>8. CASE AddSystemMessage(h)
    BY <2>8, AddSystemMessageKeeps
  <2>9. CASE \E u \in People, id \in Stamps : AddMessage(h, u, id)
    BY <2>9, AddMessageKeeps
  <2>10. CASE CommitMessage(h)
    BY <2>10, CommitMessageKeeps
  <2>11. CASE \E u \in People, id \in Stamps : MarkThreadAsRead(h, u, id)
    BY <2>11, MarkThreadAsReadKeeps
  <2>12. CASE \E u \in Adults, id \in Stamps, kid \in Kids : SyncFamilyThreadKey(h, u, id, kid)
    BY <2>12, SyncFamilyThreadKeyKeeps
  <2>13. CASE CreateKey(h)
    BY <2>13, CreateKeyKeeps
  <2>14. CASE \/ \E u \in Adults : ParentJoins(h, u) \/ ParentMoves(h, u)
              \/ \E kid \in Kids : DeleteChild(h, kid)
    BY <2>14, KeysAreLeft
  <2>15. CASE \E u \in People : DeleteOwnAccount(h, u)
    BY <2>15, DeleteOwnAccountKeeps
  <2> QED
    BY <2>1, <2>2, <2>3, <2>4, <2>5, <2>6, <2>7, <2>8, <2>9, <2>10, <2>11, <2>12, <2>13, <2>14,
       <2>15
    DEF ThreadStep, ChannelStep, MessageStep, KeyStep
<1>2. CASE UNCHANGED <<load, threadVars>>
  <2>1. /\ load' = load /\ parents' = parents /\ gone' = gone /\ clock' = clock
        /\ threads' = threads /\ messages' = messages /\ treq' = treq
    BY <1>2 DEF threadVars
  <2>2. Overlap' = Overlap /\ (Serial' <=> Serial) /\ Crowd' = Crowd
    BY <2>1 DEF Overlap, Serial, Crowd
  <2>3. \A c : RowsOf(c)' = RowsOf(c) /\ Openers(c)' = Openers(c)
    BY <2>1 DEF RowsOf, Openers
  <2>4. ThreadsTyped' /\ StampsOK' /\ NewestOK' /\ KeysOK'
    BY <2>1, <2>2 DEF ThreadsInv, ThreadsTyped, ThreadsTypeOK, Sound, StampsOK, NewestOK, KeysOK
  <2>5. ChannelsOK'
    BY <2>2, <2>3 DEF ThreadsInv, ChannelsOK
  <2> QED
    BY <2>4, <2>5 DEF ThreadsInv
<1> QED
  BY <1>1, <1>2

LEMMA InvShowsNewest == ASSUME ThreadsInv PROVE NewestActivity
<1>1. ASSUME NEW t \in threads, NEW stamps,
             stamps = {t.createdAt} \cup
                        {m.sentAt : m \in {n \in messages : n.thread = t.createdAt}}
      PROVE  /\ t.lastActivity \in stamps
             /\ Serial => \A s \in stamps : s <= t.lastActivity
  BY <1>1 DEF ThreadsInv, StampsOK, NewestOK
<1> QED
  BY <1>1 DEF NewestActivity

(* The invariant of the threads, for any people, channels and overlap.     *)
THEOREM ThreadsInvariance == ThreadsSpec => []ThreadsInv
<1>1. ThreadsInit => ThreadsInv
  BY ThreadsInvInit
<1>2. ThreadsInv /\ [ThreadsNext]_<<load, threadVars>> => ThreadsInv'
  BY ThreadsInvNext
<1> QED
  BY <1>1, <1>2, PTL DEF ThreadsSpec

(* createThread looks for the channel and inserts it in two steps, and the *)
(* table has no key for it: each of the requests at once adds one at most. *)
THEOREM ChannelsStayBounded == ThreadsSpec => []ChannelsBounded
<1>1. ThreadsInv => ChannelsBounded
  BY DEF ThreadsInv, ChannelsOK, ChannelsBounded
<1> QED
  BY <1>1, ThreadsInvariance, PTL

(* addMessage stamps the message before the transaction that moves         *)
(* lastActivity: it is always a stamp of the thread, and the newest one    *)
(* if requests come one at a time.                                         *)
THEOREM ActivityIsAStamp == ThreadsSpec => []NewestActivity
<1>1. ThreadsInv => NewestActivity
  BY InvShowsNewest
<1> QED
  BY <1>1, ThreadsInvariance, PTL

(* assertValidParentThreadKeys checks the keys before the transaction that *)
(* stores them, and deleteOwnAccount removes those of its user: with one   *)
(* request at a time no account but a child's leaves a key behind.         *)
THEOREM KeysEndWithTheAccount == ThreadsSpec => []NoKeyOutlivesItsAccount
<1>1. ThreadsInv => NoKeyOutlivesItsAccount
  BY DEF ThreadsInv, KeysOK, NoKeyOutlivesItsAccount
<1> QED
  BY <1>1, ThreadsInvariance, PTL

-----------------------------------------------------------------------------
(* Reactions. *)

(* The handler is between the tap on the mark k and its statement.         *)
ReactsOn(h, k) == mreq[h].step \in ReactionSteps /\ mreq[h].mark = k

(* What is still to be done to the reaction leads to the one wanted.       *)
LeadsTo(h, k) ==
    /\ mreq[h].step = "read reaction" => wanted[k] = Toggle(reactions[k], mreq[h].emoji)
    /\ mreq[h].step = "delete reaction" => wanted[k] = Null
    /\ mreq[h].step = "upsert reaction" => wanted[k] = mreq[h].emoji

MarksTyped ==
    /\ reactions \in [Marks -> Emojis \cup {Null}]
    /\ wanted \in [Marks -> Emojis \cup {Null, "raced"}]
    /\ tags \in [Marks -> SUBSET Tags]
    /\ mreq \in [Handlers -> MRequest]
    /\ \A h \in Handlers : mreq[h].step # "idle" => mreq[h].mark \in Marks

(* Two taps on a mark at once are noticed; one alone leads where it should *)
Alone(k) ==
    \A g, h \in Handlers : ReactsOn(g, k) /\ ReactsOn(h, k) /\ wanted[k] # "raced" => g = h
OnTheWay(k) ==
    \A h \in Handlers : ReactsOn(h, k) /\ wanted[k] # "raced" => LeadsTo(h, k)
Arrived(k) ==
    (\A h \in Handlers : ~ReactsOn(h, k)) /\ wanted[k] # "raced" => reactions[k] = wanted[k]

MarkOK(k) == Alone(k) /\ OnTheWay(k) /\ Arrived(k)
MarksInv ==
    /\ MarksTyped
    /\ \A h \in Handlers : mreq[h].step = "upsert reaction" => mreq[h].emoji # Null
    /\ \A k \in Marks : MarkOK(k)

LEMMA NobodyReacts ==
    ASSUME NEW k \in Marks
    PROVE  Reacting(k) = {} <=> \A h \in Handlers : ~ReactsOn(h, k)
  BY DEF Reacting, ReactsOn

LEMMA IdleIsARequest ==
    MIdle \in MRequest /\ MIdle.step = "idle" /\ ~(MIdle.step \in ReactionSteps)
  BY DEF MIdle, MRequest, MSteps, ReactionSteps

LEMMA MarksInvInit == ASSUME MarksInit PROVE MarksInv
<1>1. mreq = [h \in Handlers |-> MIdle]
      /\ reactions = [k \in Marks |-> Null] /\ wanted = [k \in Marks |-> Null]
      /\ tags = [k \in Marks |-> {}]
  BY DEF MarksInit
<1>2. \A h \in Handlers : mreq[h].step = "idle"
  BY <1>1 DEF MIdle
<1>3. MarksTyped
  BY <1>1, <1>2, IdleIsARequest DEF MarksTyped
<1>4. \A h \in Handlers, k \in Marks : ~ReactsOn(h, k)
  BY <1>2 DEF ReactsOn, ReactionSteps
<1> QED
  BY <1>1, <1>2, <1>3, <1>4 DEF MarksInv, MarkOK, Alone, OnTheWay, Arrived

-----------------------------------------------------------------------------
(* A handler that ends, or turns to something that is no reaction, and one *)
(* mark that is given what was wanted for it.                              *)
LEMMA SetMessageReactionKeeps ==
    ASSUME MarksInv, NEW h \in Handlers, NEW k \in Marks, NEW emoji \in Emojis \cup {Null},
           SetMessageReaction(h, k, emoji)
    PROVE  MarksInv'
<1> DEFINE asked == IF Reacting(k) = {} THEN Toggle(reactions[k], emoji) ELSE "raced"
           r == [MIdle EXCEPT !.step = "read reaction", !.mark = k, !.emoji = emoji]
<1>1. /\ mreq' = [mreq EXCEPT ![h] = r]
      /\ wanted' = [wanted EXCEPT ![k] = asked]
      /\ reactions' = reactions /\ tags' = tags /\ mreq[h].step = "idle"
  BY DEF SetMessageReaction, MStart
<1>2. /\ r.step = "read reaction" /\ r.mark = k /\ r.emoji = emoji
      /\ r \in MRequest
  BY DEF MIdle, MRequest, MSteps
<1>3. /\ asked \in Emojis \cup {Null, "raced"}
      /\ Reacting(k) = {} => asked = Toggle(reactions[k], emoji)
      /\ Reacting(k) # {} => asked = "raced"
  BY DEF MarksInv, MarksTyped, Toggle
<1> HIDE DEF asked, r
<1>4. MarksTyped'
  BY <1>1, <1>2, <1>3 DEF MarksInv, MarksTyped
<1>5. mreq' \in [Handlers -> MRequest] /\ mreq'[h] = r
      /\ \A g \in Handlers : g # h => mreq'[g] = mreq[g]
  BY <1>1, <1>4 DEF MarksInv, MarksTyped
<1>6. wanted'[k] = asked /\ \A j \in Marks : j # k => wanted'[j] = wanted[j]
  BY <1>1 DEF MarksInv, MarksTyped
<1>7. ~\E j \in Marks : ReactsOn(h, j)
  BY <1>1 DEF ReactsOn, ReactionSteps
<1>8. \A g \in Handlers, j \in Marks :
        ReactsOn(g, j)' <=> (g = h /\ j = k) \/ (g # h /\ ReactsOn(g, j))
  <2> SUFFICES ASSUME NEW g \in Handlers, NEW j \in Marks
               PROVE  ReactsOn(g, j)' <=> (g = h /\ j = k) \/ (g # h /\ ReactsOn(g, j))
    OBVIOUS
  <2>1. CASE g = h
    BY <1>2, <1>5, <2>1 DEF ReactsOn, ReactionSteps
  <2>2. CASE g # h
    BY <1>5, <2>2 DEF ReactsOn
  <2> QED
    BY <2>1, <2>2
<1>9. ASSUME NEW j \in Marks PROVE MarkOK(j)'
  <2>1. MarkOK(j)
    BY DEF MarksInv
  <2>2. CASE j # k
    <3>1. \A g \in Handlers : (ReactsOn(g, j)' <=> ReactsOn(g, j))
      BY <1>7, <1>8, <2>2
    <3>2. \A g \in Handlers : ReactsOn(g, j) => mreq'[g] = mreq[g]
      BY <1>5, <1>7
    <3>3. wanted'[j] = wanted[j] /\ reactions'[j] = reactions[j]
      BY <1>1, <1>6, <2>2
    <3> QED
      BY <2>1, <3>1, <3>2, <3>3 DEF MarkOK, Alone, OnTheWay, Arrived, LeadsTo
  <2>3. CASE j = k /\ Reacting(k) = {}
    <3>1. \A g \in Handlers : ReactsOn(g, j)' <=> g = h
      BY <1>8, <2>3, NobodyReacts
    <3>2. LeadsTo(h, j)'
      BY <1>1, <1>2, <1>3, <1>5, <1>6, <2>3 DEF LeadsTo
    <3> QED
      BY <3>1, <3>2 DEF MarkOK, Alone, OnTheWay, Arrived
  <2>4. CASE j = k /\ Reacting(k) # {}
    BY <1>3, <1>6, <2>4 DEF MarkOK, Alone, OnTheWay, Arrived
  <2> QED
    BY <2>2, <2>3, <2>4
<1>10. ASSUME NEW g \in Handlers, mreq'[g].step = "upsert reaction"
       PROVE  mreq'[g].emoji # Null
  BY <1>2, <1>5, <1>10 DEF MarksInv
<1> QED
  BY <1>4, <1>9, <1>10 DEF MarksInv

LEMMA ReadReactionKeeps ==
    ASSUME MarksInv, NEW h \in Handlers, ReadReaction(h)
    PROVE  MarksInv'
<1> DEFINE k == mreq[h].mark
           e == mreq[h].emoji
           next == IF e \in {Null, reactions[k]} THEN "delete reaction" ELSE "upsert reaction"
<1>1. /\ mreq[h].step = "read reaction"
      /\ mreq' = [mreq EXCEPT ![h].step = next]
      /\ wanted' = wanted /\ reactions' = reactions /\ tags' = tags
  BY DEF ReadReaction, MAt, MGoto
<1>2. /\ next \in {"delete reaction", "upsert reaction"}
      /\ next = "delete reaction" => e = Null \/ e = reactions[k]
      /\ next = "upsert reaction" => e # Null /\ e # reactions[k]
  OBVIOUS
<1> HIDE DEF next
<1>3. /\ mreq' \in [Handlers -> MRequest]
      /\ mreq'[h].step = next /\ mreq'[h].mark = k /\ mreq'[h].emoji = e
      /\ \A g \in Handlers : g # h => mreq'[g] = mreq[g]
  BY <1>1, <1>2 DEF MarksInv, MarksTyped, MRequest, MSteps
<1>4. MarksTyped'
  BY <1>1, <1>3 DEF MarksInv, MarksTyped
<1>5. \A g \in Handlers, j \in Marks : ReactsOn(g, j)' <=> ReactsOn(g, j)
  BY <1>1, <1>2, <1>3 DEF ReactsOn, ReactionSteps
<1>6. ASSUME NEW j \in Marks PROVE MarkOK(j)'
  <2>1. MarkOK(j)
    BY DEF MarksInv
  <2>2. ASSUME NEW g \in Handlers, ReactsOn(g, j), wanted[j] # "raced"
        PROVE  LeadsTo(g, j)'
    <3>1. LeadsTo(g, j)
      BY <2>1, <2>2 DEF MarkOK, OnTheWay
    <3>2. CASE g = h
      <4>1. j = k
        BY <2>2, <3>2 DEF ReactsOn
      <4>2. wanted[k] = Toggle(reactions[k], e)
        BY <1>1, <3>1, <3>2, <4>1 DEF LeadsTo
      <4> HIDE DEF k, e
      <4> QED
        BY <1>1, <1>2, <1>3, <3>2, <4>1, <4>2 DEF LeadsTo, Toggle
    <3>3. CASE g # h
      BY <1>1, <1>3, <3>1, <3>3 DEF LeadsTo
    <3> QED
      BY <3>2, <3>3
  <2> QED
    BY <1>1, <1>5, <2>1, <2>2 DEF MarkOK, Alone, OnTheWay, Arrived
<1>7. ASSUME NEW g \in Handlers, mreq'[g].step = "upsert reaction"
      PROVE  mreq'[g].emoji # Null
  BY <1>2, <1>3, <1>7 DEF MarksInv
<1> QED
  BY <1>4, <1>6, <1>7 DEF MarksInv

(* A handler leaves the reactions; if it was at one, what is stored for    *)
(* its mark, or wanted, agrees now.                                        *)
LEMMA LeavingKeeps ==
    ASSUME MarksInv, NEW h \in Handlers, MarksTyped',
           NEW r, mreq' = [mreq EXCEPT ![h] = r], ~(r.step \in ReactionSteps),
           \A j \in Marks :
             \/ reactions'[j] = reactions[j] /\ wanted'[j] = wanted[j] /\ ~ReactsOn(h, j)
             \/ /\ ReactsOn(h, j) /\ (wanted'[j] = "raced" <=> wanted[j] = "raced")
                /\ wanted[j] # "raced" => reactions'[j] = wanted'[j]
    PROVE  MarksInv'
<1>1. mreq'[h] = r /\ \A g \in Handlers : g # h => mreq'[g] = mreq[g]
  BY DEF MarksInv, MarksTyped
<1>2. \A g \in Handlers, j \in Marks : ReactsOn(g, j)' <=> g # h /\ ReactsOn(g, j)
  BY <1>1 DEF ReactsOn
<1>3. ASSUME NEW j \in Marks PROVE MarkOK(j)'
  <2>1. MarkOK(j)
    BY DEF MarksInv
  <2>2. CASE reactions'[j] = reactions[j] /\ wanted'[j] = wanted[j] /\ ~ReactsOn(h, j)
    BY <1>1, <1>2, <2>1, <2>2 DEF MarkOK, Alone, OnTheWay, Arrived, LeadsTo
  <2>3. CASE /\ ReactsOn(h, j) /\ (wanted'[j] = "raced" <=> wanted[j] = "raced")
             /\ wanted[j] # "raced" => reactions'[j] = wanted'[j]
    <3>1. wanted[j] # "raced" => \A g \in Handlers : ~ReactsOn(g, j)'
      BY <1>2, <2>1, <2>3 DEF MarkOK, Alone
    <3> QED
      BY <2>3, <3>1 DEF MarkOK, Alone, OnTheWay, Arrived
  <2> QED
    BY <2>2, <2>3
<1>4. ASSUME NEW g \in Handlers, mreq'[g].step = "upsert reaction"
      PROVE  mreq'[g].emoji # Null
  BY <1>1, <1>4 DEF MarksInv, ReactionSteps
<1> QED
  BY <1>3, <1>4 DEF MarksInv

LEMMA DeleteReactionKeeps ==
    ASSUME MarksInv, NEW h \in Handlers, DeleteReaction(h)
    PROVE  MarksInv'
<1>1. /\ mreq[h].step = "delete reaction" /\ wanted' = wanted /\ tags' = tags
      /\ reactions' = [reactions EXCEPT ![mreq[h].mark] = Null]
      /\ mreq' = [mreq EXCEPT ![h] = MIdle]
  BY DEF DeleteReaction, MAt, MFinish
<1>2. MarksTyped'
  BY <1>1, IdleIsARequest DEF MarksInv, MarksTyped
<1>3. ASSUME NEW j \in Marks
      PROVE  \/ reactions'[j] = reactions[j] /\ wanted'[j] = wanted[j] /\ ~ReactsOn(h, j)
             \/ /\ ReactsOn(h, j) /\ (wanted'[j] = "raced" <=> wanted[j] = "raced")
                /\ wanted[j] # "raced" => reactions'[j] = wanted'[j]
  <2>1. CASE j = mreq[h].mark
    BY <1>1, <2>1 DEF MarksInv, MarksTyped, MarkOK, OnTheWay, LeadsTo, ReactsOn, ReactionSteps
  <2>2. CASE j # mreq[h].mark
    BY <1>1, <2>2 DEF MarksInv, MarksTyped, ReactsOn
  <2> QED
    BY <2>1, <2>2
<1> QED
  BY <1>1, <1>2, <1>3, IdleIsARequest, LeavingKeeps

LEMMA UpsertReactionKeeps ==
    ASSUME MarksInv, NEW h \in Handlers, UpsertReaction(h)
    PROVE  MarksInv'
<1>1. /\ mreq[h].step = "upsert reaction" /\ wanted' = wanted /\ tags' = tags
      /\ reactions' = [reactions EXCEPT ![mreq[h].mark] = mreq[h].emoji]
      /\ mreq' = [mreq EXCEPT ![h] = MIdle]
  BY DEF UpsertReaction, MAt, MFinish
<1>2. mreq[h].emoji \in Emojis \cup {Null}
  BY DEF MarksInv, MarksTyped, MRequest
<1>3. MarksTyped'
  BY <1>1, <1>2, IdleIsARequest DEF MarksInv, MarksTyped
<1>4. ASSUME NEW j \in Marks
      PROVE  \/ reactions'[j] = reactions[j] /\ wanted'[j] = wanted[j] /\ ~ReactsOn(h, j)
             \/ /\ ReactsOn(h, j) /\ (wanted'[j] = "raced" <=> wanted[j] = "raced")
                /\ wanted[j] # "raced" => reactions'[j] = wanted'[j]
  <2>1. CASE j = mreq[h].mark
    BY <1>1, <2>1 DEF MarksInv, MarksTyped, MarkOK, OnTheWay, LeadsTo, ReactsOn, ReactionSteps
  <2>2. CASE j # mreq[h].mark
    BY <1>1, <2>2 DEF MarksInv, MarksTyped, ReactsOn
  <2> QED
    BY <2>1, <2>2
<1> QED
  BY <1>1, <1>3, <1>4, IdleIsARequest, LeavingKeeps

LEMMA AbortMarkKeeps ==
    ASSUME MarksInv, NEW h \in Handlers, AbortMark(h)
    PROVE  MarksInv'
<1> DEFINE k == mreq[h].mark
<1>1. reactions' = reactions /\ tags' = tags /\ mreq' = [mreq EXCEPT ![h] = MIdle]
  BY DEF AbortMark, MFinish
<1>2. CASE mreq[h].step \in ReactionSteps /\ wanted[k] # "raced"
  <2>1. wanted' = [wanted EXCEPT ![k] = reactions[k]]
    BY <1>2 DEF AbortMark
  <2>2. MarksTyped'
    BY <1>1, <2>1, IdleIsARequest DEF MarksInv, MarksTyped
  <2>3. ASSUME NEW j \in Marks
        PROVE  \/ reactions'[j] = reactions[j] /\ wanted'[j] = wanted[j] /\ ~ReactsOn(h, j)
               \/ /\ ReactsOn(h, j) /\ (wanted'[j] = "raced" <=> wanted[j] = "raced")
                  /\ wanted[j] # "raced" => reactions'[j] = wanted'[j]
    <3>1. reactions[j] # "raced"
      BY MarksAssumption DEF MarksInv, MarksTyped
    <3>2. CASE j = k
      BY <1>1, <1>2, <2>1, <3>1, <3>2 DEF MarksInv, MarksTyped, ReactsOn
    <3>3. CASE j # k
      BY <1>1, <2>1, <3>3 DEF MarksInv, MarksTyped, ReactsOn
    <3> QED
      BY <3>2, <3>3
  <2> QED
    BY <1>1, <2>2, <2>3, IdleIsARequest, LeavingKeeps
<1>3. CASE ~(mreq[h].step \in ReactionSteps /\ wanted[k] # "raced")
  <2>1. wanted' = wanted
    BY <1>3 DEF AbortMark
  <2>2. MarksTyped'
    BY <1>1, <2>1, IdleIsARequest DEF MarksInv, MarksTyped
  <2>3. ASSUME NEW j \in Marks
        PROVE  \/ reactions'[j] = reactions[j] /\ wanted'[j] = wanted[j] /\ ~ReactsOn(h, j)
               \/ /\ ReactsOn(h, j) /\ (wanted'[j] = "raced" <=> wanted[j] = "raced")
                  /\ wanted[j] # "raced" => reactions'[j] = wanted'[j]
    BY <1>1, <1>3, <2>1 DEF ReactsOn
  <2> QED
    BY <1>1, <2>2, <2>3, IdleIsARequest, LeavingKeeps
<1> QED
  BY <1>2, <1>3

(* The requests about tags leave the reactions alone.                      *)
LEMMA TagsKeep ==
    ASSUME MarksInv, NEW h \in Handlers, MarksTyped',
           NEW r, mreq' = [mreq EXCEPT ![h] = r], ~(r.step \in ReactionSteps),
           ~(mreq[h].step \in ReactionSteps),
           reactions' = reactions, wanted' = wanted
    PROVE  MarksInv'
<1>1. \A j \in Marks : ~ReactsOn(h, j)
  BY DEF ReactsOn
<1> QED
  BY <1>1, LeavingKeeps

LEMMA SetMessageTagsKeeps ==
    ASSUME MarksInv, NEW h \in Handlers, NEW k \in Marks, NEW new \in SUBSET Tags,
           SetMessageTags(h, k, new)
    PROVE  MarksInv'
<1> DEFINE r == [MIdle EXCEPT !.step = "delete tags", !.mark = k, !.tags = new]
<1>1. /\ mreq' = [mreq EXCEPT ![h] = r] /\ mreq[h].step = "idle"
      /\ reactions' = reactions /\ wanted' = wanted /\ tags' = tags
  BY DEF SetMessageTags, MStart
<1>2. r \in MRequest /\ r.step = "delete tags" /\ r.mark = k
  BY DEF MIdle, MRequest, MSteps
<1> HIDE DEF r
<1>3. MarksTyped'
  BY <1>1, <1>2 DEF MarksInv, MarksTyped
<1> QED
  BY <1>1, <1>2, <1>3, TagsKeep DEF ReactionSteps

LEMMA DeleteTagsKeeps ==
    ASSUME MarksInv, NEW h \in Handlers, DeleteTags(h)
    PROVE  MarksInv'
<1> DEFINE q == mreq[h]
           r == [q EXCEPT !.step = "insert tags", !.victims = tags[q.mark]]
<1>1. /\ mreq' = [mreq EXCEPT ![h] = r]
      /\ q.step = "delete tags"
      /\ reactions' = reactions /\ wanted' = wanted /\ tags' = tags
  BY DEF DeleteTags, MAt
<1>2. q \in MRequest /\ q.mark \in Marks /\ tags[q.mark] \in SUBSET Tags
  BY <1>1 DEF MarksInv, MarksTyped
<1>3. r \in MRequest /\ r.step = "insert tags" /\ r.mark = q.mark
  BY <1>2 DEF MRequest, MSteps
<1> HIDE DEF r
<1>4. MarksTyped'
  BY <1>1, <1>2, <1>3 DEF MarksInv, MarksTyped
<1> QED
  BY <1>1, <1>3, <1>4, TagsKeep DEF ReactionSteps

LEMMA InsertTagsKeeps ==
    ASSUME MarksInv, NEW h \in Handlers, InsertTags(h)
    PROVE  MarksInv'
<1> DEFINE q == mreq[h]
           new == (tags[q.mark] \ q.victims) \cup q.tags
<1>1. /\ mreq' = [mreq EXCEPT ![h] = MIdle] /\ q.step = "insert tags"
      /\ tags' = [tags EXCEPT ![q.mark] = new]
      /\ reactions' = reactions /\ wanted' = wanted
  BY DEF InsertTags, MAt, MFinish
<1>2. new \in SUBSET Tags
  BY <1>1 DEF MarksInv, MarksTyped, MRequest
<1> HIDE DEF new
<1>3. MarksTyped'
  BY <1>1, <1>2, IdleIsARequest DEF MarksInv, MarksTyped
<1> QED
  BY <1>1, <1>3, IdleIsARequest, TagsKeep DEF ReactionSteps

LEMMA DropTagsKeeps ==
    ASSUME MarksInv, NEW h \in Handlers, NEW u, DropTags(h, u)
    PROVE  MarksInv'
<1>1. /\ mreq' = [mreq EXCEPT ![h] = MIdle] /\ mreq[h].step = "idle"
      /\ tags' = [k \in Marks |-> IF k[1] = u THEN {} ELSE tags[k]]
      /\ reactions' = reactions /\ wanted' = wanted
  BY DEF DropTags, MStart
<1>2. MarksTyped'
  BY <1>1, IdleIsARequest DEF MarksInv, MarksTyped
<1> QED
  BY <1>1, <1>2, IdleIsARequest, TagsKeep DEF ReactionSteps

-----------------------------------------------------------------------------
LEMMA MarksInvNext ==
    ASSUME MarksInv, [MarksNext]_<<load, markVars>>
    PROVE  MarksInv'
<1>1. CASE MarksNext
  <2> PICK h \in Handlers : MarkStep(h)
    BY <1>1 DEF MarksNext
  <2>1. CASE \E k \in Marks, emoji \in Emojis \cup {Null} : SetMessageReaction(h, k, emoji)
    BY <2>1, SetMessageReactionKeeps
  <2>2. CASE ReadReaction(h)
    BY <2>2, ReadReactionKeeps
  <2>3. CASE DeleteReaction(h)
    BY <2>3, DeleteReactionKeeps
  <2>4. CASE UpsertReaction(h)
    BY <2>4, UpsertReactionKeeps
  <2>5. CASE \E k \in Marks, new \in SUBSET Tags : SetMessageTags(h, k, new)
    BY <2>5, SetMessageTagsKeeps
  <2>6. CASE DeleteTags(h)
    BY <2>6, DeleteTagsKeeps
  <2>7. CASE InsertTags(h)
    BY <2>7, InsertTagsKeeps
  <2>8. CASE \E k \in Marks : DropTags(h, k[1])
    BY <2>8, DropTagsKeeps
  <2>9. CASE AbortMark(h)
    BY <2>9, AbortMarkKeeps
  <2> QED
    BY <2>1, <2>2, <2>3, <2>4, <2>5, <2>6, <2>7, <2>8, <2>9 DEF MarkStep
<1>2. CASE UNCHANGED <<load, markVars>>
  <2>1. reactions' = reactions /\ tags' = tags /\ wanted' = wanted /\ mreq' = mreq
    BY <1>2 DEF markVars
  <2>2. MarksTyped' /\ \A h \in Handlers : mreq'[h].step = "upsert reaction" =>
                                                mreq'[h].emoji # Null
    BY <2>1 DEF MarksInv, MarksTyped
  <2>3. ASSUME NEW k \in Marks PROVE MarkOK(k)'
    BY <2>1 DEF MarksInv, MarkOK, Alone, OnTheWay, Arrived, LeadsTo, ReactsOn
  <2> QED
    BY <2>2, <2>3 DEF MarksInv
<1> QED
  BY <1>1, <1>2

LEMMA InvShowsToggle ==
    ASSUME MarksInv
    PROVE  ReactionsToggle
  BY NobodyReacts DEF MarksInv, MarkOK, Arrived, ReactionsToggle

(* setMessageReaction decides on a row that it has read, and writes in a   *)
(* second statement: the toggle holds nevertheless, unless taps of one     *)
(* user on one message overlap.                                            *)
THEOREM TapsToggle == MarksSpec => []ReactionsToggle
<1>1. MarksInit => MarksInv
  BY MarksInvInit
<1>2. MarksInv /\ [MarksNext]_<<load, markVars>> => MarksInv'
  BY MarksInvNext
<1>3. MarksInv => ReactionsToggle
  BY InvShowsToggle
<1> QED
  BY <1>1, <1>2, <1>3, PTL DEF MarksSpec

-----------------------------------------------------------------------------
(* Tags.  Each tag of a mark came with one of the handlers; no handler     *)
(* brought more than a request holds, since before it inserts, it has seen *)
(* what it brought earlier, and takes that away.                           *)
Brought(k, by, h) == {t \in tags[k] : by[t] = h}
BroughtBy(k, by) ==
    /\ by \in [tags[k] -> Crowd]
    /\ \A h \in Crowd :
         /\ Cardinality(Brought(k, by, h)) <= MaxTags
         /\ mreq[h].step = "insert tags" /\ mreq[h].mark = k
              => Brought(k, by, h) \subseteq mreq[h].victims
EachBroughtSome(k) == \E by : BroughtBy(k, by)

TagsInv ==
    /\ load \in Loads
    /\ MarksTyped
    /\ \A h \in Handlers : Cardinality(mreq[h].tags) <= MaxTags
    /\ \A h \in Handlers : mreq[h].step # "idle" => h \in Crowd
    /\ \A k \in Marks : EachBroughtSome(k)

LEMMA NoTags == Cardinality(MIdle.tags) <= MaxTags
<1>1. MIdle.tags = {} /\ Cardinality({}) = 0
  BY FS_EmptySet DEF MIdle
<1> QED
  BY <1>1, MarksAssumption

(* Tags that are taken away change nothing of this, nor does a request     *)
(* that sees all of them.                                                  *)
LEMMA FewerTags ==
    ASSUME TagsInv, NEW k \in Marks, load' = load, tags'[k] \subseteq tags[k],
           \A h \in Crowd : mreq'[h].step = "insert tags" /\ mreq'[h].mark = k =>
             \/ tags'[k] \subseteq mreq'[h].victims
             \/ /\ mreq[h].step = "insert tags" /\ mreq[h].mark = k
                /\ mreq'[h].victims = mreq[h].victims
    PROVE  EachBroughtSome(k)'
<1>1. PICK by : BroughtBy(k, by)
  BY DEF TagsInv, EachBroughtSome
<1>2. PICK rest : rest = [t \in tags'[k] |-> by[t]]
  OBVIOUS
<1>3. Crowd' = Crowd
  BY DEF Crowd
<1>4. rest \in [tags'[k] -> Crowd']
  BY <1>1, <1>2, <1>3 DEF BroughtBy
<1>5. ASSUME NEW h \in Crowd
      PROVE  /\ Cardinality(Brought(k, rest, h)') <= MaxTags
             /\ mreq'[h].step = "insert tags" /\ mreq'[h].mark = k
                  => Brought(k, rest, h)' \subseteq mreq'[h].victims
  <2>1. Brought(k, rest, h)' \subseteq Brought(k, by, h)
    BY <1>2 DEF Brought
  <2>2. IsFiniteSet(Brought(k, by, h)) /\ Cardinality(Brought(k, by, h)) <= MaxTags
    <3>1. Brought(k, by, h) \subseteq Tags
      BY DEF Brought, TagsInv, MarksTyped
    <3>2. IsFiniteSet(Brought(k, by, h))
      BY <3>1, MarksAssumption, FS_Subset
    <3> QED
      BY <1>1, <3>2 DEF BroughtBy
  <2>3. Cardinality(Brought(k, rest, h)') <= MaxTags
    BY <2>1, <2>2, MarksAssumption, FewerElements
  <2>4. Brought(k, rest, h)' \subseteq tags'[k]
    BY DEF Brought
  <2>5. /\ mreq[h].step = "insert tags" /\ mreq[h].mark = k
             => Brought(k, by, h) \subseteq mreq[h].victims
    BY <1>1 DEF BroughtBy
  <2> QED
    BY <2>1, <2>3, <2>4, <2>5
<1>6. BroughtBy(k, rest)'
  BY <1>3, <1>4, <1>5 DEF BroughtBy
<1> QED
  BY <1>6 DEF EachBroughtSome

(* A handler that turns to anything but an insert, and takes tags away.    *)
LEMMA TurningKeepsTags ==
    ASSUME TagsInv, NEW h \in Handlers, MarksTyped', load' = load,
           NEW r, mreq' = [mreq EXCEPT ![h] = r], r.step # "insert tags",
           Cardinality(r.tags) <= MaxTags, r.step = "idle" \/ h \in Crowd,
           \A k \in Marks : tags'[k] \subseteq tags[k]
    PROVE  TagsInv'
<1>1. mreq'[h] = r /\ \A g \in Handlers : g # h => mreq'[g] = mreq[g]
  BY DEF TagsInv, MarksTyped
<1>2. Crowd' = Crowd /\ Crowd \subseteq Handlers
  BY CrowdIsFinite DEF TagsInv, Crowd
<1>3. ASSUME NEW k \in Marks PROVE EachBroughtSome(k)'
  BY <1>1, <1>2, FewerTags
<1>4. \A g \in Handlers : Cardinality(mreq'[g].tags) <= MaxTags
  BY <1>1 DEF TagsInv
<1>5. \A g \in Handlers : mreq'[g].step # "idle" => g \in Crowd'
  BY <1>1, <1>2 DEF TagsInv
<1> QED
  BY <1>3, <1>4, <1>5 DEF TagsInv

LEMMA TagsInvInit == ASSUME MarksInit PROVE TagsInv
<1>1. mreq = [h \in Handlers |-> MIdle] /\ tags = [k \in Marks |-> {}]
  BY DEF MarksInit
<1>2. MarksTyped
  BY MarksInvInit DEF MarksInv
<1>3. \A h \in Handlers : mreq[h].step = "idle" /\ Cardinality(mreq[h].tags) <= MaxTags
  BY <1>1, NoTags, IdleIsARequest
<1>4. load \in Loads
  BY DEF MarksInit, LoadInit
<1>5. ASSUME NEW k \in Marks PROVE EachBroughtSome(k)
  <2>1. PICK none : none = [t \in {} |-> t]
    OBVIOUS
  <2>2. tags[k] = {} /\ none \in [{} -> Crowd]
    BY <1>1, <2>1
  <2>3. \A h \in Crowd : Brought(k, none, h) = {}
    BY <2>2 DEF Brought
  <2>4. Cardinality({}) = 0 /\ MaxTags \in Nat
    BY FS_EmptySet, MarksAssumption
  <2>5. \A h \in Crowd : /\ Cardinality(Brought(k, none, h)) <= MaxTags
                         /\ Brought(k, none, h) \subseteq mreq[h].victims
    BY <2>3, <2>4
  <2>6. BroughtBy(k, none)
    BY <2>2, <2>5 DEF BroughtBy
  <2> QED
    BY <2>6 DEF EachBroughtSome
<1> QED
  BY <1>2, <1>3, <1>4, <1>5 DEF TagsInv

LEMMA InsertKeepsTags ==
    ASSUME TagsInv, MarksTyped', NEW h \in Handlers, InsertTags(h)
    PROVE  TagsInv'
<1>1. PICK q, new : /\ q = mreq[h] /\ q.step = "insert tags"
                    /\ new = (tags[q.mark] \ q.victims) \cup q.tags
                    /\ tags' = [tags EXCEPT ![q.mark] = new]
                    /\ mreq' = [mreq EXCEPT ![h] = MIdle] /\ load' = load
                    /\ (tags[q.mark] \ q.victims) \cap q.tags = {}
  BY DEF InsertTags, MAt, MFinish
<1>2. q.mark \in Marks /\ q.tags \subseteq Tags /\ Cardinality(q.tags) <= MaxTags
  BY <1>1 DEF TagsInv, MarksTyped, MRequest
<1>3. /\ mreq'[h] = MIdle /\ \A g \in Handlers : g # h => mreq'[g] = mreq[g]
      /\ tags'[q.mark] = new /\ \A k \in Marks : k # q.mark => tags'[k] = tags[k]
  BY <1>1, <1>2 DEF TagsInv, MarksTyped
<1>4. Crowd' = Crowd /\ Crowd \subseteq Handlers /\ h \in Crowd
  BY <1>1, CrowdIsFinite DEF TagsInv, Crowd
<1>5. MIdle.step = "idle"
  BY DEF MIdle
<1>6. ASSUME NEW k \in Marks PROVE EachBroughtSome(k)'
  <2>1. CASE k # q.mark
    BY <1>1, <1>3, <1>4, <1>5, <2>1, FewerTags
  <2>2. CASE k = q.mark
    <3>1. PICK by : BroughtBy(k, by)
      BY DEF TagsInv, EachBroughtSome
    <3>2. PICK now : now = [t \in new |-> IF t \in q.tags THEN h ELSE by[t]]
      OBVIOUS
    <3>3. Brought(k, by, h) \subseteq q.victims
      BY <1>1, <1>4, <2>2, <3>1 DEF BroughtBy
    <3>4. now \in [tags'[k] -> Crowd']
      BY <1>1, <1>3, <1>4, <2>2, <3>1, <3>2 DEF BroughtBy
    <3>5. Brought(k, now, h)' = q.tags
      BY <1>1, <1>3, <2>2, <3>2, <3>3 DEF Brought
    <3>6. ASSUME NEW g \in Crowd, g # h
          PROVE  /\ Brought(k, now, g)' \subseteq Brought(k, by, g)
                 /\ Cardinality(Brought(k, now, g)') <= MaxTags
      <4>1. Brought(k, now, g)' \subseteq Brought(k, by, g)
        BY <1>1, <1>3, <2>2, <3>2, <3>6 DEF Brought
      <4>2. Brought(k, by, g) \subseteq Tags /\ Cardinality(Brought(k, by, g)) <= MaxTags
        BY <3>1 DEF Brought, TagsInv, MarksTyped, BroughtBy
      <4>3. IsFiniteSet(Brought(k, by, g))
        BY <4>2, MarksAssumption, FS_Subset
      <4> QED
        BY <4>1, <4>2, <4>3, MarksAssumption, FewerElements
    <3>7. ASSUME NEW g \in Crowd
          PROVE  /\ Cardinality(Brought(k, now, g)') <= MaxTags
                 /\ mreq'[g].step = "insert tags" /\ mreq'[g].mark = k
                      => Brought(k, now, g)' \subseteq mreq'[g].victims
      <4>1. CASE g = h
        BY <1>2, <1>3, <1>5, <3>5, <4>1
      <4>2. CASE g # h
        BY <1>3, <1>4, <3>1, <3>6, <4>2 DEF BroughtBy
      <4> QED
        BY <4>1, <4>2
    <3>8. BroughtBy(k, now)'
      BY <1>4, <3>4, <3>7 DEF BroughtBy
    <3> QED
      BY <3>8 DEF EachBroughtSome
  <2> QED
    BY <2>1, <2>2
<1>7. \A g \in Handlers : Cardinality(mreq'[g].tags) <= MaxTags
  BY <1>3, NoTags DEF TagsInv
<1>8. \A g \in Handlers : mreq'[g].step # "idle" => g \in Crowd'
  BY <1>3, <1>4, <1>5 DEF TagsInv
<1> QED
  BY <1>1, <1>6, <1>7, <1>8 DEF TagsInv

LEMMA DeleteKeepsTags ==
    ASSUME TagsInv, MarksTyped', NEW h \in Handlers, DeleteTags(h)
    PROVE  TagsInv'
<1>1. PICK q, r : /\ q = mreq[h] /\ q.step = "delete tags"
                  /\ r = [q EXCEPT !.step = "insert tags", !.victims = tags[q.mark]]
                  /\ mreq' = [mreq EXCEPT ![h] = r] /\ load' = load /\ tags' = tags
  BY DEF DeleteTags, MAt
<1>2. q \in MRequest
  BY <1>1 DEF TagsInv, MarksTyped
<1>3. r.victims = tags[q.mark] /\ r.mark = q.mark /\ r.tags = q.tags
  BY <1>1, <1>2 DEF MRequest
<1>4. mreq'[h] = r /\ \A g \in Handlers : g # h => mreq'[g] = mreq[g]
  BY <1>1 DEF TagsInv, MarksTyped
<1>5. Crowd' = Crowd /\ Crowd \subseteq Handlers /\ h \in Crowd
  BY <1>1, CrowdIsFinite DEF TagsInv, Crowd
<1>6. ASSUME NEW k \in Marks PROVE EachBroughtSome(k)'
  <2>1. tags'[k] \subseteq tags[k]
    BY <1>1
  <2>2. ASSUME NEW g \in Crowd, mreq'[g].step = "insert tags", mreq'[g].mark = k
        PROVE  \/ tags'[k] \subseteq mreq'[g].victims
               \/ /\ mreq[g].step = "insert tags" /\ mreq[g].mark = k
                  /\ mreq'[g].victims = mreq[g].victims
    <3>1. CASE g = h
      <4>1. mreq'[g] = r /\ tags' = tags
        BY <1>1, <1>4, <3>1
      <4>2. r.mark = k
        BY <2>2, <4>1
      <4>3. q.mark = k
        BY <1>3, <4>2
      <4>4. mreq'[g].victims = tags'[k]
        BY <1>3, <4>1, <4>3
      <4> QED
        BY <4>4
    <3>2. CASE g # h
      BY <1>4, <1>5, <2>2, <3>2
    <3> QED
      BY <3>1, <3>2
  <2> QED
    BY <1>1, <2>1, <2>2, FewerTags
<1>7. \A g \in Handlers : Cardinality(mreq'[g].tags) <= MaxTags
  BY <1>1, <1>3, <1>4 DEF TagsInv
<1>8. \A g \in Handlers : mreq'[g].step # "idle" => g \in Crowd'
  BY <1>4, <1>5 DEF TagsInv
<1> QED
  BY <1>1, <1>6, <1>7, <1>8 DEF TagsInv

LEMMA TagsInvNext ==
    ASSUME TagsInv, MarksTyped', [MarksNext]_<<load, markVars>>
    PROVE  TagsInv'
<1>1. CASE MarksNext
  <2> PICK h \in Handlers : MarkStep(h)
    BY <1>1 DEF MarksNext
  <2>1. ASSUME NEW k \in Marks, NEW emoji \in Emojis \cup {Null},
               SetMessageReaction(h, k, emoji)
        PROVE  TagsInv'
    <3>1. PICK r : r = [MIdle EXCEPT !.step = "read reaction", !.mark = k, !.emoji = emoji]
      OBVIOUS
    <3>2. r.step = "read reaction" /\ r.tags = MIdle.tags
      BY <3>1 DEF MIdle
    <3>3. /\ mreq' = [mreq EXCEPT ![h] = r] /\ load' = load /\ tags' = tags /\ h \in Crowd
      BY <2>1, <3>1 DEF SetMessageReaction, MStart
    <3> QED
      BY <3>2, <3>3, NoTags, TurningKeepsTags
  <2>2. CASE ReadReaction(h)
    <3>1. PICK q, r, next :
            /\ q = mreq[h] /\ next \in {"delete reaction", "upsert reaction"}
            /\ r = [q EXCEPT !.step = next] /\ q.step = "read reaction"
            /\ mreq' = [mreq EXCEPT ![h] = r] /\ load' = load /\ tags' = tags
      BY <2>2 DEF ReadReaction, MAt, MGoto
    <3>2. q \in MRequest /\ Cardinality(q.tags) <= MaxTags /\ h \in Crowd
      BY <3>1 DEF TagsInv, MarksTyped
    <3>3. r.step = next /\ r.tags = q.tags
      BY <3>1, <3>2 DEF MRequest
    <3> QED
      BY <3>1, <3>2, <3>3, TurningKeepsTags
  <2>3. CASE DeleteReaction(h) \/ UpsertReaction(h) \/ AbortMark(h)
    <3>1. mreq' = [mreq EXCEPT ![h] = MIdle] /\ load' = load /\ tags' = tags
      BY <2>3 DEF DeleteReaction, UpsertReaction, AbortMark, MAt, MFinish
    <3> QED
      BY <3>1, NoTags, IdleIsARequest, TurningKeepsTags
  <2>4. ASSUME NEW k \in Marks, NEW new \in SUBSET Tags, SetMessageTags(h, k, new)
        PROVE  TagsInv'
    <3>1. PICK r : r = [MIdle EXCEPT !.step = "delete tags", !.mark = k, !.tags = new]
      OBVIOUS
    <3>2. r.step = "delete tags" /\ r.tags = new
      BY <3>1 DEF MIdle
    <3>3. /\ mreq' = [mreq EXCEPT ![h] = r] /\ load' = load /\ tags' = tags /\ h \in Crowd
          /\ Cardinality(new) <= MaxTags
      BY <2>4, <3>1 DEF SetMessageTags, MStart
    <3> QED
      BY <3>2, <3>3, TurningKeepsTags
  <2>5. CASE DeleteTags(h)
    BY <2>5, DeleteKeepsTags
  <2>6. CASE InsertTags(h)
    BY <2>6, InsertKeepsTags
  <2>7. ASSUME NEW k \in Marks, DropTags(h, k[1])
        PROVE  TagsInv'
    <3>1. /\ mreq' = [mreq EXCEPT ![h] = MIdle] /\ load' = load
          /\ tags' = [j \in Marks |-> IF j[1] = k[1] THEN {} ELSE tags[j]]
      BY <2>7 DEF DropTags, MStart
    <3> QED
      BY <3>1, NoTags, IdleIsARequest, TurningKeepsTags
  <2> QED
    BY <2>1, <2>2, <2>3, <2>4, <2>5, <2>6, <2>7 DEF MarkStep
<1>2. CASE UNCHANGED <<load, markVars>>
  <2>1. tags' = tags /\ mreq' = mreq /\ load' = load /\ Crowd' = Crowd
    BY <1>2 DEF markVars, Crowd
  <2>2. ASSUME NEW k \in Marks PROVE EachBroughtSome(k)'
    BY <2>1, FewerTags
  <2> QED
    BY <2>1, <2>2 DEF TagsInv
<1> QED
  BY <1>1, <1>2

LEMMA OwnersBoundTheTags == ASSUME TagsInv PROVE TagsBounded
<1>1. ASSUME NEW k \in Marks PROVE Cardinality(tags[k]) <= MaxTags * Overlap
  <2>1. PICK by : BroughtBy(k, by)
    BY DEF TagsInv, EachBroughtSome
  <2>2. tags[k] \subseteq Tags /\ IsFiniteSet(tags[k])
    <3>1. tags[k] \subseteq Tags
      BY DEF TagsInv, MarksTyped
    <3> QED
      BY <3>1, MarksAssumption, FS_Subset
  <2>3. by \in [tags[k] -> Crowd]
        /\ \A h \in Crowd : Cardinality({t \in tags[k] : by[t] = h}) <= MaxTags
    BY <2>1 DEF BroughtBy, Brought
  <2>4. IsFiniteSet(Crowd) /\ MaxTags \in Nat
    BY CrowdIsFinite, MarksAssumption DEF TagsInv
  <2> QED
    BY <2>2, <2>3, <2>4, CountedByOwner DEF Overlap
<1> QED
  BY <1>1 DEF TagsBounded

(* setMessageTags deletes and inserts in one transaction, whose delete     *)
(* sees only what is committed: requests of one user that overlap add up,  *)
(* but never to more than the limit times the requests at once.            *)
THEOREM TagsStayBounded == MarksSpec => []TagsBounded
<1>1. MarksInit => MarksInv /\ TagsInv
  BY MarksInvInit, TagsInvInit
<1>2. MarksInv /\ TagsInv /\ [MarksNext]_<<load, markVars>> => (MarksInv /\ TagsInv)'
  <2> SUFFICES ASSUME MarksInv, TagsInv, [MarksNext]_<<load, markVars>>
               PROVE  MarksInv' /\ TagsInv'
    OBVIOUS
  <2>1. MarksInv'
    BY MarksInvNext
  <2>2. MarksTyped'
    BY <2>1 DEF MarksInv
  <2> QED
    BY <2>1, <2>2, TagsInvNext
<1>3. TagsInv => TagsBounded
  BY OwnersBoundTheTags
<1> QED
  BY <1>1, <1>2, <1>3, PTL DEF MarksSpec
=============================================================================
