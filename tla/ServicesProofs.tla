--------------------------- MODULE ServicesProofs ---------------------------
(***************************************************************************)
(* Proofs about the smaller services, for any people, handlers, limits and *)
(* loads: what uploads that overlap may store, how many statistics a day   *)
(* may be mailed, that a stored recovery envelope is the one whose code    *)
(* was mailed, that the cleanup of rate limits changes no answer; and that *)
(* the services side by side keep what each of them promises.              *)
(***************************************************************************)
EXTENDS Services, MessagesProofs

-----------------------------------------------------------------------------
(* Documents. *)

(* The bytes of the uploads that have passed the quota, one by one.        *)
Incoming == {b \in Uploading \X (1 .. MaxSize) : b[2] <= dreq[b[1]].document.size}

DocumentsTyped ==
    /\ DocumentsTypeOK
    /\ \A h \in Handlers : dreq[h].step # "idle" => h \in Crowd
    /\ \A h \in Handlers : dreq[h].step \in {"aggregate", "create"} =>
                             dreq[h].document \in Document

DocumentsInv ==
    /\ DocumentsTyped
    /\ CountBounded
    /\ Bytes + Cardinality(Incoming) <= StorageLimit + (Overlap - 1) * MaxSize

StoredBytes == {b \in Docs \X (1 .. MaxSize) : b[2] <= Size(b[1])}

LEMMA UpTo ==
    ASSUME NEW n \in Nat
    PROVE  IsFiniteSet(1 .. n) /\ Cardinality(1 .. n) = n
<1>1. 1 \in Int /\ n \in Int
  OBVIOUS
<1>2. IsFiniteSet(1 .. n) /\ Cardinality(1 .. n) = IF 1 > n THEN 0 ELSE n - 1 + 1
  BY <1>1, FS_Interval, Zenon
<1> QED
  BY <1>2

LEMMA RowOfBytes ==
    ASSUME NEW x, NEW n \in Nat
    PROVE  IsFiniteSet({x} \X (1 .. n)) /\ Cardinality({x} \X (1 .. n)) = n
<1>1. IsFiniteSet({x}) /\ Cardinality({x}) = 1
  BY FS_Singleton, Zenon
<1>2. /\ IsFiniteSet({x} \X (1 .. n))
      /\ Cardinality({x} \X (1 .. n)) = Cardinality({x}) * Cardinality(1 .. n)
  BY <1>1, UpTo, FS_Product
<1> QED
  BY <1>1, <1>2, UpTo

LEMMA DocumentSetsAreFinite ==
    ASSUME DocumentsTyped
    PROVE  /\ IsFiniteSet(There) /\ IsFiniteSet(Uploading) /\ Uploading \subseteq Crowd
           /\ IsFiniteSet(StoredBytes) /\ IsFiniteSet(Incoming)
           /\ Bytes = Cardinality(StoredBytes)
<1>1. /\ IsFiniteSet(Docs) /\ IsFiniteSet(Crowd) /\ IsFiniteSet(1 .. MaxSize)
  BY DocumentsAssumption, CrowdIsFinite, UpTo DEF DocumentsTyped, DocumentsTypeOK
<1>2. There \subseteq Docs /\ Uploading \subseteq Crowd
  BY DEF There, Uploading, DocumentsTyped
<1>3. IsFiniteSet(There) /\ IsFiniteSet(Uploading)
  BY <1>1, <1>2, FS_Subset
<1>4. IsFiniteSet(Docs \X (1 .. MaxSize)) /\ IsFiniteSet(Uploading \X (1 .. MaxSize))
  BY <1>1, <1>3, FS_Product
<1>5. /\ StoredBytes \subseteq Docs \X (1 .. MaxSize)
      /\ Incoming \subseteq Uploading \X (1 .. MaxSize)
  BY DEF StoredBytes, Incoming
<1>6. IsFiniteSet(StoredBytes) /\ IsFiniteSet(Incoming)
  BY <1>4, <1>5, FS_Subset
<1> QED
  BY <1>2, <1>3, <1>6 DEF Bytes, StoredBytes

LEMMA DocumentSetsStayFinite ==
    ASSUME DocumentsTyped, Crowd' = Crowd, \A h \in Handlers : dreq'[h].step # "idle" => h \in Crowd
    PROVE  /\ IsFiniteSet(There') /\ IsFiniteSet(Uploading') /\ Uploading' \subseteq Crowd
           /\ IsFiniteSet(StoredBytes') /\ IsFiniteSet(Incoming')
           /\ Bytes' = Cardinality(StoredBytes')
<1>1. /\ IsFiniteSet(Docs) /\ IsFiniteSet(Crowd) /\ IsFiniteSet(1 .. MaxSize)
  BY DocumentsAssumption, CrowdIsFinite, UpTo DEF DocumentsTyped, DocumentsTypeOK
<1>2. PICK T, U, S, I : T = There' /\ U = Uploading' /\ S = StoredBytes' /\ I = Incoming'
  OBVIOUS
<1>3. T \subseteq Docs /\ U \subseteq Crowd
  BY <1>2 DEF There, Uploading
<1>4. IsFiniteSet(T) /\ IsFiniteSet(U)
  BY <1>1, <1>3, FS_Subset
<1>5. IsFiniteSet(Docs \X (1 .. MaxSize)) /\ IsFiniteSet(U \X (1 .. MaxSize))
  BY <1>1, <1>4, FS_Product
<1>6. /\ S \subseteq Docs \X (1 .. MaxSize)
      /\ I \subseteq U \X (1 .. MaxSize)
  BY <1>2 DEF StoredBytes, Incoming
<1>7. IsFiniteSet(S) /\ IsFiniteSet(I)
  BY <1>5, <1>6, FS_Subset
<1> QED
  BY <1>2, <1>3, <1>4, <1>7 DEF Bytes, StoredBytes

LEMMA DocumentNumbers ==
    ASSUME DocumentsTyped
    PROVE  /\ Overlap \in Nat /\ Overlap >= 1 /\ MaxSize \in Nat /\ StorageLimit \in Nat
           /\ CountLimit \in Nat /\ CountLimit >= 1 /\ (Overlap - 1) * MaxSize \in Nat
<1>1. /\ Overlap \in Nat /\ Overlap >= 1 /\ MaxSize \in Nat /\ StorageLimit \in Nat
      /\ CountLimit \in Nat /\ CountLimit >= 1
  BY CrowdIsFinite, DocumentsAssumption DEF DocumentsTyped, DocumentsTypeOK
<1>2. Overlap - 1 \in Nat
  BY <1>1
<1>3. \A a, b \in Nat : a * b \in Nat
  OBVIOUS
<1> QED
  BY <1>1, <1>2, <1>3

(* Handler h goes on with request r.                                       *)
DocumentTurns(h, r) == dreq' = [dreq EXCEPT ![h] = r] /\ load' = load

LEMMA DocumentTurnsEffect ==
    ASSUME DocumentsTyped, NEW h \in Handlers, NEW r, DocumentTurns(h, r)
    PROVE  /\ dreq'[h] = r /\ \A g \in Handlers : g # h => dreq'[g] = dreq[g]
           /\ Crowd' = Crowd /\ Overlap' = Overlap
  BY DEF DocumentsTyped, DocumentsTypeOK, DocumentTurns, Crowd, Overlap

LEMMA DocumentsTypedStep ==
    ASSUME DocumentsTyped, NEW h \in Handlers, NEW r \in DRequest, DocumentTurns(h, r),
           r.step = "idle" \/ h \in Crowd,
           r.step \in {"aggregate", "create"} => r.document \in Document,
           documents' \in [Docs -> Document \cup {NoDocument}]
    PROVE  DocumentsTyped'
<1>1. /\ dreq'[h] = r /\ \A g \in Handlers : g # h => dreq'[g] = dreq[g]
      /\ Crowd' = Crowd
  BY DocumentTurnsEffect
<1>2. dreq' \in [Handlers -> DRequest] /\ load' \in Loads
  BY DEF DocumentsTyped, DocumentsTypeOK, DocumentTurns
<1>3. \A g \in Handlers : dreq'[g].step # "idle" => g \in Crowd'
  BY <1>1 DEF DocumentsTyped
<1>4. \A g \in Handlers : dreq'[g].step \in {"aggregate", "create"} =>
                            dreq'[g].document \in Document
  BY <1>1 DEF DocumentsTyped
<1> QED
  BY <1>2, <1>3, <1>4 DEF DocumentsTyped, DocumentsTypeOK

LEMMA DIdleIsARequest == DIdle \in DRequest /\ DIdle.step = "idle"
  BY DEF DIdle, DRequest

(* Handler h turns to something that is no insert, and no document comes.  *)
LEMMA NothingComes ==
    ASSUME DocumentsInv, DocumentsTyped', NEW h \in Handlers, NEW r, DocumentTurns(h, r),
           r.step # "create",
           \A d \in Docs : documents'[d] = documents[d] \/ documents'[d] = NoDocument
    PROVE  DocumentsInv'
<1>1. /\ dreq'[h] = r /\ \A g \in Handlers : g # h => dreq'[g] = dreq[g]
      /\ Crowd' = Crowd /\ Overlap' = Overlap /\ DocumentsTyped
  BY DocumentTurnsEffect DEF DocumentsInv
<1>2. There' \subseteq There /\ Uploading' \subseteq Uploading
  BY <1>1 DEF There, Uploading
<1>3. StoredBytes' \subseteq StoredBytes
  <2>1. ASSUME NEW b \in StoredBytes' PROVE b \in StoredBytes
    <3>1. b \in Docs \X (1 .. MaxSize) /\ b[2] <= documents'[b[1]].size
      BY DEF StoredBytes, Size
    <3>2. NoDocument.size = 0 /\ b[2] \in 1 .. MaxSize /\ b[1] \in Docs
      BY <3>1 DEF NoDocument
    <3>3. documents'[b[1]] # NoDocument
      BY <3>1, <3>2
    <3> QED
      BY <3>1, <3>2, <3>3 DEF StoredBytes, Size
  <2> QED
    BY <2>1
<1>4. Incoming' \subseteq Incoming
  BY <1>1 DEF Incoming, Uploading
<1>5. /\ IsFiniteSet(There) /\ IsFiniteSet(Uploading)
      /\ IsFiniteSet(StoredBytes) /\ IsFiniteSet(Incoming)
      /\ Bytes = Cardinality(StoredBytes) /\ Bytes' = Cardinality(StoredBytes')
  BY <1>1, DocumentSetsAreFinite DEF Bytes, StoredBytes
<1>6. PICK T, T1, S, S1 : /\ T = There /\ T1 = There' /\ S = StoredBytes /\ S1 = StoredBytes'
  OBVIOUS
<1>7. /\ IsFiniteSet(T1) /\ Cardinality(T1) <= Cardinality(T)
      /\ IsFiniteSet(S1) /\ Cardinality(S1) <= Cardinality(S)
  BY <1>2, <1>3, <1>5, <1>6, FS_Subset
<1>8. PICK n \in Nat, m \in Nat :
        n = CountLimit - 1 + Overlap /\ m = StorageLimit + (Overlap - 1) * MaxSize
  BY <1>1, DocumentNumbers
<1>9. /\ Cardinality(T) + Cardinality(Uploading) <= n
      /\ Cardinality(S) + Cardinality(Incoming) <= m
  BY <1>5, <1>6, <1>8 DEF DocumentsInv, CountBounded
<1>10. Cardinality(T1) + Cardinality(Uploading') <= n
  BY <1>2, <1>5, <1>6, <1>7, <1>9, BothShrink
<1>11. Cardinality(S1) + Cardinality(Incoming') <= m
  BY <1>4, <1>5, <1>6, <1>7, <1>9, BothShrink
<1> QED
  BY <1>1, <1>5, <1>6, <1>8, <1>10, <1>11 DEF DocumentsInv, CountBounded

(* An upload passes the quota: what it found there and its own size are    *)
(* within the limits, and each of the others brings one document at most.  *)
LEMMA QuotaPassedKeeps ==
    ASSUME DocumentsInv, NEW h \in Handlers, CheckQuota(h),
           WithinQuota(Cardinality(There), Bytes, dreq[h].document.size)
    PROVE  DocumentsInv'
<1>1. PICK q, r : /\ q = dreq[h] /\ q.step = "aggregate"
                  /\ r = [q EXCEPT !.step = "create"]
                  /\ DocumentTurns(h, r) /\ documents' = documents
  BY DEF CheckQuota, DAt, DocumentTurns
<1>2. DocumentsTyped /\ q \in DRequest /\ h \in Crowd /\ q.document \in Document
  BY <1>1 DEF DocumentsInv, DocumentsTyped, DocumentsTypeOK
<1>3. r \in DRequest /\ r.step = "create" /\ r.document = q.document
  BY <1>1, <1>2 DEF DRequest
<1>4. DocumentsTyped'
  BY <1>1, <1>2, <1>3, DocumentsTypedStep DEF DocumentsTyped, DocumentsTypeOK
<1>5. /\ dreq'[h] = r /\ \A g \in Handlers : g # h => dreq'[g] = dreq[g]
      /\ Crowd' = Crowd /\ Overlap' = Overlap
  BY <1>1, <1>2, DocumentTurnsEffect
<1>6. PICK z \in 1 .. MaxSize : z = q.document.size
  BY <1>2 DEF Document
<1>7. There' = There /\ Bytes' = Bytes
  BY <1>1 DEF There, Bytes, Size
<1>8. /\ IsFiniteSet(Uploading') /\ Uploading' \subseteq Crowd /\ IsFiniteSet(Crowd)
      /\ IsFiniteSet(There) /\ IsFiniteSet(Uploading) /\ Uploading \subseteq Crowd
      /\ IsFiniteSet(StoredBytes) /\ IsFiniteSet(Incoming) /\ IsFiniteSet(Incoming')
      /\ Bytes = Cardinality(StoredBytes)
  <2>1. \A g \in Handlers : dreq'[g].step # "idle" => g \in Crowd
    BY <1>4, <1>5 DEF DocumentsTyped
  <2>2. IsFiniteSet(Uploading') /\ Uploading' \subseteq Crowd /\ IsFiniteSet(Incoming')
    BY <1>2, <1>5, <2>1, DocumentSetsStayFinite
  <2>3. IsFiniteSet(Crowd)
    BY <1>2, CrowdIsFinite DEF DocumentsTyped, DocumentsTypeOK
  <2> QED
    BY <1>2, <2>2, <2>3, DocumentSetsAreFinite
<1>9. /\ Overlap \in Nat /\ Overlap >= 1 /\ MaxSize \in Nat /\ StorageLimit \in Nat
      /\ CountLimit \in Nat /\ CountLimit >= 1 /\ z \in Nat
  BY <1>2, <1>6, DocumentNumbers
<1>10. Cardinality(There) < CountLimit /\ Bytes + z <= StorageLimit
  BY <1>1, <1>6 DEF WithinQuota
<1>11. CountBounded'
  <2>1. Cardinality(Uploading') <= Overlap
    BY <1>8, FS_Subset DEF Overlap
  <2>2. Cardinality(Uploading') \in Nat /\ Cardinality(There) \in Nat
    BY <1>8, FS_CardinalityType
  <2> QED
    BY <1>5, <1>7, <1>9, <1>10, <2>1, <2>2 DEF CountBounded
<1>12. Cardinality(Incoming) <= (Overlap - 1) * MaxSize
  <2>1. PICK others : others = Crowd \ {h}
    OBVIOUS
  <2>2. IsFiniteSet(others) /\ Cardinality(others) = Overlap - 1
    BY <1>2, <1>8, <2>1, FS_RemoveElement DEF Overlap
  <2>3. /\ IsFiniteSet(others \X (1 .. MaxSize))
        /\ Cardinality(others \X (1 .. MaxSize)) = (Overlap - 1) * MaxSize
    <3>1. IsFiniteSet(1 .. MaxSize) /\ Cardinality(1 .. MaxSize) = MaxSize
      BY <1>9, UpTo
    <3>2. /\ IsFiniteSet(others \X (1 .. MaxSize))
          /\ Cardinality(others \X (1 .. MaxSize)) = Cardinality(others) * Cardinality(1 .. MaxSize)
      BY <2>2, <3>1, FS_Product
    <3> QED
      BY <2>2, <3>1, <3>2
  <2>4. Incoming \subseteq others \X (1 .. MaxSize)
    BY <1>1, <1>8, <2>1 DEF Incoming, Uploading
  <2> QED
    BY <2>3, <2>4, FS_Subset
<1>13. Cardinality(Incoming') <= Cardinality(Incoming) + z
  <2>1. PICK A, mine : A = Incoming /\ mine = {h} \X (1 .. z)
    OBVIOUS
  <2>2. IsFiniteSet(mine) /\ Cardinality(mine) = z /\ IsFiniteSet(A)
    BY <1>8, <1>9, <2>1, RowOfBytes
  <2>3. Incoming' \subseteq A \cup mine
    <3>1. ASSUME NEW b \in Incoming' PROVE b \in A \cup mine
      <4>1. /\ b \in Uploading' \X (1 .. MaxSize)
            /\ b[2] <= dreq'[b[1]].document.size
        BY DEF Incoming
      <4>2. CASE b[1] = h
        <5>1. b[2] \in 1 .. z /\ b = <<h, b[2]>>
          BY <1>3, <1>5, <1>6, <4>1, <4>2
        <5> QED
          BY <2>1, <5>1
      <4>3. CASE b[1] # h
        <5>1. b[1] \in Uploading /\ dreq'[b[1]] = dreq[b[1]]
          BY <1>5, <4>1, <4>3 DEF Uploading
        <5> QED
          BY <2>1, <4>1, <5>1 DEF Incoming
      <4> QED
        BY <4>2, <4>3
    <3> QED
      BY <3>1
  <2>4. PICK both : both = A \cup mine
    OBVIOUS
  <2>5. /\ IsFiniteSet(both) /\ IsFiniteSet(A \cap mine)
        /\ Cardinality(both) = Cardinality(A) + Cardinality(mine) - Cardinality(A \cap mine)
    BY <2>2, <2>4, FS_Union, FS_Intersection
  <2>6. Cardinality(Incoming') <= Cardinality(both)
    BY <2>3, <2>4, <2>5, FS_Subset
  <2>7. /\ Cardinality(both) \in Nat /\ Cardinality(A) \in Nat /\ Cardinality(mine) \in Nat
        /\ Cardinality(A \cap mine) \in Nat /\ Cardinality(Incoming') \in Nat
    BY <1>8, <2>2, <2>5, FS_CardinalityType
  <2> QED
    BY <2>1, <2>2, <2>5, <2>6, <2>7
<1>14. Bytes' + Cardinality(Incoming') <= StorageLimit + (Overlap' - 1) * MaxSize
  <2>1. /\ Cardinality(Incoming) \in Nat /\ Cardinality(Incoming') \in Nat /\ Bytes \in Nat
        /\ (Overlap - 1) * MaxSize \in Nat
    BY <1>2, <1>8, FS_CardinalityType, DocumentNumbers
  <2>2. PICK limit \in Nat : limit = (Overlap - 1) * MaxSize
    BY <2>1
  <2> QED
    BY <1>5, <1>7, <1>9, <1>10, <1>12, <1>13, <2>1, <2>2
<1> QED
  BY <1>4, <1>11, <1>14 DEF DocumentsInv

(* The row is inserted: a document less is on its way.                     *)
LEMMA InsertDocumentKeeps ==
    ASSUME DocumentsInv, NEW h \in Handlers, InsertDocument(h)
    PROVE  DocumentsInv'
<1>1. PICK d, q : /\ d \in Docs \ There /\ q = dreq[h] /\ q.step = "create"
                  /\ documents' = [documents EXCEPT ![d] = q.document]
                  /\ DocumentTurns(h, DIdle)
  BY DEF InsertDocument, DAt, DFinish, DocumentTurns
<1>2. DocumentsTyped /\ q.document \in Document /\ documents[d] = NoDocument
  BY <1>1 DEF DocumentsInv, DocumentsTyped, There
<1>3. documents' \in [Docs -> Document \cup {NoDocument}]
  BY <1>1, <1>2 DEF DocumentsTyped, DocumentsTypeOK
<1>4. DocumentsTyped'
  BY <1>1, <1>2, <1>3, DIdleIsARequest, DocumentsTypedStep
<1>5. /\ dreq'[h] = DIdle /\ \A g \in Handlers : g # h => dreq'[g] = dreq[g]
      /\ Crowd' = Crowd /\ Overlap' = Overlap
  BY <1>1, <1>2, DocumentTurnsEffect
<1>6. /\ documents'[d] = q.document
      /\ \A e \in Docs : e # d => documents'[e] = documents[e]
  BY <1>1, <1>2 DEF DocumentsTyped, DocumentsTypeOK
<1>7. PICK z \in 1 .. MaxSize : z = q.document.size
  BY <1>2 DEF Document
<1>8. /\ IsFiniteSet(There) /\ IsFiniteSet(Uploading)
      /\ IsFiniteSet(StoredBytes) /\ IsFiniteSet(Incoming)
      /\ Bytes = Cardinality(StoredBytes) /\ Bytes' = Cardinality(StoredBytes')
      /\ IsFiniteSet(StoredBytes') /\ IsFiniteSet(Incoming')
  <2>1. \A g \in Handlers : dreq'[g].step # "idle" => g \in Crowd
    BY <1>4, <1>5 DEF DocumentsTyped
  <2>2. /\ IsFiniteSet(StoredBytes') /\ IsFiniteSet(Incoming')
        /\ Bytes' = Cardinality(StoredBytes')
    BY <1>2, <1>5, <2>1, DocumentSetsStayFinite
  <2> QED
    BY <1>2, <2>2, DocumentSetsAreFinite
<1>9. PICK n \in Nat, m \in Nat :
        n = CountLimit - 1 + Overlap /\ m = StorageLimit + (Overlap - 1) * MaxSize
  BY <1>2, DocumentNumbers
<1>10. CountBounded'
  <2>1. There' \subseteq There \cup {d}
    BY <1>6 DEF There
  <2>2. h \in Uploading /\ Uploading' \subseteq Uploading \ {h}
    BY <1>1, <1>5, DIdleIsARequest DEF Uploading
  <2>3. PICK A, B, A1, B1 : /\ A = There /\ A1 = There'
                            /\ B = Uploading /\ B1 = Uploading'
    OBVIOUS
  <2>4. Cardinality(A) + Cardinality(B) <= n
    BY <1>9, <2>3 DEF DocumentsInv, CountBounded
  <2>5. Cardinality(A1) + Cardinality(B1) <= n
    BY <1>8, <2>1, <2>2, <2>3, <2>4, RequestBecomesRow
  <2> QED
    BY <1>5, <1>9, <2>3, <2>5 DEF CountBounded
<1>11. PICK own, its : own = {h} \X (1 .. z) /\ its = {d} \X (1 .. z)
  OBVIOUS
<1>12. /\ IsFiniteSet(own) /\ Cardinality(own) = z
       /\ IsFiniteSet(its) /\ Cardinality(its) = z /\ z \in Nat
  <2>1. z \in Nat
    BY <1>7, DocumentsAssumption
  <2>2. IsFiniteSet({h} \X (1 .. z)) /\ Cardinality({h} \X (1 .. z)) = z
    BY <2>1, RowOfBytes
  <2>3. IsFiniteSet({d} \X (1 .. z)) /\ Cardinality({d} \X (1 .. z)) = z
    BY <2>1, RowOfBytes
  <2> QED
    BY <1>11, <2>1, <2>2, <2>3
<1>13. StoredBytes' \subseteq StoredBytes \cup its
  <2>1. ASSUME NEW b \in StoredBytes' PROVE b \in StoredBytes \cup its
    <3>1. b \in Docs \X (1 .. MaxSize) /\ b[2] <= documents'[b[1]].size
      BY DEF StoredBytes, Size
    <3>2. CASE b[1] = d
      <4>1. b[2] \in 1 .. z /\ b = <<d, b[2]>>
        BY <1>6, <1>7, <3>1, <3>2
      <4> QED
        BY <1>11, <4>1
    <3>3. CASE b[1] # d
      BY <1>6, <3>1, <3>3 DEF StoredBytes, Size
    <3> QED
      BY <3>2, <3>3
  <2> QED
    BY <2>1
<1>14. own \subseteq Incoming /\ Incoming' \subseteq Incoming \ own
  <2>1. h \in Uploading /\ dreq[h].document.size = z
    BY <1>1, <1>7 DEF Uploading
  <2>2. own \subseteq Incoming
    <3>1. ASSUME NEW b \in own PROVE b \in Incoming
      <4>1. b[1] = h /\ b[2] \in 1 .. z /\ b = <<h, b[2]>>
        BY <1>11
      <4>2. b[2] \in 1 .. MaxSize /\ b[2] <= z
        BY <1>7, <4>1, DocumentsAssumption
      <4> QED
        BY <2>1, <4>1, <4>2 DEF Incoming
    <3> QED
      BY <3>1
  <2>3. ASSUME NEW b \in Incoming' PROVE b \in Incoming \ own
    <3>1. b[1] \in Uploading' /\ b[1] # h
      BY <1>5, DIdleIsARequest DEF Incoming, Uploading
    <3>2. b[1] \in Uploading /\ dreq'[b[1]] = dreq[b[1]]
      BY <1>5, <3>1 DEF Uploading
    <3>3. b \in Incoming
      BY <3>2 DEF Incoming
    <3>4. b \notin own
      BY <1>11, <3>1
    <3> QED
      BY <3>3, <3>4
  <2> QED
    BY <2>2, <2>3
<1>15. Bytes' + Cardinality(Incoming') <= m
  <2>1. PICK S, S1, I, I1 : /\ S = StoredBytes /\ S1 = StoredBytes'
                            /\ I = Incoming /\ I1 = Incoming'
    OBVIOUS
  <2>2. /\ IsFiniteSet(S) /\ IsFiniteSet(S1) /\ IsFiniteSet(I) /\ IsFiniteSet(I1)
        /\ S1 \subseteq S \cup its /\ own \subseteq I /\ I1 \subseteq I \ own
        /\ Cardinality(S) + Cardinality(I) <= m
    BY <1>8, <1>9, <1>13, <1>14, <2>1 DEF DocumentsInv
  <2>3. /\ IsFiniteSet(S \cup its) /\ IsFiniteSet(S \cap its)
        /\ Cardinality(S \cup its) = Cardinality(S) + z - Cardinality(S \cap its)
    BY <1>12, <2>2, FS_Union, FS_Intersection
  <2>4. I \cap own = own
    BY <2>2
  <2>5. IsFiniteSet(I \ own) /\ Cardinality(I \ own) = Cardinality(I) - z
    <3>1. IsFiniteSet(I \ own) /\ Cardinality(I \ own) = Cardinality(I) - Cardinality(I \cap own)
      BY <2>2, FS_Difference
    <3> QED
      BY <1>12, <2>4, <3>1
  <2>6. Cardinality(S1) <= Cardinality(S \cup its) /\ Cardinality(I1) <= Cardinality(I \ own)
    BY <2>2, <2>3, <2>5, FS_Subset
  <2>7. /\ Cardinality(S) \in Nat /\ Cardinality(S1) \in Nat /\ Cardinality(I) \in Nat
        /\ Cardinality(I1) \in Nat /\ Cardinality(S \cup its) \in Nat
        /\ Cardinality(S \cap its) \in Nat /\ Cardinality(I \ own) \in Nat
    BY <2>2, <2>3, <2>5, FS_CardinalityType
  <2>8. Cardinality(S1) + Cardinality(I1) <= m
    BY <1>9, <1>12, <2>2, <2>3, <2>5, <2>6, <2>7
  <2> QED
    BY <1>8, <2>1, <2>8
<1> QED
  BY <1>4, <1>5, <1>9, <1>10, <1>15 DEF DocumentsInv

-----------------------------------------------------------------------------
LEMMA DocumentsInvInit == ASSUME DocumentsInit PROVE DocumentsInv
<1>1. /\ load \in Loads /\ documents = [d \in Docs |-> NoDocument]
      /\ dreq = [h \in Handlers |-> DIdle]
  BY DEF DocumentsInit, LoadInit
<1>2. DocumentsTyped
  BY <1>1, DIdleIsARequest DEF DocumentsTyped, DocumentsTypeOK
<1>3. /\ Overlap \in Nat /\ Overlap >= 1 /\ MaxSize \in Nat /\ StorageLimit \in Nat
      /\ CountLimit \in Nat /\ CountLimit >= 1 /\ (Overlap - 1) * MaxSize \in Nat
  BY <1>2, DocumentNumbers
<1>4. There = {} /\ Uploading = {} /\ Incoming = {}
  BY <1>1, DIdleIsARequest DEF There, Uploading, Incoming
<1>5. StoredBytes = {}
  <2>1. \A d \in Docs : Size(d) = 0
    BY <1>1 DEF Size, NoDocument
  <2>2. ASSUME NEW b \in StoredBytes PROVE FALSE
    <3>1. b[1] \in Docs /\ b[2] \in 1 .. MaxSize /\ b[2] <= Size(b[1])
      BY DEF StoredBytes
    <3> QED
      BY <1>3, <2>1, <3>1
  <2> QED
    BY <2>2
<1>6. Cardinality({}) = 0 /\ Bytes = 0
  BY <1>2, <1>5, FS_EmptySet, DocumentSetsAreFinite
<1>7. CountBounded
  BY <1>3, <1>4, <1>6 DEF CountBounded
<1>8. Bytes + Cardinality(Incoming) <= StorageLimit + (Overlap - 1) * MaxSize
  BY <1>3, <1>4, <1>6
<1> QED
  BY <1>2, <1>7, <1>8 DEF DocumentsInv

LEMMA DocumentsInvNext ==
    ASSUME DocumentsInv, [DocumentsNext]_<<load, documentVars>>
    PROVE  DocumentsInv'
<1>0. DocumentsTyped
  BY DEF DocumentsInv
<1>1. CASE DocumentsNext
  <2> PICK h \in Handlers : DocumentStep(h)
    BY <1>1 DEF DocumentsNext
  <2>1. ASSUME NEW new \in Document, CreateDocument(h, new)
        PROVE  DocumentsInv'
    <3>1. PICK r : /\ r = [DIdle EXCEPT !.step = "aggregate", !.document = new]
                   /\ DocumentTurns(h, r) /\ h \in Crowd /\ documents' = documents
      BY <2>1 DEF CreateDocument, DStart, DocumentTurns
    <3>2. r \in DRequest /\ r.step = "aggregate" /\ r.document = new
      BY <3>1 DEF DIdle, DRequest
    <3>3. DocumentsTyped'
      BY <1>0, <3>1, <3>2, DocumentsTypedStep DEF DocumentsTyped, DocumentsTypeOK
    <3> QED
      BY <3>1, <3>2, <3>3, NothingComes
  <2>2. CASE CheckQuota(h)
    <3>1. CASE WithinQuota(Cardinality(There), Bytes, dreq[h].document.size)
      BY <2>2, <3>1, QuotaPassedKeeps
    <3>2. CASE ~WithinQuota(Cardinality(There), Bytes, dreq[h].document.size)
      <4>1. DocumentTurns(h, DIdle) /\ documents' = documents
        BY <2>2, <3>2 DEF CheckQuota, DAt, DFinish, DocumentTurns
      <4>2. DocumentsTyped'
        BY <1>0, <4>1, DIdleIsARequest, DocumentsTypedStep DEF DocumentsTyped, DocumentsTypeOK
      <4> QED
        BY <4>1, <4>2, DIdleIsARequest, NothingComes
    <3> QED
      BY <3>1, <3>2
  <2>3. CASE InsertDocument(h)
    BY <2>3, InsertDocumentKeeps
  <2>4. ASSUME NEW u \in Uploaders, NEW d \in Docs, AskDeleteDocument(h, u, d)
        PROVE  DocumentsInv'
    <3>1. PICK r : /\ r = [DIdle EXCEPT !.step = "delete", !.id = d]
                   /\ DocumentTurns(h, r) /\ h \in Crowd /\ documents' = documents
      BY <2>4 DEF AskDeleteDocument, DStart, DocumentTurns
    <3>2. r \in DRequest /\ r.step = "delete"
      BY <3>1 DEF DIdle, DRequest
    <3>3. DocumentsTyped'
      BY <1>0, <3>1, <3>2, DocumentsTypedStep DEF DocumentsTyped, DocumentsTypeOK
    <3> QED
      BY <3>1, <3>2, <3>3, NothingComes
  <2>5. CASE DeleteDocument(h)
    <3>1. PICK d : /\ DocumentTurns(h, DIdle)
                   /\ documents' = [documents EXCEPT ![d] = NoDocument]
      BY <2>5 DEF DeleteDocument, DAt, DFinish, DocumentTurns
    <3>2. /\ documents' \in [Docs -> Document \cup {NoDocument}]
          /\ \A e \in Docs : documents'[e] = documents[e] \/ documents'[e] = NoDocument
      BY <1>0, <3>1 DEF DocumentsTyped, DocumentsTypeOK
    <3>3. DocumentsTyped'
      BY <1>0, <3>1, <3>2, DIdleIsARequest, DocumentsTypedStep
    <3> QED
      BY <3>1, <3>2, <3>3, DIdleIsARequest, NothingComes
  <2>6. CASE AbortDocument(h)
    <3>1. DocumentTurns(h, DIdle) /\ documents' = documents
      BY <2>6 DEF AbortDocument, DFinish, DocumentTurns
    <3>2. DocumentsTyped'
      BY <1>0, <3>1, DIdleIsARequest, DocumentsTypedStep DEF DocumentsTyped, DocumentsTypeOK
    <3> QED
      BY <3>1, <3>2, DIdleIsARequest, NothingComes
  <2> QED
    BY <2>1, <2>2, <2>3, <2>4, <2>5, <2>6 DEF DocumentStep
<1>2. CASE UNCHANGED <<load, documentVars>>
  <2>1. load' = load /\ documents' = documents /\ dreq' = dreq
    BY <1>2 DEF documentVars
  <2>2. /\ Overlap' = Overlap /\ Crowd' = Crowd /\ There' = There /\ Bytes' = Bytes
        /\ Uploading' = Uploading /\ Incoming' = Incoming
    BY <2>1 DEF Overlap, Crowd, There, Bytes, Size, Uploading, Incoming
  <2>3. DocumentsTyped'
    BY <1>0, <2>1, <2>2 DEF DocumentsTyped, DocumentsTypeOK
  <2> QED
    BY <2>2, <2>3 DEF DocumentsInv, CountBounded
<1> QED
  BY <1>1, <1>2

LEMMA InvBoundsDocuments == ASSUME DocumentsInv PROVE DocumentsBounded
<1>1. DocumentsTyped
  BY DEF DocumentsInv
<1>2. Cardinality(Incoming) \in Nat /\ Bytes \in Nat /\ (Overlap - 1) * MaxSize \in Nat
      /\ StorageLimit \in Nat
  BY <1>1, DocumentSetsAreFinite, FS_CardinalityType, DocumentNumbers
<1> QED
  BY <1>2 DEF DocumentsInv, DocumentsBounded

(* createDocument checks the quota on an aggregate and inserts later: the  *)
(* family exceeds it by the documents of the other uploads at once and no  *)
(* more, whatever their sizes.                                             *)
THEOREM UploadsStayBounded == DocumentsSpec => []DocumentsBounded
<1>1. DocumentsInit => DocumentsInv
  BY DocumentsInvInit
<1>2. DocumentsInv /\ [DocumentsNext]_<<load, documentVars>> => DocumentsInv'
  BY DocumentsInvNext
<1>3. DocumentsInv => DocumentsBounded
  BY InvBoundsDocuments
<1> QED
  BY <1>1, <1>2, <1>3, PTL DEF DocumentsSpec

-----------------------------------------------------------------------------
(* Weekly statistics. *)

(* Jobs of a day that may still send; jobs of an earlier day, which put    *)
(* the mark back when they end; and, today, whatever may still send a mail *)
(* before the mark is put back: the jobs of today and, while the mark does *)
(* not stop them, those that have yet to start.                            *)
Working(d) == {h \in Handlers : sreq[h].step \in {"count", "mail"} /\ sreq[h].day = d}
Late == {h \in Handlers : sreq[h].step # "idle" /\ sreq[h].day < day}
Able == {h \in Crowd : sreq[h].step = "idle"} \cup Working(day)
Counted == IF AlreadySent THEN Working(day) ELSE Able

(* Twice the mails that n handlers can send in a day, l of them being late *)
(* when the day has sent what it can: l marks are put back, and then the   *)
(* handlers that are free send one mail each.                              *)
Credit(n, l) == l * (2 * n + 1 - l)

StatsTyped ==
    /\ load \in Loads
    /\ day \in Days /\ lastSentDay \in Days \cup {0} /\ lastSentDay <= day
    /\ mails \in [Days -> Int]
    /\ sreq \in [Handlers -> SRequest]
    /\ \A h \in Handlers : sreq[h].step # "idle" => h \in Crowd /\ sreq[h].day \in 1 .. day

StatsInv ==
    /\ StatsTyped
    /\ \A d \in Days : d > day => mails[d] = 0
    /\ \A d \in Days : d < day =>
         2 * (mails[d] + Cardinality(Working(d))) <= Overlap * (Overlap + 1)
    /\ 2 * (mails[day] + Cardinality(Counted)) + Credit(Overlap, Cardinality(Late))
         <= Overlap * (Overlap + 1)

-----------------------------------------------------------------------------
(* The arithmetic of credits. *)

LEMMA CreditOfOneMore ==
    ASSUME NEW n \in Nat, NEW l \in Nat
    PROVE  Credit(n, l + 1) = Credit(n, l) + 2 * (n - l)
  BY DEF Credit

LEMMA CreditIsPositive ==
    ASSUME NEW n \in Nat, NEW l \in Nat, l <= n
    PROVE  Credit(n, l) \in Nat
<1>1. PICK k \in Nat : k = 2 * n + 1 - l
  OBVIOUS
<1>2. l * k \in Nat
  OBVIOUS
<1> QED
  BY <1>1, <1>2 DEF Credit

LEMMA CreditOfAMorning ==
    ASSUME NEW n \in Nat, NEW l \in Nat, NEW i \in Nat, i + l <= n
    PROVE  2 * i + Credit(n, l) <= n * (n + 1)
<1>1. PICK k \in Nat : n = l + k /\ i <= k
  BY n - l \in Nat
<1>2. \A x \in Nat : x * x >= x
  OBVIOUS
<1>3. Credit(n, l) = l * l + 2 * (l * k) + l
  BY <1>1 DEF Credit
<1>4. n * (n + 1) = l * l + 2 * (l * k) + k * k + l + k
  BY <1>1
<1>5. k * k >= k
  BY <1>2
<1>6. PICK a \in Nat, b \in Nat, c \in Nat : a = l * l /\ b = l * k /\ c = k * k
  OBVIOUS
<1> QED
  BY <1>1, <1>3, <1>4, <1>5, <1>6

(* c more mails may come to m without more than the top, twice counted.    *)
Room(n, l, c, m, top) == 2 * (m + c) + Credit(n, l) <= top

LEMMA TodayArithmetic ==
    ASSUME NEW n \in Nat, NEW l \in Nat, NEW l1 \in Nat, l <= n, NEW c \in Nat, NEW c1 \in Nat,
           NEW m \in Int, NEW m1 \in Int, NEW top \in Int,
           Room(n, l, c, m, top),
           \/ l1 = l /\ m1 + c1 <= m + c
           \/ l = l1 + 1 /\ m1 + c1 <= m + c + (n - l1)
    PROVE  Room(n, l1, c1, m1, top)
<1>1. Credit(n, l1 + 1) = Credit(n, l1) + 2 * (n - l1)
  BY CreditOfOneMore
<1>2. PICK a \in Nat : a = Credit(n, l)
  BY CreditIsPositive
<1>3. CASE l1 = l /\ m1 + c1 <= m + c
  BY <1>2, <1>3 DEF Room
<1>4. CASE l = l1 + 1 /\ m1 + c1 <= m + c + (n - l1)
  <2>1. PICK b \in Nat : b = Credit(n, l1)
    BY <1>4, CreditIsPositive
  <2>2. a = b + 2 * (n - l1)
    BY <1>1, <1>2, <1>4, <2>1
  <2> QED
    BY <1>2, <1>4, <2>1, <2>2 DEF Room
<1> QED
  BY <1>3, <1>4

LEMMA HalfOf ==
    ASSUME NEW m \in Int, NEW b \in Nat, 2 * m <= b
    PROVE  m <= b \div 2
  OBVIOUS

-----------------------------------------------------------------------------
(* What may come (C) and what has come (m), before and after a step.       *)
NoMore(C, C1, m, m1, h) ==
    \/ m1 <= m /\ C1 \subseteq C
    \/ m1 = m + 1 /\ h \in C /\ C1 \subseteq C \ {h}
    \/ m1 = m - 1 /\ C1 \subseteq C \cup {h}

LEMMA NoMoreCounts ==
    ASSUME NEW C, NEW C1, NEW m \in Int, NEW m1 \in Int, NEW h, IsFiniteSet(C),
           NoMore(C, C1, m, m1, h)
    PROVE  /\ IsFiniteSet(C1) /\ Cardinality(C) \in Nat /\ Cardinality(C1) \in Nat
           /\ m1 + Cardinality(C1) <= m + Cardinality(C)
<1>1. IsFiniteSet(C \cup {h}) /\ Cardinality(C \cup {h}) <= Cardinality(C) + 1
  <2>1. /\ IsFiniteSet(C \cup {h})
        /\ Cardinality(C \cup {h}) = IF h \in C THEN Cardinality(C) ELSE Cardinality(C) + 1
    BY FS_AddElement
  <2> QED
    BY <2>1, FS_CardinalityType
<1>2. IsFiniteSet(C1)
  BY <1>1, FS_Subset DEF NoMore
<1>3. Cardinality(C) \in Nat /\ Cardinality(C1) \in Nat /\ Cardinality(C \cup {h}) \in Nat
  BY <1>1, <1>2, FS_CardinalityType
<1>4. PICK c \in Nat, c1 \in Nat, u \in Nat :
        c = Cardinality(C) /\ c1 = Cardinality(C1) /\ u = Cardinality(C \cup {h})
  BY <1>3
<1>5. m1 + c1 <= m + c
  <2>1. CASE m1 <= m /\ C1 \subseteq C
    <3>1. c1 <= c
      BY <1>4, <2>1, FS_Subset
    <3> QED
      BY <2>1, <3>1
  <2>2. CASE m1 = m + 1 /\ h \in C /\ C1 \subseteq C \ {h}
    <3>1. IsFiniteSet(C \ {h}) /\ Cardinality(C \ {h}) = c - 1
      BY <1>4, <2>2, FS_RemoveElement
    <3>2. c1 <= c - 1
      BY <1>4, <2>2, <3>1, FS_Subset
    <3> QED
      BY <2>2, <3>2
  <2>3. CASE m1 = m - 1 /\ C1 \subseteq C \cup {h}
    <3>1. c1 <= u /\ u <= c + 1
      BY <1>1, <1>4, <2>3, FS_Subset
    <3> QED
      BY <2>3, <3>1
  <2> QED
    BY <2>1, <2>2, <2>3 DEF NoMore
<1> QED
  BY <1>2, <1>3, <1>4, <1>5

(* A late job ends: the handlers that are not late may start one.          *)
LEMMA OneLateJobEnds ==
    ASSUME NEW C, NEW C1, NEW L, NEW crowd, NEW h \in L, IsFiniteSet(C), IsFiniteSet(crowd),
           L \subseteq crowd, C1 \subseteq C \cup (crowd \ (L \ {h}))
    PROVE  /\ IsFiniteSet(C1) /\ IsFiniteSet(L) /\ IsFiniteSet(L \ {h})
           /\ Cardinality(L) = Cardinality(L \ {h}) + 1
           /\ Cardinality(C1) <= Cardinality(C) + (Cardinality(crowd) - Cardinality(L \ {h}))
<1>1. PICK R, F, U : R = L \ {h} /\ F = crowd \ R /\ U = C \cup F
  OBVIOUS
<1>2. IsFiniteSet(L) /\ IsFiniteSet(R) /\ Cardinality(R) = Cardinality(L) - 1
  BY <1>1, FS_Subset, FS_RemoveElement
<1>3. /\ IsFiniteSet(F)
      /\ Cardinality(F) = Cardinality(crowd) - Cardinality(crowd \cap R)
  BY <1>1, <1>2, FS_Difference
<1>4. crowd \cap R = R
  BY <1>1
<1>5. /\ IsFiniteSet(U) /\ IsFiniteSet(C \cap F)
      /\ Cardinality(U) = Cardinality(C) + Cardinality(F) - Cardinality(C \cap F)
  BY <1>1, <1>3, FS_Union, FS_Intersection
<1>6. IsFiniteSet(C1) /\ Cardinality(C1) <= Cardinality(U)
  BY <1>1, <1>5, FS_Subset
<1>7. /\ Cardinality(L) \in Nat /\ Cardinality(R) \in Nat /\ Cardinality(crowd) \in Nat
      /\ Cardinality(C) \in Nat /\ Cardinality(F) \in Nat /\ Cardinality(U) \in Nat
      /\ Cardinality(C \cap F) \in Nat /\ Cardinality(C1) \in Nat
  BY <1>2, <1>3, <1>5, <1>6, FS_CardinalityType
<1>8. PICK l \in Nat, r \in Nat, n \in Nat, c \in Nat, f \in Nat, u \in Nat, i \in Nat, c1 \in Nat :
        /\ l = Cardinality(L) /\ r = Cardinality(R) /\ n = Cardinality(crowd)
        /\ c = Cardinality(C) /\ f = Cardinality(F) /\ u = Cardinality(U)
        /\ i = Cardinality(C \cap F) /\ c1 = Cardinality(C1)
  BY <1>7
<1>9. r = l - 1 /\ f = n - r /\ u = c + f - i /\ c1 <= u
  BY <1>2, <1>3, <1>4, <1>5, <1>6, <1>8
<1>10. l = r + 1 /\ c1 <= c + (n - r)
  BY <1>9
<1> QED
  BY <1>1, <1>2, <1>6, <1>8, <1>10

LEMMA JobSetsAreFinite ==
    ASSUME StatsTyped
    PROVE  /\ IsFiniteSet(Crowd) /\ Overlap = Cardinality(Crowd) /\ Overlap \in Nat
           /\ Overlap >= 1 /\ Late \subseteq Crowd /\ IsFiniteSet(Late)
           /\ Counted \subseteq Crowd /\ IsFiniteSet(Counted)
           /\ \A d : Working(d) \subseteq Crowd /\ IsFiniteSet(Working(d))
<1>1. IsFiniteSet(Crowd) /\ Overlap \in Nat /\ Overlap >= 1
  BY CrowdIsFinite DEF StatsTyped
<1>2. Late \subseteq Crowd /\ \A d : Working(d) \subseteq Crowd
  BY DEF Late, Working, StatsTyped
<1>3. Counted \subseteq Crowd
  BY <1>2 DEF Counted, Able
<1> QED
  BY <1>1, <1>2, <1>3, FS_Subset DEF Overlap

(* A handler goes on with request r, and the day stays.                    *)
LEMMA JobStep ==
    ASSUME StatsInv, NEW h \in Handlers, NEW r \in SRequest,
           sreq' = [sreq EXCEPT ![h] = r], load' = load, day' = day,
           r.step = "idle" \/ (h \in Crowd /\ r.day \in 1 .. day),
           lastSentDay' \in Days \cup {0}, lastSentDay' <= day,
           mails' \in [Days -> Int],
           \A d \in Days : d > day => mails'[d] = 0,
           \A d \in Days : d < day => NoMore(Working(d), Working(d)', mails[d], mails'[d], h),
           \/ Late' = Late /\ NoMore(Counted, Counted', mails[day], mails'[day], h)
           \/ /\ h \in Late /\ Late' = Late \ {h} /\ mails'[day] = mails[day]
              /\ Counted' \subseteq Counted \cup (Crowd \ Late')
    PROVE  StatsInv'
<1>1. /\ sreq'[h] = r /\ \A g \in Handlers : g # h => sreq'[g] = sreq[g]
      /\ Crowd' = Crowd /\ Overlap' = Overlap /\ StatsTyped
  BY DEF StatsInv, StatsTyped, Crowd, Overlap
<1>2. StatsTyped'
  <2>1. sreq' \in [Handlers -> SRequest] /\ load' \in Loads /\ day' \in Days
    BY <1>1 DEF StatsTyped
  <2>2. \A g \in Handlers : sreq'[g].step # "idle" => g \in Crowd' /\ sreq'[g].day \in 1 .. day'
    BY <1>1 DEF StatsTyped
  <2> QED
    BY <2>1, <2>2 DEF StatsTyped
<1>3. PICK top \in Nat : top = Overlap * (Overlap + 1)
  <2>1. \A n \in Nat : n * (n + 1) \in Nat
    OBVIOUS
  <2> QED
    BY <1>1, <2>1, JobSetsAreFinite
<1>4. ASSUME NEW d \in Days, d < day
      PROVE  2 * (mails'[d] + Cardinality(Working(d)')) <= top
  <2>1. PICK W, W1 : W = Working(d) /\ W1 = Working(d)'
    OBVIOUS
  <2>2. IsFiniteSet(W)
    BY <1>1, <2>1, JobSetsAreFinite
  <2>3. mails[d] \in Int /\ mails'[d] \in Int
    BY <1>1 DEF StatsTyped
  <2>4. NoMore(W, W1, mails[d], mails'[d], h)
    BY <1>4, <2>1
  <2>5. /\ Cardinality(W) \in Nat /\ Cardinality(W1) \in Nat
        /\ mails'[d] + Cardinality(W1) <= mails[d] + Cardinality(W)
    BY <2>2, <2>3, <2>4, NoMoreCounts
  <2>6. 2 * (mails[d] + Cardinality(W)) <= top
    BY <1>3, <1>4, <2>1 DEF StatsInv
  <2> QED
    BY <2>1, <2>3, <2>5, <2>6
<1>5. 2 * (mails'[day] + Cardinality(Counted')) + Credit(Overlap, Cardinality(Late')) <= top
  <2>1. PICK C, C1, L, L1 : C = Counted /\ C1 = Counted' /\ L = Late /\ L1 = Late'
    OBVIOUS
  <2>2. PICK m \in Int, m1 \in Int : m = mails[day] /\ m1 = mails'[day]
    BY <1>1 DEF StatsTyped
  <2>3. /\ IsFiniteSet(C) /\ IsFiniteSet(L) /\ L \subseteq Crowd
        /\ IsFiniteSet(Crowd) /\ Overlap = Cardinality(Crowd)
    BY <1>1, <2>1, JobSetsAreFinite
  <2>4. Cardinality(L) \in Nat /\ Cardinality(L) <= Overlap /\ Overlap \in Nat /\ Cardinality(C) \in Nat
    BY <2>3, FS_Subset, FS_CardinalityType
  <2>5. 2 * (m + Cardinality(C)) + Credit(Overlap, Cardinality(L)) <= top
    BY <1>3, <2>1, <2>2 DEF StatsInv
  <2>6. CASE L1 = L /\ NoMore(C, C1, m, m1, h)
    <3>1. Cardinality(C1) \in Nat /\ m1 + Cardinality(C1) <= m + Cardinality(C)
      BY <2>3, <2>6, NoMoreCounts
    <3>2. 2 * (m1 + Cardinality(C1)) + Credit(Overlap, Cardinality(L)) <= top
      <4>1. PICK n \in Nat, l \in Nat, c \in Nat, c1 \in Nat :
              n = Overlap /\ l = Cardinality(L) /\ c = Cardinality(C) /\ c1 = Cardinality(C1)
        BY <2>4, <3>1
      <4>2. l <= n /\ m1 + c1 <= m + c /\ Room(n, l, c, m, top)
        BY <2>4, <2>5, <3>1, <4>1 DEF Room
      <4>3. Room(n, l, c1, m1, top)
        BY <4>2, TodayArithmetic
      <4> QED
        BY <4>1, <4>3 DEF Room
    <3> QED
      BY <2>1, <2>2, <2>6, <3>2
  <2>7. CASE h \in L /\ L1 = L \ {h} /\ m1 = m /\ C1 \subseteq C \cup (Crowd \ L1)
    <3>1. /\ IsFiniteSet(C1) /\ IsFiniteSet(L1) /\ Cardinality(L) = Cardinality(L1) + 1
          /\ Cardinality(C1) <= Cardinality(C) + (Overlap - Cardinality(L1))
      BY <2>3, <2>7, OneLateJobEnds
    <3>2. Cardinality(C1) \in Nat /\ Cardinality(L1) \in Nat
      BY <3>1, FS_CardinalityType
    <3>3. m1 + Cardinality(C1) <= m + Cardinality(C) + (Overlap - Cardinality(L1))
      BY <2>4, <2>7, <3>1, <3>2
    <3>4. 2 * (m1 + Cardinality(C1)) + Credit(Overlap, Cardinality(L1)) <= top
      <4>1. PICK n \in Nat, l \in Nat, l1 \in Nat, c \in Nat, c1 \in Nat :
              /\ n = Overlap /\ l = Cardinality(L) /\ l1 = Cardinality(L1)
              /\ c = Cardinality(C) /\ c1 = Cardinality(C1)
        BY <2>4, <3>2
      <4>2. /\ l <= n /\ l = l1 + 1 /\ m1 + c1 <= m + c + (n - l1)
            /\ Room(n, l, c, m, top)
        BY <2>4, <2>5, <3>1, <3>3, <4>1 DEF Room
      <4>3. Room(n, l1, c1, m1, top)
        BY <4>2, TodayArithmetic
      <4> QED
        BY <4>1, <4>3 DEF Room
    <3> QED
      BY <2>1, <2>2, <3>4
  <2> QED
    BY <2>1, <2>2, <2>6, <2>7
<1> QED
  BY <1>1, <1>2, <1>3, <1>4, <1>5 DEF StatsInv
-----------------------------------------------------------------------------
LEMMA SIdleIsARequest == SIdle \in SRequest /\ SIdle.step = "idle"
  BY DEF SIdle, SRequest

LEMMA StatsInvInit == ASSUME StatsInit PROVE StatsInv
<1>1. /\ load \in Loads /\ day = 1 /\ lastSentDay = 0 /\ mails = [d \in Days |-> 0]
      /\ sreq = [h \in Handlers |-> SIdle] /\ MaxDays \in Nat /\ MaxDays >= 1
  BY DaysAssumption DEF StatsInit, LoadInit
<1>2. Days = 1 .. MaxDays
  BY DEF Days
<1>3. StatsTyped
  BY <1>1, <1>2, SIdleIsARequest DEF StatsTyped
<1>4. Late = {} /\ Counted = Crowd
  BY <1>1, SIdleIsARequest, CrowdIsFinite DEF Late, Counted, AlreadySent, Able, Working
<1>5. Cardinality({}) = 0
  BY FS_EmptySet
<1>6. 2 * (mails[day] + Cardinality(Counted)) + Credit(Overlap, Cardinality(Late))
        <= Overlap * (Overlap + 1)
  <2>1. PICK n \in Nat : n = Overlap /\ n = Cardinality(Crowd)
    BY <1>3, JobSetsAreFinite
  <2>2. 2 * n + Credit(n, 0) <= n * (n + 1)
    BY CreditOfAMorning
  <2>3. mails[day] = 0
    BY <1>1, <1>2
  <2> QED
    BY <1>4, <1>5, <2>1, <2>2, <2>3
<1> QED
  BY <1>1, <1>2, <1>3, <1>6 DEF StatsInv

(* The mark keeps the days that are over out of reach, so only a job of    *)
(* the day adds to its mails.                                              *)
LEMMA StatsInvJob ==
    ASSUME StatsInv, NEW h \in Handlers, StatsStep(h)
    PROVE  StatsInv'
<1>1. StatsTyped /\ sreq[h] \in SRequest /\ day \in Nat /\ Days \subseteq Nat
      /\ Crowd \subseteq Handlers
  BY CrowdIsFinite DEF StatsInv, StatsTyped, Days
<1>2. PICK q : q = sreq[h]
  OBVIOUS
<1>3. ASSUME NEW d, UNCHANGED <<day, load>>,
             \A g \in Handlers : g # h => sreq'[g] = sreq[g]
      PROVE  Working(d)' \subseteq Working(d) \cup {h}
  BY <1>3 DEF Working
<1>4. CASE StartJob(h)
  <2>1. PICK r : /\ r = [step |-> "count", day |-> day] /\ sreq' = [sreq EXCEPT ![h] = r]
                 /\ load' = load /\ day' = day /\ lastSentDay' = lastSentDay /\ mails' = mails
                 /\ h \in Crowd /\ q.step = "idle" /\ ~AlreadySent
    BY <1>2, <1>4 DEF StartJob
  <2>2. r \in SRequest /\ r.step = "count" /\ r.day = day /\ r.day \in 1 .. day
    BY <1>1, <2>1 DEF SRequest, StatsTyped, Days
  <2>3. sreq'[h] = r /\ \A g \in Handlers : g # h => sreq'[g] = sreq[g]
    BY <1>1, <2>1 DEF StatsTyped
  <2>4. \A d \in Days : d < day => Working(d)' \subseteq Working(d)
    BY <1>1, <2>2, <2>3 DEF Working
  <2>5. Late' = Late
    BY <1>1, <1>2, <2>1, <2>2, <2>3 DEF Late
  <2>6. Counted' \subseteq Counted
    BY <1>2, <2>1, <2>2, <2>3 DEF Counted, AlreadySent, Able, Working, Crowd
  <2>7. \A d \in Days : d > day => mails'[d] = 0
    BY <2>1 DEF StatsInv
  <2>8. \A d \in Days : d < day => NoMore(Working(d), Working(d)', mails[d], mails'[d], h)
    BY <1>1, <2>1, <2>4 DEF NoMore, StatsTyped
  <2>9. NoMore(Counted, Counted', mails[day], mails'[day], h)
    BY <1>1, <2>1, <2>6 DEF NoMore, StatsTyped
  <2> QED
    BY <1>1, <2>1, <2>2, <2>5, <2>7, <2>8, <2>9, JobStep DEF StatsTyped
<1>5. CASE CountAccounts(h)
  <2>1. PICK r : /\ r = [q EXCEPT !.step = "mail"] /\ sreq' = [sreq EXCEPT ![h] = r]
                 /\ load' = load /\ day' = day /\ lastSentDay' = lastSentDay /\ mails' = mails
                 /\ q.step = "count"
    BY <1>2, <1>5 DEF CountAccounts, SAt, SGoto
  <2>2. /\ r \in SRequest /\ r.step = "mail" /\ r.day = q.day /\ r.day \in 1 .. day
        /\ h \in Crowd
    BY <1>1, <1>2, <2>1 DEF SRequest, StatsTyped
  <2>3. sreq'[h] = r /\ \A g \in Handlers : g # h => sreq'[g] = sreq[g]
    BY <1>1, <2>1 DEF StatsTyped
  <2>4. \A d : Working(d)' = Working(d)
    BY <1>2, <2>1, <2>2, <2>3 DEF Working
  <2>5. Late' = Late
    BY <1>2, <2>1, <2>2, <2>3 DEF Late
  <2>6. Counted' = Counted
    <3>1. Working(day)' = Working(day)
      BY <1>2, <2>1, <2>2, <2>3 DEF Working
    <3>2. {g \in Crowd : sreq'[g].step = "idle"} = {g \in Crowd : sreq[g].step = "idle"}
      BY <1>1, <1>2, <2>1, <2>2, <2>3
    <3>3. Crowd' = Crowd /\ (AlreadySent' <=> AlreadySent)
      BY <2>1 DEF Crowd, AlreadySent
    <3> QED
      BY <3>1, <3>2, <3>3 DEF Counted, Able
  <2>7. \A d \in Days : d > day => mails'[d] = 0
    BY <2>1 DEF StatsInv
  <2>8. \A d \in Days : d < day => NoMore(Working(d), Working(d)', mails[d], mails'[d], h)
    BY <1>1, <2>1, <2>4 DEF NoMore, StatsTyped
  <2>9. NoMore(Counted, Counted', mails[day], mails'[day], h)
    BY <1>1, <2>1, <2>6 DEF NoMore, StatsTyped
  <2> QED
    BY <1>1, <2>1, <2>2, <2>5, <2>7, <2>8, <2>9, JobStep DEF StatsTyped
<1>6. CASE SendStats(h)
  <2>1. PICK r, e : /\ r = [q EXCEPT !.step = "mark"] /\ sreq' = [sreq EXCEPT ![h] = r]
                    /\ load' = load /\ day' = day /\ lastSentDay' = lastSentDay
                    /\ e = q.day /\ mails' = [mails EXCEPT ![e] = @ + 1] /\ q.step = "mail"
    BY <1>2, <1>6 DEF SendStats, SAt, SGoto
  <2>2. /\ r \in SRequest /\ r.step = "mark" /\ r.day = e /\ e \in 1 .. day
        /\ h \in Crowd /\ e \in Days
    BY <1>1, <1>2, <2>1 DEF SRequest, StatsTyped, Days
  <2>3. sreq'[h] = r /\ \A g \in Handlers : g # h => sreq'[g] = sreq[g]
    BY <1>1, <2>1 DEF StatsTyped
  <2>4. \A d : Working(d)' = Working(d) \ {h}
    BY <2>2, <2>3 DEF Working
  <2>5. Late' = Late
    BY <1>2, <2>1, <2>2, <2>3 DEF Late
  <2>6. /\ mails' \in [Days -> Int] /\ mails'[e] = mails[e] + 1
        /\ \A d \in Days : d # e => mails'[d] = mails[d]
    BY <1>1, <2>1, <2>2 DEF StatsTyped
  <2>7. \A d \in Days : d > day => mails'[d] = 0
    BY <1>1, <2>2, <2>6 DEF StatsInv
  <2>8. h \in Working(e)
    BY <1>2, <2>1 DEF Working
  <2>9. \A d \in Days : d < day => NoMore(Working(d), Working(d)', mails[d], mails'[d], h)
    BY <1>1, <2>4, <2>6, <2>8 DEF NoMore, StatsTyped
  <2>10. NoMore(Counted, Counted', mails[day], mails'[day], h)
    <3>1. Counted' \subseteq Counted \ {h}
      <4>1. Working(day)' = Working(day) \ {h}
        BY <2>1, <2>2, <2>3 DEF Working
      <4>2. {g \in Crowd : sreq'[g].step = "idle"} \subseteq
              {g \in Crowd : sreq[g].step = "idle"} \ {h}
        BY <1>1, <2>1, <2>2, <2>3
      <4>3. Crowd' = Crowd /\ (AlreadySent' <=> AlreadySent)
        BY <2>1 DEF Crowd, AlreadySent
      <4> QED
        BY <4>1, <4>2, <4>3 DEF Counted, Able
    <3>2. e = day => h \in Counted
      BY <2>8 DEF Counted, Able
    <3> QED
      BY <1>1, <2>6, <3>1, <3>2 DEF NoMore, StatsTyped
  <2> QED
    BY <1>1, <2>1, <2>2, <2>5, <2>6, <2>7, <2>9, <2>10, JobStep DEF StatsTyped
<1>7. CASE MarkDay(h)
  <2>1. PICK e : /\ sreq' = [sreq EXCEPT ![h] = SIdle] /\ load' = load /\ day' = day
                 /\ e = q.day /\ lastSentDay' = e /\ mails' = mails /\ q.step = "mark"
    BY <1>2, <1>7 DEF MarkDay, SAt, SFinish
  <2>2. e \in 1 .. day /\ h \in Crowd /\ e \in Days /\ e <= day /\ e \in Nat
    <3>1. e \in 1 .. day /\ h \in Crowd
      BY <1>1, <1>2, <2>1 DEF StatsTyped
    <3>2. day \in 1 .. MaxDays
      BY <1>1 DEF StatsTyped, Days
    <3> QED
      BY <1>1, <3>1, <3>2, DaysAssumption DEF Days
  <2>3. sreq'[h] = SIdle /\ \A g \in Handlers : g # h => sreq'[g] = sreq[g]
    BY <1>1, <2>1 DEF StatsTyped
  <2>4. \A d : Working(d)' = Working(d)
    <3>1. sreq[h].step \notin {"count", "mail"} /\ sreq'[h].step \notin {"count", "mail"}
      BY <1>2, <2>1, <2>3, SIdleIsARequest
    <3>2. \A g \in Handlers : g # h => sreq'[g] = sreq[g]
      BY <2>3
    <3> QED
      BY <3>1, <3>2 DEF Working
  <2>5. \A d \in Days : d > day => mails'[d] = 0
    BY <2>1 DEF StatsInv
  <2>6. \A d \in Days : d < day => NoMore(Working(d), Working(d)', mails[d], mails'[d], h)
    BY <1>1, <2>1, <2>4 DEF NoMore, StatsTyped
  <2>7. CASE e = day
    <3>1. Late' = Late
      <4>1. sreq[h].day = day /\ ~(day < day)
        BY <1>1, <1>2, <2>1, <2>7
      <4>2. h \notin Late /\ sreq'[h].step = "idle" /\ day' = day
        BY <2>1, <2>3, <4>1, SIdleIsARequest DEF Late
      <4> QED
        BY <2>3, <4>2 DEF Late
    <3>2. Counted' \subseteq Counted
      <4>1. Working(day)' = Working(day)
        BY <1>2, <2>1, <2>3, SIdleIsARequest DEF Working
      <4>2. AlreadySent'
        BY <2>1, <2>7 DEF AlreadySent
      <4> QED
        BY <4>1, <4>2 DEF Counted, Able
    <3>3. NoMore(Counted, Counted', mails[day], mails'[day], h)
      BY <1>1, <2>1, <3>2 DEF NoMore, StatsTyped
    <3> QED
      BY <1>1, <2>1, <2>2, <2>5, <2>6, <3>1, <3>3, SIdleIsARequest, JobStep DEF StatsTyped
  <2>8. CASE e < day
    <3>1. h \in Late /\ Late' = Late \ {h}
      BY <1>2, <2>1, <2>3, <2>8, SIdleIsARequest DEF Late
    <3>2. Counted' \subseteq Counted \cup (Crowd \ Late')
      <4>1. \A g \in Crowd : sreq'[g].step = "idle" => g \notin Late'
        BY DEF Late
      <4>2. Working(day) \subseteq Counted /\ Working(day)' = Working(day)
        <5>1. Working(day) \subseteq Counted
          BY DEF Counted, Able
        <5>2. Working(day)' = Working(day)
          BY <1>2, <2>1, <2>3, SIdleIsARequest DEF Working
        <5> QED
          BY <5>1, <5>2
      <4>3. Counted' \subseteq {g \in Crowd : sreq'[g].step = "idle"} \cup Working(day)
        BY <2>1, <2>4 DEF Counted, Able, Crowd
      <4> QED
        BY <4>1, <4>2, <4>3
    <3> QED
      BY <1>1, <2>1, <2>2, <2>5, <2>6, <3>1, <3>2, SIdleIsARequest, JobStep DEF StatsTyped
  <2> QED
    BY <1>1, <2>2, <2>7, <2>8
<1>8. CASE AbortJob(h)
  <2>1. PICK e : /\ sreq' = [sreq EXCEPT ![h] = SIdle] /\ load' = load /\ day' = day
                 /\ e = q.day /\ lastSentDay' = lastSentDay /\ q.step # "idle"
                 /\ mails' = IF q.step = "mark" THEN [mails EXCEPT ![e] = @ - 1] ELSE mails
    BY <1>2, <1>8 DEF AbortJob, SFinish
  <2>2. e \in 1 .. day /\ h \in Crowd /\ e \in Days /\ e <= day /\ e \in Nat
    <3>1. e \in 1 .. day /\ h \in Crowd
      BY <1>1, <1>2, <2>1 DEF StatsTyped
    <3>2. day \in 1 .. MaxDays
      BY <1>1 DEF StatsTyped, Days
    <3> QED
      BY <1>1, <3>1, <3>2, DaysAssumption DEF Days
  <2>3. sreq'[h] = SIdle /\ \A g \in Handlers : g # h => sreq'[g] = sreq[g]
    BY <1>1, <2>1 DEF StatsTyped
  <2>4. \A d : Working(d)' \subseteq Working(d)
    BY <2>3, SIdleIsARequest DEF Working
  <2>5. /\ mails' \in [Days -> Int]
        /\ \A d \in Days : d # e => mails'[d] = mails[d]
        /\ mails'[e] = IF q.step = "mark" THEN mails[e] - 1 ELSE mails[e]
    BY <1>1, <2>1, <2>2 DEF StatsTyped
  <2>6. \A d \in Days : d > day => mails'[d] = 0
    BY <1>1, <2>2, <2>5 DEF StatsInv
  <2>7. \A d \in Days : mails'[d] <= mails[d]
    BY <1>1, <2>5 DEF StatsTyped
  <2>8. \A d \in Days : d < day => NoMore(Working(d), Working(d)', mails[d], mails'[d], h)
    BY <2>4, <2>7 DEF NoMore
  <2>9. /\ {g \in Crowd : sreq'[g].step = "idle"} \subseteq
              {g \in Crowd : sreq[g].step = "idle"} \cup {h}
         /\ Crowd' = Crowd /\ (AlreadySent' <=> AlreadySent)
         /\ Working(day)' \subseteq Working(day)
    <3>1. Crowd' = Crowd /\ (AlreadySent' <=> AlreadySent)
      BY <2>1 DEF Crowd, AlreadySent
    <3>2. Working(day)' \subseteq Working(day)
      BY <2>1, <2>3, SIdleIsARequest DEF Working
    <3> QED
      BY <1>1, <2>3, <3>1, <3>2
  <2>10. CASE e = day
    <3>1. Late' = Late
      <4>1. sreq[h].day = day /\ ~(day < day)
        BY <1>1, <1>2, <2>1, <2>10
      <4>2. h \notin Late /\ sreq'[h].step = "idle" /\ day' = day
        BY <2>1, <2>3, <4>1, SIdleIsARequest DEF Late
      <4> QED
        BY <2>3, <4>2 DEF Late
    <3>2. CASE q.step = "mark"
      <4>1. Counted' \subseteq Counted \cup {h}
        BY <2>1, <2>4, <2>9 DEF Counted, AlreadySent, Able
      <4>2. mails'[day] = mails[day] - 1
        BY <2>5, <2>10, <3>2
      <4> QED
        BY <4>1, <4>2, <1>1, <2>1, <2>2, <2>5, <2>6, <2>8, <3>1, SIdleIsARequest, JobStep
        DEF StatsTyped, NoMore
    <3>3. CASE q.step # "mark"
      <4>1. h \in Working(day)
        BY <1>1, <1>2, <2>1, <2>10, <3>3 DEF Working, SRequest
      <4>2. Counted' \subseteq Counted
        BY <2>1, <2>4, <2>9, <4>1 DEF Counted, AlreadySent, Able
      <4>3. mails'[day] <= mails[day]
        BY <2>2, <2>7, <2>10
      <4> QED
        BY <4>2, <4>3, <1>1, <2>1, <2>2, <2>5, <2>6, <2>8, <3>1, SIdleIsARequest, JobStep
        DEF StatsTyped, NoMore
    <3> QED
      BY <3>2, <3>3
  <2>11. CASE e < day
    <3>1. h \in Late /\ Late' = Late \ {h}
      BY <1>2, <2>1, <2>3, <2>11, SIdleIsARequest DEF Late
    <3>2. Counted' \subseteq Counted \cup {h}
      BY <2>1, <2>4, <2>9 DEF Counted, AlreadySent, Able
    <3>3. mails'[day] = mails[day] /\ h \in Crowd \ Late'
      BY <1>1, <2>2, <2>5, <2>11, <3>1 DEF StatsTyped
    <3>4. Counted' \subseteq Counted \cup (Crowd \ Late')
      BY <3>2, <3>3
    <3> QED
      BY <1>1, <2>1, <2>2, <2>5, <2>6, <2>8, <3>1, <3>3, <3>4, SIdleIsARequest, JobStep
      DEF StatsTyped
  <2> QED
    BY <1>1, <2>2, <2>10, <2>11
<1> QED
  BY <1>4, <1>5, <1>6, <1>7, <1>8 DEF StatsStep

(* Midnight: whatever runs is late, and nothing has been mailed today.     *)
LEMMA StatsInvMidnight ==
    ASSUME StatsInv, NewDay
    PROVE  StatsInv'
<1>1. /\ MaxDays \in Nat /\ Days = 1 .. MaxDays /\ day \in Nat /\ day \in Days
      /\ lastSentDay \in Nat /\ lastSentDay <= day /\ StatsTyped
  BY DaysAssumption DEF StatsInv, StatsTyped, Days
<1>2. /\ day' = day + 1 /\ day < MaxDays /\ load' = load /\ lastSentDay' = lastSentDay
      /\ mails' = mails /\ sreq' = sreq /\ Crowd' = Crowd /\ Overlap' = Overlap
  BY DEF NewDay, Crowd, Overlap
<1>3. day' \in Days /\ day' \in Nat /\ 1 .. day \subseteq 1 .. day' /\ lastSentDay' < day'
  BY <1>1, <1>2
<1>4. StatsTyped'
  BY <1>1, <1>2, <1>3 DEF StatsTyped
<1>5. PICK top \in Nat, n \in Nat : top = n * (n + 1) /\ n = Overlap /\ n = Cardinality(Crowd)
  <2>1. \A k \in Nat : k * (k + 1) \in Nat
    OBVIOUS
  <2> QED
    BY <1>1, <2>1, JobSetsAreFinite
<1>6. mails'[day'] = 0 /\ \A d \in Days : d > day' => mails'[d] = 0
  BY <1>1, <1>2, <1>3 DEF StatsInv, Days
<1>7. ASSUME NEW d \in Days, d < day'
      PROVE  2 * (mails[d] + Cardinality(Working(d)')) <= top
  <2>1. Working(d)' = Working(d)
    BY <1>2 DEF Working
  <2>2. CASE d < day
    BY <1>5, <2>1, <2>2 DEF StatsInv
  <2>3. CASE d = day
    <3>1. PICK C, L, W : C = Counted /\ L = Late /\ W = Working(day)
      OBVIOUS
    <3>2. IsFiniteSet(C) /\ IsFiniteSet(L) /\ IsFiniteSet(Crowd) /\ L \subseteq Crowd /\ W \subseteq C
      BY <1>1, <3>1, JobSetsAreFinite DEF Counted, Able
    <3>3. Cardinality(W) <= Cardinality(C) /\ Cardinality(L) <= Cardinality(Crowd) /\ IsFiniteSet(W)
      BY <3>2, FS_Subset
    <3>4. PICK c \in Nat, l \in Nat, w \in Nat :
            c = Cardinality(C) /\ l = Cardinality(L) /\ w = Cardinality(W)
      BY <3>2, <3>3, FS_CardinalityType
    <3>5. PICK m \in Int : m = mails[day]
      BY <1>1 DEF StatsTyped
    <3>6. 2 * (m + c) + Credit(n, l) <= top
      BY <1>5, <3>1, <3>4, <3>5 DEF StatsInv
    <3>7. Credit(n, l) \in Nat /\ w <= c
      BY <1>5, <3>3, <3>4, CreditIsPositive
    <3>8. 2 * (m + w) <= top
      BY <3>6, <3>7
    <3> QED
      BY <2>1, <2>3, <3>1, <3>4, <3>5, <3>8
  <2> QED
    BY <1>1, <1>2, <1>7, <2>2, <2>3
<1>8. 2 * Cardinality(Counted') + Credit(n, Cardinality(Late')) <= top
  <2>1. PICK C, L, F : C = Counted' /\ L = Late' /\ F = Crowd \ L
    OBVIOUS
  <2>2. L \subseteq Crowd
    BY <1>1, <1>2, <2>1 DEF Late, StatsTyped
  <2>3. C \subseteq F
    <3>1. ASSUME NEW g \in Handlers, sreq[g].step # "idle" PROVE sreq[g].day < day'
      BY <1>1, <1>2, <3>1 DEF StatsTyped
    <3>2. ~AlreadySent'
      BY <1>1, <1>2, <1>3 DEF AlreadySent
    <3>3. C = {g \in Crowd : sreq[g].step = "idle"} \cup Working(day)'
      BY <1>2, <2>1, <3>2 DEF Counted, Able
    <3>4. Working(day)' = {}
      BY <1>1, <1>2, <3>1 DEF Working, StatsTyped
    <3> QED
      BY <1>2, <2>1, <3>3, <3>4 DEF Late
  <2>4. IsFiniteSet(Crowd) /\ IsFiniteSet(L) /\ IsFiniteSet(F) /\ IsFiniteSet(C)
    BY <1>1, <2>1, <2>2, <2>3, JobSetsAreFinite, FS_Subset
  <2>5. Cardinality(F) = Cardinality(Crowd) - Cardinality(Crowd \cap L) /\ Crowd \cap L = L
    BY <2>1, <2>2, <2>4, FS_Difference
  <2>6. Cardinality(C) <= Cardinality(F)
    BY <2>3, <2>4, FS_Subset
  <2>7. PICK i \in Nat, l \in Nat, f \in Nat :
          i = Cardinality(C) /\ l = Cardinality(L) /\ f = Cardinality(F)
    BY <2>4, FS_CardinalityType
  <2>8. f = n - l /\ i <= f
    BY <1>5, <2>5, <2>6, <2>7
  <2>9. 2 * i + Credit(n, l) <= top
    BY <1>5, <2>8, CreditOfAMorning
  <2> QED
    BY <2>1, <2>7, <2>9
<1>9. 2 * (mails'[day'] + Cardinality(Counted')) + Credit(n, Cardinality(Late')) <= top
  <2>1. IsFiniteSet(Counted')
    <3>1. Counted' \subseteq Crowd
      BY <1>2, <1>4 DEF Counted, Able, Working, StatsTyped
    <3> QED
      BY <1>1, <3>1, JobSetsAreFinite, FS_Subset
  <2>2. PICK i \in Nat : i = Cardinality(Counted')
    BY <2>1, FS_CardinalityType
  <2>3. mails'[day'] + i = i
    BY <1>6
  <2> QED
    BY <1>8, <2>2, <2>3
<1> QED
  BY <1>2, <1>4, <1>5, <1>6, <1>7, <1>9 DEF StatsInv

(* The process starts: no job runs, and none of its mails has been sent.   *)
LEMMA StatsInvRestart ==
    ASSUME StatsInv, Restart
    PROVE  StatsInv'
<1>1. /\ MaxDays \in Nat /\ Days = 1 .. MaxDays /\ day \in Nat /\ day \in Days /\ day >= 1
      /\ StatsTyped
  BY DaysAssumption DEF StatsInv, StatsTyped, Days
<1>2. /\ day' = day /\ load' = load /\ lastSentDay' = 0 /\ Crowd' = Crowd /\ Overlap' = Overlap
      /\ mails' = [d \in Days |-> 0] /\ sreq' = [h \in Handlers |-> SIdle]
  BY DEF Restart, Crowd, Overlap
<1>3. StatsTyped'
  BY <1>1, <1>2, SIdleIsARequest DEF StatsTyped
<1>4. /\ Late' = {} /\ Counted' = Crowd /\ \A d \in Days : Working(d)' = {}
  BY <1>1, <1>2, SIdleIsARequest, CrowdIsFinite
  DEF Late, Counted, AlreadySent, Able, Working, StatsTyped
<1>5. Cardinality({}) = 0
  BY FS_EmptySet
<1>6. PICK n \in Nat : n = Overlap /\ n = Cardinality(Crowd)
  BY <1>1, JobSetsAreFinite
<1>7. 2 * n + Credit(n, 0) <= n * (n + 1) /\ 0 <= n * (n + 1)
  <2>1. \A k \in Nat : k * (k + 1) \in Nat
    OBVIOUS
  <2> QED
    BY <2>1, CreditOfAMorning
<1>8. \A d \in Days : mails'[d] = 0
  BY <1>2
<1>9. 2 * (mails'[day'] + Cardinality(Counted')) + Credit(Overlap', Cardinality(Late'))
        <= Overlap' * (Overlap' + 1)
  BY <1>1, <1>2, <1>4, <1>5, <1>6, <1>7, <1>8
<1>10. \A d \in Days : 2 * (mails'[d] + Cardinality(Working(d)')) <= Overlap' * (Overlap' + 1)
  <2> SUFFICES ASSUME NEW d \in Days
               PROVE  2 * (mails'[d] + Cardinality(Working(d)')) <= Overlap' * (Overlap' + 1)
    OBVIOUS
  <2>1. Cardinality(Working(d)') = 0 /\ mails'[d] = 0 /\ Overlap' = n
    BY <1>2, <1>4, <1>5, <1>6, <1>8
  <2> QED
    BY <1>7, <2>1
<1> QED
  BY <1>3, <1>8, <1>9, <1>10 DEF StatsInv

LEMMA StatsInvNext ==
    ASSUME StatsInv, [StatsNext]_<<load, statsVars>>
    PROVE  StatsInv'
<1>1. CASE StatsNext
  BY <1>1, StatsInvJob, StatsInvMidnight, StatsInvRestart DEF StatsNext
<1>2. CASE UNCHANGED <<load, statsVars>>
  <2>1. /\ load' = load /\ day' = day /\ lastSentDay' = lastSentDay /\ mails' = mails
        /\ sreq' = sreq
    BY <1>2 DEF statsVars
  <2>2. /\ Crowd' = Crowd /\ Overlap' = Overlap /\ Late' = Late /\ Counted' = Counted
        /\ \A d : Working(d)' = Working(d)
    BY <2>1 DEF Crowd, Overlap, Late, Counted, AlreadySent, Able, Working
  <2>3. StatsTyped'
    BY <2>1, <2>2 DEF StatsInv, StatsTyped
  <2> QED
    BY <2>1, <2>2, <2>3 DEF StatsInv
<1> QED
  BY <1>1, <1>2

LEMMA StatsInvBounds == ASSUME StatsInv PROVE MailsPerDayBounded
<1>1. StatsTyped /\ day \in Nat /\ Days \subseteq Nat
  BY DEF StatsInv, StatsTyped, Days
<1>2. PICK top \in Nat : top = Overlap * (Overlap + 1)
  <2>1. \A k \in Nat : k * (k + 1) \in Nat
    OBVIOUS
  <2> QED
    BY <1>1, <2>1, JobSetsAreFinite
<1>3. ASSUME NEW d \in Days PROVE 2 * mails[d] <= top
  <2>1. PICK m \in Int : m = mails[d]
    BY <1>1 DEF StatsTyped
  <2>2. CASE d > day
    BY <2>2 DEF StatsInv
  <2>3. CASE d < day
    <3>1. PICK w \in Nat : w = Cardinality(Working(d))
      BY <1>1, JobSetsAreFinite, FS_CardinalityType
    <3>2. 2 * (m + w) <= top
      BY <1>2, <2>1, <2>3, <3>1 DEF StatsInv
    <3> QED
      BY <2>1, <3>2
  <2>4. CASE d = day
    <3>1. /\ IsFiniteSet(Counted) /\ IsFiniteSet(Late) /\ IsFiniteSet(Crowd)
          /\ Late \subseteq Crowd /\ Overlap = Cardinality(Crowd) /\ Overlap \in Nat
      BY <1>1, JobSetsAreFinite
    <3>2. PICK c \in Nat, l \in Nat : c = Cardinality(Counted) /\ l = Cardinality(Late)
      BY <3>1, FS_CardinalityType
    <3>3. l <= Overlap
      BY <3>1, <3>2, FS_Subset
    <3>4. Credit(Overlap, l) \in Nat
      BY <3>1, <3>3, CreditIsPositive
    <3>5. 2 * (m + c) + Credit(Overlap, l) <= top
      BY <1>2, <2>1, <2>4, <3>2 DEF StatsInv
    <3>6. 2 * m <= top
      BY <3>4, <3>5
    <3> QED
      BY <2>1, <3>6
  <2> QED
    BY <1>1, <2>2, <2>3, <2>4
<1>4. ASSUME NEW d \in Days PROVE mails[d] <= top \div 2
  BY <1>1, <1>3, HalfOf DEF StatsTyped
<1> QED
  BY <1>2, <1>4 DEF MailsPerDayBounded

(* The scheduler and the HTTP cron compare the day with a mark that is set *)
(* after the mail: n jobs at once send at most 1 + ... + n mails a day.    *)
THEOREM MailsStayBounded == StatsSpec => []MailsPerDayBounded
<1>1. StatsInit => StatsInv
  BY StatsInvInit
<1>2. StatsInv /\ [StatsNext]_<<load, statsVars>> => StatsInv'
  BY StatsInvNext
<1>3. StatsInv => MailsPerDayBounded
  BY StatsInvBounds
<1> QED
  BY <1>1, <1>2, <1>3, PTL DEF StatsSpec

-----------------------------------------------------------------------------
(* Recovery keys. *)

KeysTyped ==
    /\ load \in Loads
    /\ envelope \in MaybeEnvelope /\ newest \in MaybeEnvelope
    /\ kreq \in [Handlers -> KRequest]

(* What a handler still relies on when no other comes between: whatever    *)
(* went before...                                                          *)
Stored(h) == kreq[h].step = "mail" => envelope = kreq[h].new

(* ...and if nothing was lost.                                             *)
Halfway(h) ==
    /\ kreq[h].step \in {"store", "change password"} => envelope = newest
    /\ kreq[h].step \in {"store", "mail", "roll back"} => kreq[h].previous = newest

AllIdle == \A h \in Handlers : kreq[h].step = "idle"

RecoveryInv ==
    /\ KeysTyped
    /\ \A h \in Handlers : kreq[h].step # "idle" => h \in Crowd
    /\ Serial => \A h \in Handlers : Stored(h)
    /\ Serial /\ ~lost => (AllIdle => envelope = newest) /\ \A h \in Handlers : Halfway(h)

LEMMA KIdleIsARequest == KIdle \in KRequest /\ KIdle.step = "idle"
  BY DEF KIdle, KRequest, MaybeEnvelope

(* With one handler that serves, any other is idle.                        *)
LEMMA OneServes ==
    ASSUME RecoveryInv, Serial, NEW h \in Crowd, NEW g \in Handlers, g # h
    PROVE  kreq[g].step = "idle"
<1>1. IsFiniteSet(Crowd)
  BY HandlersAssumption, LoadsAssumption, FS_Subset DEF RecoveryInv, KeysTyped, Crowd
<1>2. \E x : Crowd = {x}
  BY <1>1, FS_Singleton DEF Serial, Overlap
<1> QED
  BY <1>2 DEF RecoveryInv

LEMMA RecoveryInvInit == ASSUME RecoveryInit PROVE RecoveryInv
<1>1. KeysTyped
  BY KIdleIsARequest DEF RecoveryInit, LoadInit, KeysTyped, MaybeEnvelope
<1>2. \A h \in Handlers : kreq[h].step = "idle"
  BY KIdleIsARequest DEF RecoveryInit
<1> QED
  BY <1>1, <1>2 DEF RecoveryInit, RecoveryInv, Stored, Halfway

-----------------------------------------------------------------------------
(* One handler moves to another step, or ends: what is left to show is     *)
(* about it alone.                                                         *)
LEMMA OneMoves ==
    ASSUME RecoveryInv, NEW h \in Handlers, NEW r \in KRequest,
           kreq' = [kreq EXCEPT ![h] = r], load' = load,
           envelope' \in MaybeEnvelope, newest' \in MaybeEnvelope,
           h \in Crowd,
           Serial => Stored(h)',
           Serial /\ ~lost' =>
             /\ r.step = "idle" => envelope' = newest'
             /\ Halfway(h)'
    PROVE  RecoveryInv'
<1>1. KeysTyped'
  BY DEF RecoveryInv, KeysTyped
<1>2. kreq'[h] = r /\ \A g \in Handlers : g # h => kreq'[g] = kreq[g]
  BY DEF RecoveryInv, KeysTyped
<1>3. Crowd' = Crowd /\ (Serial' <=> Serial)
  BY DEF Crowd, Serial, Overlap
<1>4. \A g \in Handlers : kreq'[g].step # "idle" => g \in Crowd'
  BY <1>2, <1>3 DEF RecoveryInv
<1>5. ASSUME Serial', ~lost'
      PROVE  (AllIdle => envelope = newest)' /\ \A g \in Handlers : Halfway(g)'
  <2>1. \A g \in Handlers : g # h => kreq'[g].step = "idle"
    BY <1>2, <1>3, <1>5, OneServes
  <2>2. \A g \in Handlers : g # h => Halfway(g)'
    BY <2>1 DEF Halfway
  <2> QED
    BY <1>2, <1>3, <1>5, <2>2 DEF AllIdle
<1>6. ASSUME Serial' PROVE \A g \in Handlers : Stored(g)'
  <2>1. \A g \in Handlers : g # h => kreq'[g].step = "idle"
    BY <1>2, <1>3, <1>6, OneServes
  <2> QED
    BY <1>3, <1>6, <2>1 DEF Stored
<1> QED
  BY <1>1, <1>4, <1>5, <1>6 DEF RecoveryInv

(* A request begins when no other handler serves.                          *)
LEMMA BeginsAgreed ==
    ASSUME RecoveryInv, NEW h \in Crowd, h \in Handlers, kreq[h].step = "idle", Serial, ~lost
    PROVE  envelope = newest
  BY OneServes DEF RecoveryInv, AllIdle

LEMMA AsksKeep ==
    ASSUME RecoveryInv, NEW h \in Handlers,
           (\E new \in Envelopes : PostRecoveryKey(h, new)) \/ ChangePassword(h)
    PROVE  RecoveryInv'
<1>1. CASE \E new \in Envelopes : PostRecoveryKey(h, new)
  <2> PICK new \in Envelopes : PostRecoveryKey(h, new)
    BY <1>1
  <2> DEFINE r == [step |-> "store", new |-> new, previous |-> envelope]
  <2>1. /\ kreq' = [kreq EXCEPT ![h] = r] /\ load' = load
        /\ envelope' = envelope /\ newest' = newest /\ lost' = lost
        /\ h \in Crowd /\ kreq[h].step = "idle"
    BY DEF PostRecoveryKey, KStart
  <2>2. r \in KRequest /\ r.step = "store" /\ r.previous = envelope
    BY DEF RecoveryInv, KeysTyped, KRequest, MaybeEnvelope
  <2> HIDE DEF r
  <2>3. kreq'[h] = r
    BY <2>1 DEF RecoveryInv, KeysTyped
  <2>4. Serial /\ ~lost' => (r.step = "idle" => envelope' = newest') /\ Halfway(h)'
    BY <2>1, <2>2, <2>3, BeginsAgreed DEF Halfway
  <2>5. envelope' \in MaybeEnvelope /\ newest' \in MaybeEnvelope
    BY <2>1 DEF RecoveryInv, KeysTyped
  <2>6. Stored(h)'
    BY <2>2, <2>3 DEF Stored
  <2> QED
    BY <2>1, <2>2, <2>4, <2>5, <2>6, OneMoves
<1>2. CASE ChangePassword(h)
  <2> DEFINE r == [KIdle EXCEPT !.step = "change password"]
  <2>1. /\ kreq' = [kreq EXCEPT ![h] = r] /\ load' = load
        /\ envelope' = envelope /\ newest' = newest /\ lost' = lost
        /\ h \in Crowd /\ kreq[h].step = "idle"
    BY <1>2 DEF ChangePassword, KStart
  <2>2. r \in KRequest /\ r.step = "change password"
    BY DEF KIdle, KRequest, MaybeEnvelope
  <2> HIDE DEF r
  <2>3. kreq'[h] = r
    BY <2>1 DEF RecoveryInv, KeysTyped
  <2>4. Serial /\ ~lost' => (r.step = "idle" => envelope' = newest') /\ Halfway(h)'
    BY <2>1, <2>2, <2>3, BeginsAgreed DEF Halfway
  <2>5. envelope' \in MaybeEnvelope /\ newest' \in MaybeEnvelope
    BY <2>1 DEF RecoveryInv, KeysTyped
  <2>6. Stored(h)'
    BY <2>2, <2>3 DEF Stored
  <2> QED
    BY <2>1, <2>2, <2>4, <2>5, <2>6, OneMoves
<1> QED
  BY <1>1, <1>2

LEMMA StepsKeep ==
    ASSUME RecoveryInv, NEW h \in Handlers, StoreEnvelope(h) \/ FailToMail(h)
    PROVE  RecoveryInv'
<1> DEFINE q == kreq[h]
           next == IF q.step = "store" THEN "mail" ELSE "roll back"
           r == [q EXCEPT !.step = next]
<1>1. /\ load' = load /\ newest' = newest /\ lost' = lost
      /\ kreq' = [kreq EXCEPT ![h].step = next]
      /\ \/ q.step = "store" /\ envelope' = q.new
         \/ q.step = "mail" /\ envelope' = envelope
  BY DEF StoreEnvelope, FailToMail, KAt, KGoto
<1>2. /\ q.step = "store" => next = "mail"
      /\ q.step = "mail" => next = "roll back"
      /\ next \in {"mail", "roll back"}
  OBVIOUS
<1>3. q \in KRequest /\ h \in Crowd
  BY <1>1 DEF RecoveryInv, KeysTyped
<1> HIDE DEF next, q
<1>4. r \in KRequest /\ r.step = next /\ r.new = q.new /\ r.previous = q.previous
  BY <1>2, <1>3 DEF KRequest
<1>5. kreq' = [kreq EXCEPT ![h] = r]
  BY <1>1 DEF q
<1> HIDE DEF r
<1>6. kreq'[h] = r
  BY <1>5 DEF RecoveryInv, KeysTyped
<1>7. Serial /\ ~lost' => Halfway(h)'
  BY <1>1, <1>2, <1>4, <1>6 DEF RecoveryInv, Halfway, q
<1>8. envelope' \in MaybeEnvelope /\ newest' \in MaybeEnvelope
  BY <1>1, <1>3 DEF RecoveryInv, KeysTyped, KRequest
<1>9. Stored(h)'
  BY <1>1, <1>2, <1>4, <1>6 DEF Stored
<1> QED
  BY <1>1, <1>2, <1>3, <1>4, <1>5, <1>7, <1>8, <1>9, OneMoves

LEMMA EndsKeep ==
    ASSUME RecoveryInv, NEW h \in Handlers,
           \/ MailCode(h) \/ MailTimesOut(h) \/ RollBack(h) \/ ClearEnvelope(h)
           \/ AbortRecovery(h)
    PROVE  RecoveryInv'
<1>1. load' = load /\ kreq' = [kreq EXCEPT ![h] = KIdle] /\ kreq[h].step # "idle"
  BY DEF MailCode, MailTimesOut, RollBack, ClearEnvelope, AbortRecovery, KAt, KFinish
<1>2. kreq[h] \in KRequest /\ h \in Crowd
  BY <1>1 DEF RecoveryInv, KeysTyped
<1>3. \/ kreq[h].step = "mail" /\ envelope' = envelope /\ newest' = kreq[h].new
      \/ /\ kreq[h].step = "roll back" /\ envelope' = kreq[h].previous
         /\ newest' = newest /\ lost' = lost
      \/ envelope' = Null /\ newest' = Null
      \/ /\ envelope' = envelope /\ newest' = newest /\ (lost => lost')
         /\ kreq[h].step \in {"mail", "roll back"} => lost'
  <2>1. CASE MailCode(h)
    BY <2>1, Zenon DEF MailCode, KAt
  <2>2. CASE MailTimesOut(h)
    BY <2>2, Zenon DEF MailTimesOut, KAt
  <2>3. CASE RollBack(h)
    BY <2>3, Zenon DEF RollBack, KAt
  <2>4. CASE ClearEnvelope(h)
    BY <2>4, Zenon DEF ClearEnvelope
  <2>5. CASE AbortRecovery(h)
    BY <2>5, Zenon DEF AbortRecovery
  <2> QED
    BY <2>1, <2>2, <2>3, <2>4, <2>5
<1>4. kreq'[h] = KIdle
  BY <1>1 DEF RecoveryInv, KeysTyped
<1>5. ASSUME Serial, ~lost' PROVE envelope' = newest'
  <2>1. CASE kreq[h].step = "mail" /\ envelope' = envelope /\ newest' = kreq[h].new
    BY <1>5, <2>1 DEF RecoveryInv, Stored
  <2>2. CASE /\ kreq[h].step = "roll back" /\ envelope' = kreq[h].previous
             /\ newest' = newest /\ lost' = lost
    BY <1>5, <2>2 DEF RecoveryInv, Halfway
  <2>3. CASE /\ envelope' = envelope /\ newest' = newest /\ (lost => lost')
             /\ kreq[h].step \in {"mail", "roll back"} => lost'
    <3>1. ~lost /\ ~(kreq[h].step \in {"mail", "roll back"})
      BY <1>5, <2>3, Zenon
    <3>2. kreq[h].step \in {"store", "change password"}
      BY <1>1, <1>2, <3>1 DEF KRequest
    <3>3. Halfway(h)
      BY <1>5, <3>1 DEF RecoveryInv
    <3> QED
      BY <2>3, <3>2, <3>3 DEF Halfway
  <2> QED
    BY <1>3, <2>1, <2>2, <2>3
<1>6. Halfway(h)' /\ Stored(h)'
  BY <1>4, KIdleIsARequest DEF Halfway, Stored
<1>7. envelope' \in MaybeEnvelope /\ newest' \in MaybeEnvelope
  BY <1>2, <1>3 DEF RecoveryInv, KeysTyped, KRequest, MaybeEnvelope
<1>8. /\ Serial => Stored(h)'
      /\ Serial /\ ~lost' => (KIdle.step = "idle" => envelope' = newest') /\ Halfway(h)'
  BY <1>5, <1>6, Zenon
<1> QED
  BY <1>1, <1>2, <1>7, <1>8, KIdleIsARequest, OneMoves

LEMMA RecoveryInvNext ==
    ASSUME RecoveryInv, [RecoveryNext]_<<load, recoveryVars>>
    PROVE  RecoveryInv'
<1>1. CASE RecoveryNext
  <2> PICK h \in Handlers : RecoveryStep(h)
    BY <1>1 DEF RecoveryNext
  <2> QED
    BY AsksKeep, StepsKeep, EndsKeep DEF RecoveryStep
<1>2. CASE UNCHANGED <<load, recoveryVars>>
  BY <1>2 DEF recoveryVars, RecoveryInv, KeysTyped, Crowd, Serial, Overlap, Stored, Halfway,
              AllIdle
<1> QED
  BY <1>1, <1>2

LEMMA InvShowsKept == ASSUME RecoveryInv PROVE RefusedCodeIsNotKept
  BY DEF RecoveryInv, RefusedCodeIsNotKept, AllIdle

(* POST /user/recovery-key stores the envelope before its code is mailed   *)
(* and takes it back if it is told that the mail failed: while requests    *)
(* come one at a time, what is stored is the envelope of the newest mail   *)
(* that was not refused.  A crash between the two spoils this until the    *)
(* next mail that is not refused, and no longer.                           *)
THEOREM RefusedCodesAreTakenBack == RecoverySpec => []RefusedCodeIsNotKept
<1>1. RecoveryInit => RecoveryInv
  BY RecoveryInvInit
<1>2. RecoveryInv /\ [RecoveryNext]_<<load, recoveryVars>> => RecoveryInv'
  BY RecoveryInvNext
<1>3. RecoveryInv => RefusedCodeIsNotKept
  BY InvShowsKept
<1> QED
  BY <1>1, <1>2, <1>3, PTL DEF RecoverySpec

-----------------------------------------------------------------------------
(* Rate limits. *)

(* A bucket that an attempt has made. *)
Made == [count : Nat, windowStart : Nat, lockedUntil : Nat]
LimitsTyped ==
    /\ now \in Nat
    /\ buckets \in [Maps -> Made \cup {NoBucket}]
    /\ unpruned \in [Maps -> Made \cup {NoBucket}]

(* A bucket that no longer counts: the next attempt starts a new window.   *)
Stale(b, limit) ==
    b \in Made /\ now - b.windowStart >= limit.window /\ b.lockedUntil <= now

(* Two buckets that differ in a lock which is over.                        *)
Alike(a, b) ==
    /\ a \in Made /\ b \in Made
    /\ a.count = b.count /\ a.windowStart = b.windowStart
    /\ a.lockedUntil <= now /\ b.lockedUntil <= now

(* What a bucket may be in the place of the one that was never removed.    *)
Stands(a, b, limit) ==
    \/ a = b
    \/ a = NoBucket /\ Stale(b, limit)
    \/ Alike(a, b)

LimitsInv ==
    /\ LimitsTyped
    /\ \A l \in Maps : Stands(buckets[l], unpruned[l], Limits[l])

LEMMA NoBucketIsNone == NoBucket \notin Made
  BY DEF NoBucket, Made

LEMMA BucketIsMade ==
    ASSUME now \in Nat, NEW b \in Made \cup {NoBucket}
    PROVE  Bucket(b) \in Made /\ (b \in Made => Bucket(b) = b)
  BY NoBucketIsNone DEF Bucket, Made, NoBucket

(* An attempt leaves a bucket, and buckets that stand for each other.      *)
LEMMA ConsumedIsMade ==
    ASSUME now \in Nat, NEW b \in Made, NEW l \in Maps
    PROVE  Consumed(b, Limits[l]) \in Made
<1> DEFINE w == Windowed(b, Limits[l])
<1>1. w \in Made /\ Limits[l].lock \in Nat
  BY LimitsAssumption DEF Windowed, Made, Maps
<1> HIDE DEF w
<1>2. [w EXCEPT !.count = @ + 1] \in Made
  BY <1>1 DEF Made
<1>3. [w EXCEPT !.lockedUntil = now + Limits[l].lock] \in Made
  BY <1>1 DEF Made
<1> QED
  BY <1>1, <1>2, <1>3 DEF Consumed, w

LEMMA AttemptsOnAlike ==
    ASSUME now \in Nat, NEW l \in Maps, NEW a \in Made, NEW b \in Made,
           Alike(a, b) \/ (a = Bucket(NoBucket) /\ Stale(b, Limits[l]))
    PROVE  /\ Allowed(a, Limits[l]) = Allowed(b, Limits[l])
           /\ \/ Consumed(a, Limits[l]) = Consumed(b, Limits[l])
              \/ Alike(Consumed(a, Limits[l]), Consumed(b, Limits[l]))
<1> DEFINE limit == Limits[l]
           wa == Windowed(a, limit)
           wb == Windowed(b, limit)
<1>1. limit.max \in Nat /\ limit.window \in Nat /\ limit.lock \in Nat
  BY LimitsAssumption DEF Maps
<1>2. ~Locked(a) /\ ~Locked(b)
  BY DEF Locked, Alike, Stale, Made, Bucket, NoBucket
<1>3. Alike(wa, wb)
  <2>1. CASE Alike(a, b)
    BY <1>1, <2>1 DEF Alike, Windowed, Made
  <2>2. CASE a = Bucket(NoBucket) /\ Stale(b, limit)
    <3>1. a = [count |-> 0, windowStart |-> now, lockedUntil |-> 0]
      BY <2>2 DEF Bucket
    <3>2. wa = [count |-> 0, windowStart |-> now, lockedUntil |-> 0]
      BY <1>1, <3>1 DEF Windowed
    <3>3. wb = [count |-> 0, windowStart |-> now, lockedUntil |-> b.lockedUntil]
      BY <2>2 DEF Windowed, Stale, Made
    <3>4. b.lockedUntil \in Nat /\ b.lockedUntil <= now
      BY <2>2 DEF Stale, Made
    <3> HIDE DEF wa, wb
    <3> QED
      BY <3>2, <3>3, <3>4 DEF Alike, Made
  <2> QED
    BY <2>1, <2>2
<1>4. Allowed(a, limit) = (wa.count < limit.max) /\ Allowed(b, limit) = (wb.count < limit.max)
  BY <1>2 DEF Allowed
<1>5. CASE wa.count < limit.max
  <2>1. /\ Consumed(a, limit) = [wa EXCEPT !.count = @ + 1]
        /\ Consumed(b, limit) = [wb EXCEPT !.count = @ + 1]
    BY <1>2, <1>3, <1>4, <1>5 DEF Consumed, Alike
  <2> HIDE DEF wa, wb
  <2>2. Alike(Consumed(a, limit), Consumed(b, limit))
    BY <1>3, <2>1 DEF Alike, Made
  <2> QED
    BY <1>3, <1>4, <2>2 DEF Alike
<1>6. CASE ~(wa.count < limit.max) /\ limit.lock > 0
  <2>1. /\ Consumed(a, limit) = [wa EXCEPT !.lockedUntil = now + limit.lock]
        /\ Consumed(b, limit) = [wb EXCEPT !.lockedUntil = now + limit.lock]
    BY <1>2, <1>3, <1>4, <1>6 DEF Consumed, Alike
  <2> HIDE DEF wa, wb
  <2>2. Consumed(a, limit) = Consumed(b, limit)
    BY <1>3, <2>1 DEF Alike, Made
  <2> QED
    BY <1>3, <1>4, <2>2 DEF Alike
<1>7. CASE ~(wa.count < limit.max) /\ ~(limit.lock > 0)
  <2>1. Consumed(a, limit) = wa /\ Consumed(b, limit) = wb
    BY <1>2, <1>3, <1>4, <1>7 DEF Consumed, Alike
  <2> QED
    BY <1>3, <1>4, <2>1 DEF Alike
<1> QED
  BY <1>5, <1>6, <1>7

LEMMA LimitsInvInit == ASSUME LimitsInit PROVE LimitsInv
  BY DEF LimitsInit, LimitsInv, LimitsTyped, Stands

LEMMA ConsumeKeeps ==
    ASSUME LimitsInv, NEW l \in Maps, ConsumeRateLimitAttempt(l)
    PROVE  LimitsInv'
<1> DEFINE a == Bucket(buckets[l])
           b == Bucket(unpruned[l])
           limit == Limits[l]
<1>1. now \in Nat /\ now' = now /\ a \in Made /\ b \in Made
  BY BucketIsMade DEF LimitsInv, LimitsTyped, ConsumeRateLimitAttempt
<1>2. /\ buckets' = [buckets EXCEPT ![l] = Consumed(a, limit)]
      /\ unpruned' = [unpruned EXCEPT ![l] = Consumed(b, limit)]
  BY DEF ConsumeRateLimitAttempt
<1>3. a = b \/ Alike(a, b) \/ (a = Bucket(NoBucket) /\ Stale(b, limit))
  BY BucketIsMade DEF LimitsInv, LimitsTyped, Stands, Alike, Stale
<1> HIDE DEF a, b
<1>4. Consumed(a, limit) \in Made /\ Consumed(b, limit) \in Made
  BY <1>1, ConsumedIsMade
<1>5. Consumed(a, limit) = Consumed(b, limit) \/ Alike(Consumed(a, limit), Consumed(b, limit))
  BY <1>1, <1>3, AttemptsOnAlike
<1>6. LimitsTyped'
  BY <1>1, <1>2, <1>4 DEF LimitsInv, LimitsTyped
<1>7. ASSUME NEW k \in Maps PROVE Stands(buckets[k], unpruned[k], Limits[k])'
  <2>1. CASE k = l
    BY <1>1, <1>2, <1>5, <2>1 DEF LimitsInv, LimitsTyped, Stands, Alike
  <2>2. CASE k # l
    BY <1>1, <1>2, <2>2 DEF LimitsInv, LimitsTyped, Stands, Alike, Stale
  <2> QED
    BY <2>1, <2>2
<1> QED
  BY <1>6, <1>7 DEF LimitsInv

LEMMA PruneKeeps ==
    ASSUME LimitsInv, PruneRateLimitBuckets
    PROVE  LimitsInv'
<1>1. LimitsTyped'
  BY DEF LimitsInv, LimitsTyped, PruneRateLimitBuckets
<1>2. ASSUME NEW k \in Maps PROVE Stands(buckets[k], unpruned[k], Limits[k])'
  <2>1. /\ buckets'[k] = IF Prunable(buckets[k], Limits[k]) THEN NoBucket ELSE buckets[k]
        /\ unpruned' = unpruned /\ now' = now /\ now \in Nat
        /\ Stands(buckets[k], unpruned[k], Limits[k])
        /\ buckets[k] \in Made \cup {NoBucket} /\ Limits[k].window \in Nat
    BY LimitsAssumption DEF LimitsInv, LimitsTyped, PruneRateLimitBuckets, Maps
  <2>2. CASE buckets[k] = NoBucket \/ ~Prunable(buckets[k], Limits[k])
    BY <2>1, <2>2 DEF Stands, Alike, Stale
  <2>3. CASE buckets[k] \in Made /\ Prunable(buckets[k], Limits[k])
    <3>1. Stale(unpruned[k], Limits[k])
      BY <2>1, <2>3, NoBucketIsNone
      DEF Stands, Stale, Alike, Prunable, Expired, Unlocked, Made
    <3> QED
      BY <2>1, <2>3, <3>1 DEF Stands, Stale
  <2> QED
    BY <2>1, <2>2, <2>3
<1> QED
  BY <1>1, <1>2 DEF LimitsInv

LEMMA PassKeeps ==
    ASSUME LimitsInv, Pass
    PROVE  LimitsInv'
<1>1. now \in Nat /\ now' = now + 1 /\ buckets' = buckets /\ unpruned' = unpruned
  BY DEF LimitsInv, LimitsTyped, Pass
<1>2. LimitsTyped'
  BY <1>1 DEF LimitsInv, LimitsTyped
<1>3. ASSUME NEW k \in Maps PROVE Stands(buckets[k], unpruned[k], Limits[k])'
  <2>1. Stands(buckets[k], unpruned[k], Limits[k]) /\ Limits[k].window \in Nat
    BY LimitsAssumption DEF LimitsInv, Maps
  <2> QED
    BY <1>1, <2>1 DEF Stands, Stale, Alike, Made
<1> QED
  BY <1>2, <1>3 DEF LimitsInv

LEMMA RestartKeeps ==
    ASSUME LimitsInv, RestartLimits
    PROVE  LimitsInv'
  BY DEF LimitsInv, LimitsTyped, RestartLimits, Stands

LEMMA InvShowsIt ==
    ASSUME LimitsInv
    PROVE  PruningIsInvisible
<1> SUFFICES ASSUME NEW l \in Maps
             PROVE  Allowed(Bucket(buckets[l]), Limits[l]) = Allowed(Bucket(unpruned[l]), Limits[l])
  BY DEF PruningIsInvisible
<1> DEFINE a == Bucket(buckets[l])
           b == Bucket(unpruned[l])
<1>1. now \in Nat /\ a \in Made /\ b \in Made
  BY BucketIsMade DEF LimitsInv, LimitsTyped
<1>2. a = b \/ Alike(a, b) \/ (a = Bucket(NoBucket) /\ Stale(b, Limits[l]))
  BY BucketIsMade DEF LimitsInv, LimitsTyped, Stands, Alike, Stale
<1> HIDE DEF a, b
<1>3. Allowed(a, Limits[l]) = Allowed(b, Limits[l])
  BY <1>1, <1>2, AttemptsOnAlike
<1> QED
  BY <1>3 DEF a, b

(* The cleanup of otpRateLimit.js never lets an attempt pass that would be *)
(* refused without it, nor the other way round.                            *)
THEOREM CleanupIsInvisible == LimitsSpec => []PruningIsInvisible
<1>1. LimitsInit => LimitsInv
  BY LimitsInvInit
<1>2. LimitsInv /\ [LimitsNext]_<<load, limitVars>> => LimitsInv'
  <2> SUFFICES ASSUME LimitsInv, [LimitsNext]_<<load, limitVars>>
               PROVE  LimitsInv'
    OBVIOUS
  <2>1. CASE \E l \in Maps : ConsumeRateLimitAttempt(l)
    BY <2>1, ConsumeKeeps
  <2>2. CASE PruneRateLimitBuckets
    BY <2>2, PruneKeeps
  <2>3. CASE Pass
    BY <2>3, PassKeeps
  <2>4. CASE RestartLimits
    BY <2>4, RestartKeeps
  <2>5. CASE UNCHANGED <<load, limitVars>>
    BY <2>5 DEF LimitsInv, LimitsTyped, limitVars, Stands, Stale, Alike
  <2> QED
    BY <2>1, <2>2, <2>3, <2>4, <2>5 DEF LimitsNext
<1>3. LimitsInv => PruningIsInvisible
  BY InvShowsIt
<1> QED
  BY <1>1, <1>2, <1>3, PTL DEF LimitsSpec

-----------------------------------------------------------------------------
(* The services side by side. *)

(* No request changes the load. *)
LEMMA ThreadsKeepTheLoad == ASSUME ThreadsNext PROVE load' = load
<1> PICK h \in Handlers : ThreadStep(h)
  BY DEF ThreadsNext
<1>1. CASE ChannelStep(h)
  BY <1>1 DEF ChannelStep, OpenChannel, OpenTopic, CheckKeys, CreateThread, CommitThread,
              AbortThread, TStart, TAt
<1>2. CASE MessageStep(h)
  BY <1>2 DEF MessageStep, Notify, AddSystemMessage, AddMessage, CommitMessage,
              MarkThreadAsRead, TStart, TAt
<1>3. CASE KeyStep(h)
  BY <1>3 DEF KeyStep, SyncFamilyThreadKey, CreateKey, ParentJoins, ParentMoves,
              DeleteOwnAccount, DeleteChild, TStart, TAt
<1> QED
  BY <1>1, <1>2, <1>3 DEF ThreadStep

LEMMA OthersKeepTheLoad ==
    ASSUME MarksNext \/ DocumentsNext \/ RecoveryNext \/ StatsNext \/ LimitsNext
    PROVE  load' = load
<1>1. CASE MarksNext
  BY <1>1 DEF MarksNext, MarkStep, SetMessageReaction, ReadReaction, DeleteReaction,
              UpsertReaction, SetMessageTags, DeleteTags, InsertTags, DropTags, AbortMark,
              MStart, MAt
<1>2. CASE DocumentsNext
  BY <1>2 DEF DocumentsNext, DocumentStep, CreateDocument, CheckQuota, InsertDocument,
              AskDeleteDocument, DeleteDocument, AbortDocument, DStart, DAt
<1>3. CASE RecoveryNext
  BY <1>3 DEF RecoveryNext, RecoveryStep, PostRecoveryKey, StoreEnvelope, MailCode, MailTimesOut,
              FailToMail, RollBack, ChangePassword, ClearEnvelope, AbortRecovery, KStart, KAt
<1>4. CASE StatsNext
  BY <1>4 DEF StatsNext, StatsStep, StartJob, CountAccounts, SendStats, MarkDay, AbortJob,
              NewDay, Restart, SAt
<1>5. CASE LimitsNext
  BY <1>5 DEF LimitsNext, ConsumeRateLimitAttempt, PruneRateLimitBuckets, Pass, RestartLimits
<1> QED
  BY <1>1, <1>2, <1>3, <1>4, <1>5

(* A step of the services is a step of each of them, or it stands still.   *)
LEMMA EachServiceSteps ==
    ASSUME [ServicesNext]_serviceVars
    PROVE  /\ [ThreadsNext]_<<load, threadVars>>
           /\ [MarksNext]_<<load, markVars>>
           /\ [DocumentsNext]_<<load, documentVars>>
           /\ [RecoveryNext]_<<load, recoveryVars>>
           /\ [StatsNext]_<<load, statsVars>>
           /\ [LimitsNext]_<<load, limitVars>>
<1>1. CASE UNCHANGED serviceVars
  BY <1>1 DEF serviceVars
<1>2. CASE ServicesNext
  <2>1. load' = load
    BY <1>2, ThreadsKeepTheLoad, OthersKeepTheLoad DEF ServicesNext
  <2> QED
    BY <1>2, <2>1 DEF ServicesNext
<1> QED
  BY <1>1, <1>2

(* The services share the handlers and no table: side by side, as they are *)
(* in one process, each is the service it is alone.                        *)
THEOREM EachServiceIsItself ==
    ServicesSpec => /\ ThreadsSpec /\ MarksSpec /\ DocumentsSpec
                    /\ RecoverySpec /\ StatsSpec /\ LimitsSpec
<1>1. ServicesInit => /\ ThreadsInit /\ MarksInit /\ DocumentsInit
                      /\ RecoveryInit /\ StatsInit /\ LimitsInit
  BY DEF ServicesInit
<1>2. [ServicesNext]_serviceVars =>
           /\ [ThreadsNext]_<<load, threadVars>>
           /\ [MarksNext]_<<load, markVars>>
           /\ [DocumentsNext]_<<load, documentVars>>
           /\ [RecoveryNext]_<<load, recoveryVars>>
           /\ [StatsNext]_<<load, statsVars>>
           /\ [LimitsNext]_<<load, limitVars>>
  BY EachServiceSteps
<1> QED
  BY <1>1, <1>2, PTL
  DEF ServicesSpec, ThreadsSpec, MarksSpec, DocumentsSpec, RecoverySpec, StatsSpec, LimitsSpec

(* So what is proved of each holds of all of them at once, with the load   *)
(* of a behaviour as its only input.                                       *)
THEOREM ServicesKeepTheirPromises ==
    ServicesSpec => [](/\ ChannelsBounded /\ NewestActivity /\ NoKeyOutlivesItsAccount
                       /\ ReactionsToggle /\ TagsBounded /\ DocumentsBounded
                       /\ RefusedCodeIsNotKept /\ MailsPerDayBounded /\ PruningIsInvisible)
  BY EachServiceIsItself, ChannelsStayBounded, ActivityIsAStamp, KeysEndWithTheAccount,
     TapsToggle, TagsStayBounded, UploadsStayBounded, RefusedCodesAreTakenBack,
     MailsStayBounded, CleanupIsInvisible, PTL
=============================================================================
