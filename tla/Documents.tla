------------------------------ MODULE Documents ------------------------------
(***************************************************************************)
(* The documents of one family and their quota (services/documents.js).    *)
(* A document is its size, its uploader and whether it is private; the     *)
(* sizes are scaled so that a small number of documents fills the storage. *)
(***************************************************************************)
EXTENDS Load

CONSTANTS
    Docs,           \* bound: rows of Document
    Uploaders,      \* the parents of the family
    CountLimit,     \* WORKSPACE_DOCUMENT_COUNT_LIMIT
    StorageLimit,   \* WORKSPACE_DOCUMENT_STORAGE_LIMIT_BYTES
    MaxSize         \* the largest sizeBytes: MAX_DOCUMENT_BYTES and a little, as the
                    \* route's check takes padding off twice if there is too much

ASSUME DocumentsAssumption ==
    /\ IsFiniteSet(Docs) /\ Null \notin Docs \cup Uploaders
    /\ CountLimit \in Nat \ {0} /\ StorageLimit \in Nat /\ MaxSize \in Nat

VARIABLES
    documents,  \* table Document
    dreq        \* what each handler is doing

documentVars == <<documents, dreq>>

-----------------------------------------------------------------------------
Document == [size : 1 .. MaxSize, private : BOOLEAN, by : Uploaders]
NoDocument == [size |-> 0, private |-> FALSE, by |-> Null]
There == {d \in Docs : documents[d] # NoDocument}
Size(d) == documents[d].size
Bytes == Cardinality({b \in Docs \X (1 .. MaxSize) : b[2] <= Size(b[1])})

DRequest == [step : {"idle", "aggregate", "create", "delete"},
             document : Document \cup {NoDocument}, id : Docs \cup {Null}]
DIdle == [step |-> "idle", document |-> NoDocument, id |-> Null]

DStart(h, kind, request) ==
    /\ h \in Crowd /\ Serves(kind)
    /\ dreq[h].step = "idle"
    /\ dreq' = [dreq EXCEPT ![h] = request]
    /\ UNCHANGED load
DAt(h, step) == dreq[h].step = step /\ UNCHANGED load
DFinish(h) == dreq' = [dreq EXCEPT ![h] = DIdle]

DocumentsInit ==
    /\ LoadInit
    /\ documents = [d \in Docs |-> NoDocument]
    /\ dreq = [h \in Handlers |-> DIdle]

-----------------------------------------------------------------------------
(* POST /documents: the category, the size of the file, its type and the   *)
(* child are checked...                                                    *)
CreateDocument(h, new) ==
    /\ DStart(h, "upload", [DIdle EXCEPT !.step = "aggregate", !.document = new])
    /\ UNCHANGED documents

(* ...then the quota, against an aggregate of what is there...             *)
WithinCount(count, used, incoming) ==       \* mutant: sizes are not added up
    count < CountLimit
WithinQuota(count, used, incoming) ==
    count < CountLimit /\ used + incoming <= StorageLimit

CheckQuota(h) ==
    /\ DAt(h, "aggregate")
    /\ IF WithinQuota(Cardinality(There), Bytes, dreq[h].document.size)
       THEN dreq' = [dreq EXCEPT ![h].step = "create"] ELSE DFinish(h)
    /\ UNCHANGED documents

(* ...and the row is inserted.                                             *)
InsertDocument(h) ==
    /\ DAt(h, "create")
    /\ \E d \in Docs \ (There \cup {dreq[g].id : g \in Handlers}) :      \* a new id
         documents' = [documents EXCEPT ![d] = dreq[h].document]
    /\ DFinish(h)

(* DELETE /documents/:documentId: a private document, by its uploader.     *)
AskDeleteDocument(h, u, d) ==
    /\ d \in There
    /\ documents[d].private /\ documents[d].by = u
    /\ DStart(h, "discard", [DIdle EXCEPT !.step = "delete", !.id = d])
    /\ UNCHANGED documents

DeleteDocument(h) ==
    /\ DAt(h, "delete")
    /\ dreq[h].id \in There             \* else the statement throws
    /\ documents' = [documents EXCEPT ![dreq[h].id] = NoDocument]
    /\ DFinish(h)

AbortDocument(h) ==
    /\ dreq[h].step # "idle"
    /\ DFinish(h)
    /\ UNCHANGED <<load, documents>>

-----------------------------------------------------------------------------
DocumentStep(h) ==
    \/ \E new \in Document : CreateDocument(h, new)
    \/ CheckQuota(h)
    \/ InsertDocument(h)
    \/ \E u \in Uploaders, d \in Docs : AskDeleteDocument(h, u, d)
    \/ DeleteDocument(h)
    \/ AbortDocument(h)

DocumentsNext == \E h \in Handlers : DocumentStep(h)
DocumentsSpec == DocumentsInit /\ [][DocumentsNext]_<<load, documentVars>>

-----------------------------------------------------------------------------
DocumentsTypeOK ==
    /\ load \in Loads
    /\ documents \in [Docs -> Document \cup {NoDocument}]
    /\ dreq \in [Handlers -> DRequest]

(* Uploads that have passed the quota and have yet to insert their row.    *)
Uploading == {h \in Handlers : dreq[h].step = "create"}

(* A family exceeds the number of documents only by the uploads that       *)
(* overlap...                                                              *)
CountBounded == Cardinality(There) + Cardinality(Uploading) <= CountLimit - 1 + Overlap

(* ...and the storage by a document for each upload but one: the aggregate *)
(* is read before the insert.                                              *)
DocumentsBounded ==
    /\ CountBounded
    /\ Bytes <= StorageLimit + (Overlap - 1) * MaxSize
=============================================================================
