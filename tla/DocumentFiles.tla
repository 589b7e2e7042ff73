---------------------------- MODULE DocumentFiles ----------------------------
(***************************************************************************)
(* File rows and the objects they name (content/documents.ts,              *)
(* delivery/serve.ts, nda/record.ts, purge.ts, storage/local.ts and the    *)
(* file actions of /admin/documents/[id]).  The database and the object    *)
(* store share no transaction, so the order of the two writes decides what *)
(* a crash, a failed statement or a concurrent request can leave behind.   *)
(* An object without a row costs disk; a row without an object is a        *)
(* promise the portal cannot keep.                                         *)
(*                                                                         *)
(* One document in one locale.  Keys are never reused (newStorageKey).     *)
(***************************************************************************)
EXTENDS Naturals, FiniteSets

CONSTANTS
    Keys,          \* storage keys that can be drawn
    NoKey,         \* record_pdf_key IS NULL
    Signatures,    \* ids of nda_acceptance rows
    Uploads,       \* uploads in flight at once
    Streams,       \* downloads in flight at once
    MaxFileVersion,\* bound: versions of the file
    MaxPages,      \* MAX_PDF_PAGES
    PageCounts     \* pages of the files staff upload, 0 for one that will not parse

ASSUME FilesAssumption ==
    /\ NoKey \notin Keys /\ MaxFileVersion \in Nat
    /\ MaxPages \in Nat \ {0} /\ PageCounts \subseteq Nat

VARIABLES
    objects,       \* keys in storage
    stampable,     \* history: keys whose bytes stampPdf can stamp at a bounded cost
    drawn,         \* keys ever drawn
    files,         \* document_file rows
    exists,        \* the document row
    accepted,      \* nda_acceptance rows inserted, or about to be
    records,       \* nda_acceptance.record_pdf_key
    upload,        \* uploads and records being stored
    doomed,        \* objects a handler still has to delete
    stream,        \* downloads
    purge,         \* the purge of a requester under way
    erased,        \* signatures, given or not, of people who have been purged
    overtaken      \* history: of those, the ones being filed at that moment

erasureVars == <<purge, erased, overtaken>>
fileVars == <<objects, stampable, drawn, files, exists, accepted, records, upload, doomed,
              stream, erasureVars>>

FileRow == [key : Keys, version : 1..MaxFileVersion, current : BOOLEAN]
Rest == [op |-> "rest"]
UploadState ==
    {Rest} \cup [op : {"stored"}, key : Keys]
           \cup [op : {"numbered"}, key : Keys, version : 1..MaxFileVersion]
           \cup [op : {"signed"}, of : Signatures]
           \cup [op : {"record"}, key : Keys, of : Signatures]
StreamState == {Rest} \cup [op : {"found", "read", "recorded"}, key : Keys]
PurgeState == {Rest} \cup [op : {"read"}, of : SUBSET Signatures, keys : SUBSET Keys]

HighestVersion ==
    IF files = {} THEN 0
    ELSE CHOOSE v \in {f.version : f \in files} : \A f \in files : f.version <= v
Named == {f.key : f \in files} \cup ({records[a] : a \in Signatures} \ {NoKey})
-----------------------------------------------------------------------------
FilesInit ==
    /\ objects = {} /\ stampable = {} /\ drawn = {} /\ files = {} /\ doomed = {}
    /\ exists = TRUE /\ accepted = {}
    /\ records = [a \in Signatures |-> NoKey]
    /\ upload = [u \in Uploads |-> Rest]
    /\ stream = [s \in Streams |-> Rest]
    /\ purge = Rest /\ erased = {} /\ overtaken = {}

(* assertPdfPages: bytes that will not parse, or with more pages than a    *)
(* download may cost, are refused (UploadRejected).                        *)
Admitted(pages) == pages \in 1..MaxPages

(* uploadFile: checked, then put, then the row.                            *)
PutObject(u, k, pages) ==
    /\ upload[u] = Rest /\ k \notin drawn
    /\ Admitted(pages)
    /\ drawn' = drawn \cup {k}
    /\ stampable' = IF pages \in 1..MaxPages THEN stampable \cup {k} ELSE stampable
    /\ objects' = objects \cup {k}
    /\ upload' = [upload EXCEPT ![u] = [op |-> "stored", key |-> k]]
    /\ UNCHANGED <<files, exists, accepted, records, doomed, stream, erasureVars>>

(* addDocumentFile: the highest version is read without a lock ...         *)
FaultyNumberFile(u) ==                     \* without the + 1
    /\ upload[u].op = "stored"
    /\ upload' = [upload EXCEPT ![u] =
           [op |-> "numbered", key |-> upload[u].key, version |-> HighestVersion]]
    /\ UNCHANGED <<objects, stampable, drawn, files, exists, accepted, records,
                   doomed, stream, erasureVars>>

NumberFile(u) ==
    /\ upload[u].op = "stored"
    /\ HighestVersion < MaxFileVersion
    /\ upload' = [upload EXCEPT ![u] =
           [op |-> "numbered", key |-> upload[u].key, version |-> HighestVersion + 1]]
    /\ UNCHANGED <<objects, stampable, drawn, files, exists, accepted, records,
                   doomed, stream, erasureVars>>

(* ... then the current row is cleared and the new one inserted.  If the   *)
(* number has been taken meanwhile the unique index rejects the loser, and *)
(* if the document is gone its foreign key does.  A number is free again   *)
(* after a delete, so the current file need not have the highest.          *)
InsertFile(u) ==
    LET s == upload[u]
    IN  /\ s.op = "numbered"
        /\ exists
        /\ s.version \notin {f.version : f \in files}
        /\ files' = {[f EXCEPT !.current = FALSE] : f \in files}
                    \cup {[key |-> s.key, version |-> s.version, current |-> TRUE]}
        /\ upload' = [upload EXCEPT ![u] = Rest]
        /\ UNCHANGED <<objects, stampable, drawn, exists, accepted, records,
                       doomed, stream, erasureVars>>

(* The action of the agreement's page, from a session on, which a purged   *)
(* person has not: of the requests that give the signature a, the one that *)
(* inserts its row, and alone renders a record ...                         *)
SignAgreement(u, a) ==
    /\ upload[u] = Rest /\ a \notin accepted \cup erased
    /\ accepted' = accepted \cup {a}
    /\ upload' = [upload EXCEPT ![u] = [op |-> "signed", of |-> a]]
    /\ UNCHANGED <<objects, stampable, drawn, files, exists, records, doomed,
                   stream, erasureVars>>

(* ... then storeRecord: put, and only then point the row, by its id       *)
(* alone, at the object.                                                   *)
PutRecord(u, k) ==
    /\ upload[u].op = "signed" /\ k \notin drawn
    /\ drawn' = drawn \cup {k}
    /\ objects' = objects \cup {k}
    /\ upload' = [upload EXCEPT ![u] = [op |-> "record", key |-> k, of |-> upload[u].of]]
    /\ UNCHANGED <<stampable, files, exists, accepted, records, doomed, stream,
                   erasureVars>>

PointRecord(u) ==
    /\ upload[u].op = "record"
    /\ records' = [records EXCEPT ![upload[u].of] = upload[u].key]
    /\ upload' = [upload EXCEPT ![u] = Rest]
    /\ UNCHANGED <<objects, stampable, drawn, files, exists, accepted, doomed,
                   stream, erasureVars>>

(* A failing statement or a crash in either: the object stays, unnamed.    *)
UploadFails(u) ==
    /\ upload[u] # Rest
    /\ upload' = [upload EXCEPT ![u] = Rest]
    /\ UNCHANGED <<objects, stampable, drawn, files, exists, accepted, records,
                   doomed, stream, erasureVars>>

(* deleteDocumentFile, then the object of the row it deleted.              *)
DeleteFile(f) ==
    /\ files' = files \ {f}
    /\ doomed' = doomed \cup {f.key}
    /\ UNCHANGED <<objects, stampable, drawn, exists, accepted, records, upload,
                   stream, erasureVars>>

(* deleteDocument: the keys are listed, then the document goes and its     *)
(* file rows with it, also `late` ones inserted in between.                *)
DeleteDocumentRow(late) ==
    /\ exists
    /\ doomed' = doomed \cup {f.key : f \in files \ late}
    /\ exists' = FALSE
    /\ files' = {}
    /\ UNCHANGED <<objects, stampable, drawn, accepted, records, upload, stream,
                   erasureVars>>

DeleteObject(k) ==
    /\ k \in doomed
    /\ objects' = objects \ {k}
    /\ doomed' = doomed \ {k}
    /\ UNCHANGED <<stampable, drawn, files, exists, accepted, records, upload,
                   stream, erasureVars>>

(* The handler dies before it has deleted an object.                       *)
LeaveObject(k) ==
    /\ k \in doomed
    /\ doomed' = doomed \ {k}
    /\ UNCHANGED <<objects, stampable, drawn, files, exists, accepted, records,
                   upload, stream, erasureVars>>
-----------------------------------------------------------------------------
(* purgeRequester, its part here, for the person whose signatures are S: a *)
(* second purge is refused.  In one transaction the keys of the person's   *)
(* records are read ...  One purge at a time.                              *)
FaultyPurgeRead(S) ==                      \* deletes the objects at once
    /\ purge = Rest /\ S # {} /\ S \cap erased = {}
    /\ purge' = [op |-> "read", of |-> S, keys |-> {}]
    /\ objects' = objects \ {records[a] : a \in S}
    /\ UNCHANGED <<stampable, drawn, files, exists, accepted, records, upload,
                   doomed, stream, erased, overtaken>>

PurgeRead(S) ==
    /\ purge = Rest /\ S # {} /\ S \cap erased = {}
    /\ purge' = [op |-> "read", of |-> S, keys |-> {records[a] : a \in S} \ {NoKey}]
    /\ UNCHANGED <<objects, stampable, drawn, files, exists, accepted, records,
                   upload, doomed, stream, erased, overtaken>>

Recording(a) == \E u \in Uploads : upload[u].op \in {"signed", "record"} /\ upload[u].of = a

(* ... and nulled, also one pointed at in between, whose object then stays *)
(* unnamed; the objects read are deleted after the commit.                 *)
FaultyPurgeCommit ==                       \* nulls the rows it has read
    /\ purge.op = "read"
    /\ records' = [a \in Signatures |-> IF a \in purge.of /\ records[a] \in purge.keys
                                        THEN NoKey ELSE records[a]]
    /\ doomed' = doomed \cup purge.keys
    /\ erased' = erased \cup purge.of
    /\ overtaken' = overtaken \cup {a \in purge.of : Recording(a)}
    /\ purge' = Rest
    /\ UNCHANGED <<objects, stampable, drawn, files, exists, accepted, upload,
                   stream>>

PurgeCommit ==
    /\ purge.op = "read"
    /\ records' = [a \in Signatures |-> IF a \in purge.of THEN NoKey ELSE records[a]]
    /\ doomed' = doomed \cup purge.keys
    /\ erased' = erased \cup purge.of
    /\ overtaken' = overtaken \cup {a \in purge.of : Recording(a)}
    /\ purge' = Rest
    /\ UNCHANGED <<objects, stampable, drawn, files, exists, accepted, upload,
                   stream>>

(* It rolls back: a statement fails, or the process dies.                  *)
PurgeFails ==
    /\ purge.op = "read"
    /\ purge' = Rest
    /\ UNCHANGED <<objects, stampable, drawn, files, exists, accepted, records,
                   upload, doomed, stream, erased, overtaken>>
-----------------------------------------------------------------------------
(* serveDocumentFile by file id, any version, and the record endpoint by   *)
(* acceptance: the row gives the key.                                      *)
LookUp(s, k) ==
    /\ stream[s] = Rest
    /\ k \in Named
    /\ stream' = [stream EXCEPT ![s] = [op |-> "found", key |-> k]]
    /\ UNCHANGED <<objects, stampable, drawn, files, exists, accepted, records,
                   upload, doomed, erasureVars>>

(* The object is read, and on the gated route stamped (stampPdf).          *)
ReadObject(s) ==
    /\ stream[s].op = "found"
    /\ stream[s].key \in objects
    /\ stream' = [stream EXCEPT ![s].op = "read"]
    /\ UNCHANGED <<objects, stampable, drawn, files, exists, accepted, records,
                   upload, doomed, erasureVars>>

(* StorageObjectNotFound is a 404, a stamp or an event that fails a 500.   *)
StreamFails(s) ==
    /\ stream[s].op \in {"found", "read"}
    /\ stream' = [stream EXCEPT ![s] = Rest]
    /\ UNCHANGED <<objects, stampable, drawn, files, exists, accepted, records,
                   upload, doomed, erasureVars>>

(* recordEvent commits before the response is returned.                    *)
RecordDownload(s) ==
    /\ stream[s].op = "read"
    /\ stream' = [stream EXCEPT ![s].op = "recorded"]
    /\ UNCHANGED <<objects, stampable, drawn, files, exists, accepted, records,
                   upload, doomed, erasureVars>>

SendBody(s) ==
    /\ stream[s].op = "recorded"
    /\ stream' = [stream EXCEPT ![s] = Rest]
    /\ UNCHANGED <<objects, stampable, drawn, files, exists, accepted, records,
                   upload, doomed, erasureVars>>

FilesNext ==
    \/ \E u \in Uploads :
          \/ \E k \in Keys :
                \/ \E pages \in PageCounts : PutObject(u, k, pages)
                \/ PutRecord(u, k)
          \/ \E a \in Signatures : SignAgreement(u, a)
          \/ NumberFile(u)
          \/ InsertFile(u)
          \/ PointRecord(u)
          \/ UploadFails(u)
    \/ \E f \in files : DeleteFile(f)
    \/ \E late \in SUBSET files : DeleteDocumentRow(late)
    \/ \E k \in Keys : DeleteObject(k) \/ LeaveObject(k)
    \/ \E S \in SUBSET Signatures : PurgeRead(S)
    \/ PurgeCommit
    \/ PurgeFails
    \/ \E s \in Streams :
          \/ \E k \in Keys : LookUp(s, k)
          \/ ReadObject(s)
          \/ StreamFails(s)
          \/ RecordDownload(s)
          \/ SendBody(s)

FilesSpec == FilesInit /\ [][FilesNext]_fileVars
-----------------------------------------------------------------------------
FilesTypeOK ==
    /\ objects \cup stampable \subseteq drawn /\ drawn \subseteq Keys
    /\ files \subseteq FileRow
    /\ exists \in BOOLEAN
    /\ records \in [Signatures -> Keys \cup {NoKey}]
    /\ upload \in [Uploads -> UploadState]
    /\ doomed \subseteq Keys
    /\ stream \in [Streams -> StreamState]
    /\ accepted \subseteq Signatures
    /\ purge \in PurgeState
    /\ overtaken \subseteq erased /\ erased \subseteq Signatures

(* Whatever fails or is overtaken, a file row and a filed record always    *)
(* name an object that is there, and a file one that can be stamped: put   *)
(* before the row, row deleted or nulled before the object (documents.ts,  *)
(* record.ts storeRecord, purge.ts:107-109, upload.ts assertPdfPages).     *)
RowsHaveObjects ==
    /\ Named \subseteq objects
    /\ {f.key : f \in files} \subseteq stampable

(* A purge leaves no row of the person naming a record, however the purge  *)
(* and the filing of a record interleave (purge.ts:107-122), but for one   *)
(* whose request was under way when the purge committed: storeRecord then  *)
(* points the row of an erased person at it (README, section 5).           *)
ErasedKeepNoRecord ==
    \A a \in erased : records[a] # NoKey => a \in overtaken
=============================================================================
