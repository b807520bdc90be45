------------------------- MODULE DocumentLifecycle -------------------------
(***************************************************************************)
(* The life of one document: its row and chunks in PostgreSQL, its file in *)
(* MinIO and its points in Qdrant, and the upload, process and delete      *)
(* requests that change them (src/backend/app/services/documents.py and    *)
(* ingestion.py with the repositories and adapters they call).             *)
(*                                                                         *)
(* The three stores share no transaction.  A request calls them one after  *)
(* the other; between two calls other requests act, the process may die,   *)
(* and a call that fails may have taken effect nevertheless.  An action is *)
(* one call or one transaction.                                            *)
(***************************************************************************)
EXTENDS FiniteSets

CONSTANTS
    Requests,       \* requests the server handles at the same time
    Batches,        \* sets of chunk ids one ingestion can draw (uuid4)
    NoBatch,        \* no chunks
    Contents,       \* kinds of files users upload
    MayCrash,       \* the process may die
    MayDisconnect,  \* the database may be lost between a commit and a refresh
    LateCalls       \* MinIO calls that may be carried out after their timeout

ASSUME DocumentAssumption ==
    /\ NoBatch \notin Batches
    /\ Contents \subseteq {"text", "empty", "broken", "unstorable"}
    /\ MayCrash \in BOOLEAN
    /\ MayDisconnect \in BOOLEAN
    /\ LateCalls \subseteq {"put", "remove"}

VARIABLES
    content,  \* what the file is: some text, none, one the parser refuses, or text
              \* PostgreSQL refuses (a NUL character)
    kb,       \* the knowledge base exists
    row,      \* status of the documents row, or "absent" or "deleted"
    chunked,  \* the batch in document_chunks
    object,   \* the file is in the bucket
    late,     \* MinIO calls answered as timed out whose threads still run
    vectors,  \* the batches that have points in the collection
    sess,     \* sess[q]: where request q is, and the batch it has drawn
    deletes   \* history: deletes begun so far: none, each alone, some overlapping

stores == <<row, chunked, object, late, vectors>>
vars == <<content, kb, stores, sess, deletes>>

-----------------------------------------------------------------------------
Statuses == {"absent", "processing", "uploaded", "completed", "failed", "deleted"}

Exists == row \notin {"absent", "deleted"}

Uploading == {"putting", "marking", "refreshing", "unwinding", "upload_failed"}

Ingesting == {"fetching", "clearing", "upserting", "completing", "failing"}

Deleting == {"erasing", "removing", "dropping"}

Sessions == [pc    : {"idle"} \cup Uploading \cup Ingesting \cup Deleting,
             batch : Batches \cup {NoBatch}]

Idle == [pc |-> "idle", batch |-> NoBatch]

Init ==
    /\ content \in Contents
    /\ kb = TRUE
    /\ row = "absent"
    /\ chunked = NoBatch
    /\ object = FALSE
    /\ late = {}
    /\ vectors = {}
    /\ sess = [q \in Requests |-> Idle]
    /\ deletes = "none"

Goto(q, pc) == sess' = [sess EXCEPT ![q].pc = pc]

\* The response is sent, or an exception is: the session is closed.
Answer(q) == sess' = [sess EXCEPT ![q] = Idle]

\* uuid4: ids no row, point or request holds.
Fresh(b) == b \notin vectors \cup {chunked} \cup {sess[q].batch : q \in Requests}

\* The points of a batch.
Points(b) == {b} \ {NoBatch}

Busy(phases) == \E q \in Requests : sess[q].pc \in phases

\* An upload or an ingestion begins, perhaps while a delete is going on.
NotedWork == IF Busy(Deleting) THEN "overlapping" ELSE deletes

\* asyncio.wait_for gives up on the thread of a MinIO call but does not stop it.
TimedOut(call) == object' = object /\ late' = late \cup ({call} \cap LateCalls)

-----------------------------------------------------------------------------
(* DocumentService.upload *)

\* The row is committed before the file is stored.
Create(q) ==
    /\ sess[q].pc = "idle"
    /\ kb
    /\ row = "absent"
    /\ row' = "processing"
    /\ deletes' = NotedWork
    /\ Goto(q, "putting")
    /\ UNCHANGED <<content, kb, chunked, object, late, vectors>>

\* ensure_bucket and put_object.
Put(q) ==
    /\ sess[q].pc = "putting"
    /\ \/ object' = TRUE /\ late' = late /\ Goto(q, "marking")
       \/ object' = TRUE /\ late' = late /\ Goto(q, "upload_failed")
       \/ TimedOut("put") /\ Goto(q, "upload_failed")
    /\ UNCHANGED <<content, kb, row, chunked, vectors, deletes>>

\* The commit of UPLOADED fails when the row is gone (StaleDataError), and may
\* fail by itself.
Mark(q) ==
    /\ sess[q].pc = "marking"
    /\ \/ Exists /\ row' = "uploaded" /\ Goto(q, "refreshing")
       \/ row' = row /\ Goto(q, "unwinding")
    /\ UNCHANGED <<content, kb, chunked, object, late, vectors, deletes>>

\* session.refresh: the row is gone when a delete came in between.  Its failure is
\* handled like one of the commit, although UPLOADED is committed.
Refresh(q) ==
    /\ sess[q].pc = "refreshing"
    /\ \/ Exists /\ Answer(q)
       \/ (~Exists \/ MayDisconnect) /\ Goto(q, "unwinding")
    /\ UNCHANGED <<content, kb, stores, deletes>>

\* The stored object is removed; a failure to do so is only logged.
Unwind(q) ==
    /\ sess[q].pc = "unwinding"
    /\ \/ object' = FALSE /\ late' = late
       \/ TimedOut("remove")
    /\ Goto(q, "upload_failed")
    /\ UNCHANGED <<content, kb, row, chunked, vectors, deletes>>

UploadFailed(q) ==
    /\ sess[q].pc = "upload_failed"
    /\ row' = IF Exists THEN "failed" ELSE row
    /\ Answer(q)
    /\ UNCHANGED <<content, kb, chunked, object, late, vectors, deletes>>

-----------------------------------------------------------------------------
(* IngestionService.process *)

\* Variant: a document that is processing is not refused (409).
ClaimUnchecked(q) ==
    /\ sess[q].pc = "idle"
    /\ kb
    /\ row \in {"uploaded", "failed", "processing"}
    /\ row' = "processing"
    /\ deletes' = NotedWork
    /\ Goto(q, "fetching")
    /\ UNCHANGED <<content, kb, chunked, object, late, vectors>>

\* Variant: a completed document is processed once more.
ClaimCompleted(q) ==
    /\ sess[q].pc = "idle"
    /\ kb
    /\ row \in {"uploaded", "failed", "completed"}
    /\ row' = "processing"
    /\ deletes' = NotedWork
    /\ Goto(q, "fetching")
    /\ UNCHANGED <<content, kb, chunked, object, late, vectors>>

\* The row is read FOR UPDATE and committed as processing.  A completed document
\* is answered as it is and a processing one with 409: neither changes anything.
Claim(q) ==
    /\ sess[q].pc = "idle"
    /\ kb
    /\ row \in {"uploaded", "failed"}
    /\ row' = "processing"
    /\ deletes' = NotedWork
    /\ Goto(q, "fetching")
    /\ UNCHANGED <<content, kb, chunked, object, late, vectors>>

\* get_object_bytes and the pipeline: chunks with new ids, or none for a file
\* without text; a file that is not there or cannot be parsed is an error.
Fetch(q) ==
    /\ sess[q].pc = "fetching"
    /\ \/ /\ object
          /\ \E b \in Batches :
                /\ content \in {"text", "unstorable"}
                /\ Fresh(b)
                /\ sess' = [sess EXCEPT ![q] = [pc |-> "clearing", batch |-> b]]
       \/ object /\ content = "empty" /\ Goto(q, "clearing")
       \/ Goto(q, "failing")
    /\ UNCHANGED <<content, kb, stores, deletes>>

\* Variant: the points of earlier attempts are left in the collection.
ClearNothing(q) ==
    /\ sess[q].pc = "clearing"
    /\ Goto(q, "upserting")
    /\ UNCHANGED <<content, kb, stores, deletes>>

\* delete_document: the points of earlier attempts go.
Clear(q) ==
    /\ sess[q].pc = "clearing"
    /\ \/ vectors' = {} /\ Goto(q, "upserting")
       \/ vectors' \in {{}, vectors} /\ Goto(q, "failing")
    /\ UNCHANGED <<content, kb, row, chunked, object, late, deletes>>

\* Variant: the points are upserted also when there are no chunks.
UpsertAlways(q) ==
    /\ sess[q].pc = "upserting"
    /\ vectors' = vectors \cup {sess[q].batch}
    /\ Goto(q, "completing")
    /\ UNCHANGED <<content, kb, row, chunked, object, late, deletes>>

\* embed and upsert_chunks, when there are chunks.
Upsert(q) ==
    /\ sess[q].pc = "upserting"
    /\ \/ vectors' = vectors \cup Points(sess[q].batch) /\ Goto(q, "completing")
       \/ /\ sess[q].batch # NoBatch
          /\ vectors' \in {vectors, vectors \cup Points(sess[q].batch)}
          /\ Goto(q, "failing")
    /\ UNCHANGED <<content, kb, row, chunked, object, late, deletes>>

\* replace_for_document and COMPLETED are one transaction.  When it fails (the
\* row is gone, or the text cannot be stored) the rollback expires `document`,
\* reading document.id in the handler raises, and the row stays as it is.
Complete(q) ==
    /\ sess[q].pc = "completing"
    /\ IF Exists /\ content # "unstorable"
       THEN row' = "completed" /\ chunked' = sess[q].batch
       ELSE UNCHANGED <<row, chunked>>
    /\ Answer(q)
    /\ UNCHANGED <<content, kb, object, late, vectors, deletes>>

\* The handler of a failure before that transaction: nothing to roll back, the
\* row (if it is still there) becomes failed.
RecordFailure(q) ==
    /\ sess[q].pc = "failing"
    /\ row' = IF Exists THEN "failed" ELSE row
    /\ Answer(q)
    /\ UNCHANGED <<content, kb, chunked, object, late, vectors, deletes>>

-----------------------------------------------------------------------------
(* DocumentService.delete *)

\* A delete begins, perhaps while an upload or an ingestion is going on.
NotedDelete ==
    IF deletes = "overlapping" \/ Busy(Uploading \cup Ingesting) \/ "put" \in late
    THEN "overlapping" ELSE "alone"

\* Variant: the row is deleted before the points and the file.
DeleteRowFirst(q) ==
    /\ sess[q].pc = "idle"
    /\ kb
    /\ Exists
    /\ row' = "deleted"
    /\ chunked' = NoBatch
    /\ deletes' = NotedDelete
    /\ Goto(q, "erasing")
    /\ UNCHANGED <<content, kb, object, late, vectors>>

\* The row is read; nothing locks it.
BeginDelete(q) ==
    /\ sess[q].pc = "idle"
    /\ kb
    /\ Exists
    /\ deletes' = NotedDelete
    /\ Goto(q, "erasing")
    /\ UNCHANGED <<content, kb, stores>>

\* delete_document; a failure is answered with 502 and leaves the row.
Erase(q) ==
    /\ sess[q].pc = "erasing"
    /\ \/ vectors' = {} /\ Goto(q, "removing")
       \/ vectors' \in {{}, vectors} /\ Answer(q)
    /\ UNCHANGED <<content, kb, row, chunked, object, late, deletes>>

\* remove_object, likewise.
Remove(q) ==
    /\ sess[q].pc = "removing"
    /\ \/ object' = FALSE /\ late' = late /\ Goto(q, "dropping")
       \/ object' = FALSE /\ late' = late /\ Answer(q)
       \/ TimedOut("remove") /\ Answer(q)
    /\ UNCHANGED <<content, kb, row, chunked, vectors, deletes>>

\* The row goes, and its chunks by ON DELETE CASCADE.
Drop(q) ==
    /\ sess[q].pc = "dropping"
    /\ row' = "deleted"
    /\ chunked' = NoBatch
    /\ Answer(q)
    /\ UNCHANGED <<content, kb, object, late, vectors, deletes>>

-----------------------------------------------------------------------------
\* DELETE of the knowledge base: its rows go by ON DELETE CASCADE, and nothing
\* is done to the bucket or the collection.
DropKnowledgeBase ==
    /\ kb
    /\ kb' = FALSE
    /\ row' = IF Exists THEN "deleted" ELSE row
    /\ chunked' = NoBatch
    /\ UNCHANGED <<content, object, late, vectors, sess, deletes>>

\* The thread of a call that timed out gets its work done.
Land ==
    /\ \E call \in late :
          /\ object' = (call = "put")
          /\ late' = late \ {call}
    /\ UNCHANGED <<content, kb, row, chunked, vectors, sess, deletes>>

\* The process dies.
Crash(q) ==
    /\ MayCrash
    /\ sess[q].pc # "idle"
    /\ Answer(q)
    /\ UNCHANGED <<content, kb, stores, deletes>>

Upload(q) ==
    Create(q) \/ Put(q) \/ Mark(q) \/ Refresh(q) \/ Unwind(q) \/ UploadFailed(q)

Process(q) ==
    Claim(q) \/ Fetch(q) \/ Clear(q) \/ Upsert(q) \/ Complete(q) \/ RecordFailure(q)

Delete(q) == BeginDelete(q) \/ Erase(q) \/ Remove(q) \/ Drop(q)

Next ==
    \/ \E q \in Requests : Upload(q) \/ Process(q) \/ Delete(q) \/ Crash(q)
    \/ DropKnowledgeBase
    \/ Land

Spec == Init /\ [][Next]_vars

-----------------------------------------------------------------------------
(* Properties *)

\* Only points of chunks ever drawn are in the collection (upsert_chunks is not
\* called without chunks), and rows and requests hold the values they may.
TypeOK ==
    /\ content \in Contents
    /\ kb \in BOOLEAN
    /\ row \in Statuses
    /\ chunked \in Batches \cup {NoBatch}
    /\ object \in BOOLEAN
    /\ late \subseteq LateCalls
    /\ vectors \subseteq Batches
    /\ sess \in [Requests -> Sessions]
    /\ deletes \in {"none", "alone", "overlapping"}

\* At most one ingestion of the document is under way, and its row says so as
\* long as there is a row: the lock and the 409 of process keep a second one
\* out, through failed uploads, retries and crashes.
OneIngestion ==
    \A q \in Requests : sess[q].pc \in Ingesting =>
        /\ row \in {"processing", "deleted"}
        /\ \A p \in Requests : sess[p].pc \in Ingesting => p = q

\* Dense and sparse retrieval see the same chunks of a completed document: after
\* any number of failed and interrupted attempts the collection holds exactly
\* the chunks of the document_chunks snapshot.  (A delete that failed half way may
\* have taken the points of a completed document.)
CompletedIsWhole ==
    row = "completed" /\ deletes = "none" => vectors = Points(chunked)

\* A deleted document leaves nothing behind in the bucket or the collection,
\* whatever failed before and however often the delete had to be repeated,
\* unless an upload (or its thread) or an ingestion ran beside it.
DeletedLeavesNothing ==
    row = "deleted" /\ kb /\ deletes # "overlapping" /\ ~Busy(Deleting) =>
        ~object /\ vectors = {} /\ chunked = NoBatch

\* The status moves only as documented, uploaded to processing to completed or
\* failed, with retries of failed documents; a completed one changes no more.
Flow ==
    {<<"absent", "processing">>, <<"processing", "uploaded">>,
     <<"processing", "completed">>, <<"processing", "failed">>,
     <<"uploaded", "processing">>, <<"failed", "processing">>}

StatusFlow == [][row' = "deleted" \/ <<row, row'>> \in Flow]_row

\* Without crashes, a document is processing only while a request works on it:
\* every failure of an ingestion is recorded in the row.
FailureIsRecorded ==
    row = "processing" /\ ~MayCrash => Busy(Uploading \cup Ingesting)
=============================================================================
