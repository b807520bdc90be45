---------------------- MODULE DocumentLifecycleProofs ----------------------
(***************************************************************************)
(* Proofs about DocumentLifecycle, for every number of requests: types,    *)
(* that two ingestions of one document never overlap, that a completed     *)
(* document is whole, and that a delete leaves nothing behind.             *)
(***************************************************************************)
EXTENDS DocumentLifecycle, TLAPS

-----------------------------------------------------------------------------
(* Types *)

\* A session keeps its type when it moves on or ends.
LEMMA GotoTyped ==
    ASSUME TypeOK, NEW q \in Requests, NEW pc \in {"idle"} \cup Uploading \cup Ingesting \cup Deleting,
           Goto(q, pc)
    PROVE  sess' \in [Requests -> Sessions]
BY DEF TypeOK, Goto, Sessions

LEMMA AnswerTyped ==
    ASSUME TypeOK, NEW q \in Requests, Answer(q)
    PROVE  sess' \in [Requests -> Sessions]
BY DEF TypeOK, Answer, Idle, Sessions

\* The history stays one of its three values.
LEMMA NotesTyped ==
    ASSUME TypeOK
    PROVE  /\ NotedWork \in {"none", "alone", "overlapping"}
           /\ NotedDelete \in {"none", "alone", "overlapping"}
BY DEF TypeOK, NotedWork, NotedDelete

LEMMA UploadTyped ==
    ASSUME TypeOK, NEW q \in Requests, Upload(q)
    PROVE  TypeOK'
<1> USE DEF TypeOK, Statuses, stores
<1>1. CASE Create(q)
  BY <1>1, GotoTyped, NotesTyped DEF Create, Uploading
<1>2. CASE Put(q)
  BY <1>2, GotoTyped DEF Put, TimedOut, Uploading
<1>3. CASE Mark(q)
  BY <1>3, GotoTyped DEF Mark, Uploading
<1>4. CASE Refresh(q)
  BY <1>4, GotoTyped, AnswerTyped DEF Refresh, Uploading
<1>5. CASE Unwind(q)
  BY <1>5, GotoTyped DEF Unwind, TimedOut, Uploading
<1>6. CASE UploadFailed(q)
  BY <1>6, AnswerTyped DEF UploadFailed
<1> QED
  BY <1>1, <1>2, <1>3, <1>4, <1>5, <1>6 DEF Upload

LEMMA ProcessTyped ==
    ASSUME TypeOK, NEW q \in Requests, Process(q)
    PROVE  TypeOK'
<1> USE DEF TypeOK, Statuses, stores
<1>1. CASE Claim(q)
  BY <1>1, GotoTyped, NotesTyped DEF Claim, Ingesting
<1>2. CASE Fetch(q)
  <2>1. ASSUME NEW b \in Batches, sess' = [sess EXCEPT ![q] = [pc |-> "clearing", batch |-> b]]
        PROVE  sess' \in [Requests -> Sessions]
    BY <2>1 DEF Sessions, Ingesting
  <2>2. sess' \in [Requests -> Sessions]
    BY <1>2, <2>1, GotoTyped DEF Fetch, Ingesting
  <2> QED
    BY <1>2, <2>2 DEF Fetch
<1>3. CASE Clear(q)
  BY <1>3, GotoTyped DEF Clear, Ingesting
<1>4. CASE Upsert(q)
  <2>1. Points(sess[q].batch) \subseteq Batches
    BY DEF Points, Sessions
  <2> QED
    BY <1>4, <2>1, GotoTyped DEF Upsert, Ingesting
<1>5. CASE Complete(q)
  <2>1. sess[q].batch \in Batches \cup {NoBatch}
    BY DEF Sessions
  <2> QED
    BY <1>5, <2>1, AnswerTyped DEF Complete
<1>6. CASE RecordFailure(q)
  BY <1>6, AnswerTyped DEF RecordFailure
<1> QED
  BY <1>1, <1>2, <1>3, <1>4, <1>5, <1>6 DEF Process

LEMMA DeleteTyped ==
    ASSUME TypeOK, NEW q \in Requests, Delete(q)
    PROVE  TypeOK'
<1> USE DEF TypeOK, Statuses, stores
<1>1. CASE BeginDelete(q)
  BY <1>1, GotoTyped, NotesTyped DEF BeginDelete, Deleting
<1>2. CASE Erase(q)
  BY <1>2, GotoTyped, AnswerTyped DEF Erase, Deleting
<1>3. CASE Remove(q)
  BY <1>3, GotoTyped, AnswerTyped DEF Remove, TimedOut, Deleting
<1>4. CASE Drop(q)
  BY <1>4, AnswerTyped DEF Drop
<1> QED
  BY <1>1, <1>2, <1>3, <1>4 DEF Delete

LEMMA InitTyped == Init => TypeOK
<1> SUFFICES ASSUME Init
             PROVE  TypeOK
  OBVIOUS
<1>1. Idle \in Sessions
  BY DEF Idle, Sessions
<1>2. sess \in [Requests -> Sessions]
  BY <1>1 DEF Init
<1>3. kb \in BOOLEAN /\ object \in BOOLEAN
  BY DEF Init
<1> QED
  BY <1>2, <1>3 DEF Init, TypeOK, Statuses

LEMMA NextTyped == TypeOK /\ [Next]_vars => TypeOK'
<1> SUFFICES ASSUME TypeOK, [Next]_vars
             PROVE  TypeOK'
  OBVIOUS
<1>1. CASE UNCHANGED vars
  BY <1>1 DEF TypeOK, vars, stores
<1>2. ASSUME NEW q \in Requests, Crash(q)
      PROVE  TypeOK'
  BY <1>2, AnswerTyped DEF Crash, TypeOK, stores
<1>3. CASE DropKnowledgeBase
  BY <1>3 DEF DropKnowledgeBase, TypeOK, Statuses
<1>4. CASE Land
  BY <1>4 DEF Land, TypeOK
<1> QED
  BY <1>1, <1>2, <1>3, <1>4, UploadTyped, ProcessTyped, DeleteTyped DEF Next

\* The stores, the row and the requests keep to their types: in particular the
\* collection never receives points when a file has no chunks.
THEOREM TypeCorrect == Spec => []TypeOK
BY InitTyped, NextTyped, PTL DEF Spec

-----------------------------------------------------------------------------
(* At most one ingestion *)

\* The phases of an upload in which its row has not been committed as uploaded.
Storing == {"putting", "marking", "unwinding", "upload_failed"}

Working(q) == sess[q].pc \in Storing \cup Ingesting

\* The row of a document on which a request works is processing, and belongs to
\* that request alone, until it is deleted under it.
WorkerAlone ==
    \A q \in Requests : Working(q) =>
        /\ row \in {"processing", "deleted"}
        /\ row = "processing" => \A p \in Requests : Working(p) => p = q

IngesterAlone ==
    \A p, q \in Requests :
        sess[p].pc \in Ingesting /\ sess[q].pc \in Ingesting => p = q

\* A refresh comes after the row was committed.
RefreshedExists ==
    \A q \in Requests : sess[q].pc = "refreshing" => row # "absent"

Alone == WorkerAlone /\ IngesterAlone /\ RefreshedExists

WInv == TypeOK /\ Alone

LEMMA UploadAlone ==
    ASSUME ~MayDisconnect, WInv, NEW q \in Requests, Upload(q)
    PROVE  Alone'
<1> USE DEF WInv, TypeOK, Sessions, Alone, WorkerAlone, IngesterAlone, RefreshedExists, Working,
        Storing, Ingesting, Goto, Answer, Idle
<1>1. CASE Create(q)
  BY <1>1 DEF Create
<1>2. CASE Put(q)
  BY <1>2 DEF Put
<1>3. CASE Mark(q)
  BY <1>3 DEF Mark, Exists
<1>4. CASE Refresh(q)
  BY <1>4 DEF Refresh, Exists, Statuses, stores
<1>5. CASE Unwind(q)
  BY <1>5 DEF Unwind
<1>6. CASE UploadFailed(q)
  BY <1>6 DEF UploadFailed, Exists
<1> QED
  BY <1>1, <1>2, <1>3, <1>4, <1>5, <1>6 DEF Upload

LEMMA ProcessAlone ==
    ASSUME WInv, NEW q \in Requests, Process(q)
    PROVE  Alone'
<1> USE DEF WInv, TypeOK, Sessions, Alone, WorkerAlone, IngesterAlone, RefreshedExists, Working,
        Storing, Ingesting, Goto, Answer, Idle
<1>1. CASE Claim(q)
  BY <1>1 DEF Claim
<1>2. CASE Fetch(q)
  BY <1>2 DEF Fetch, stores
<1>3. CASE Clear(q)
  BY <1>3 DEF Clear
<1>4. CASE Upsert(q)
  BY <1>4 DEF Upsert
<1>5. CASE Complete(q)
  BY <1>5 DEF Complete, Exists
<1>6. CASE RecordFailure(q)
  BY <1>6 DEF RecordFailure, Exists
<1> QED
  BY <1>1, <1>2, <1>3, <1>4, <1>5, <1>6 DEF Process

LEMMA DeleteAlone ==
    ASSUME WInv, NEW q \in Requests, Delete(q)
    PROVE  Alone'
<1> USE DEF WInv, TypeOK, Sessions, Alone, WorkerAlone, IngesterAlone, RefreshedExists, Working,
        Storing, Ingesting, Goto, Answer, Idle
<1>1. CASE BeginDelete(q)
  BY <1>1 DEF BeginDelete, stores
<1>2. CASE Erase(q)
  BY <1>2 DEF Erase
<1>3. CASE Remove(q)
  BY <1>3 DEF Remove
<1>4. CASE Drop(q)
  BY <1>4 DEF Drop
<1> QED
  BY <1>1, <1>2, <1>3, <1>4 DEF Delete

LEMMA NextAlone == ~MayDisconnect /\ WInv /\ [Next]_vars => Alone'
<1> SUFFICES ASSUME ~MayDisconnect, WInv, [Next]_vars
             PROVE  Alone'
  OBVIOUS
<1> USE DEF Alone, WorkerAlone, IngesterAlone, RefreshedExists, Working
<1>1. CASE UNCHANGED vars
  BY <1>1 DEF WInv, vars, stores
<1>2. ASSUME NEW q \in Requests, Crash(q)
      PROVE  Alone'
  BY <1>2 DEF WInv, TypeOK, Sessions, Storing, Ingesting, Crash, Answer, Idle, stores
<1>3. CASE DropKnowledgeBase
  BY <1>3 DEF WInv, DropKnowledgeBase, Exists
<1>4. CASE Land
  BY <1>4 DEF WInv, Land
<1> QED
  BY <1>1, <1>2, <1>3, <1>4, UploadAlone, ProcessAlone, DeleteAlone DEF Next

LEMMA InitAlone == Init => Alone
BY DEF Init, Idle, Alone, WorkerAlone, IngesterAlone, RefreshedExists, Working, Storing, Ingesting

LEMMA InductiveAlone ==
    ASSUME ~MayDisconnect
    PROVE  Spec => []WInv
<1>1. Init => WInv
  BY InitTyped, InitAlone DEF WInv
<1>2. WInv /\ [Next]_vars => WInv'
  BY NextTyped, NextAlone DEF WInv
<1> QED
  BY <1>1, <1>2, PTL DEF Spec

\* While the database is not lost between a commit and a refresh, no two ingestions
\* of a document overlap, and its row is processing (or was deleted) as long as
\* one is under way: however many requests there are, and whatever fails.
THEOREM IngestionsExclude == ~MayDisconnect => (Spec => []OneIngestion)
<1> SUFFICES ASSUME ~MayDisconnect
             PROVE  Spec => []OneIngestion
  OBVIOUS
<1>1. WInv => OneIngestion
  BY DEF WInv, Alone, WorkerAlone, IngesterAlone, Working, OneIngestion
<1> QED
  BY <1>1, InductiveAlone, PTL

-----------------------------------------------------------------------------
(* The status *)

LEMMA StepFlows ==
    ASSUME ~MayDisconnect, WInv, [Next]_vars
    PROVE  [row' = "deleted" \/ <<row, row'>> \in Flow]_row
<1> USE DEF Flow
<1>1. ASSUME NEW q \in Requests, Upload(q)
      PROVE  [row' = "deleted" \/ <<row, row'>> \in Flow]_row
  BY <1>1 DEF WInv, Alone, WorkerAlone, Working, Storing, Upload, Create, Put, Mark, Refresh,
     Unwind, UploadFailed, Exists, stores
<1>2. ASSUME NEW q \in Requests, Process(q)
      PROVE  [row' = "deleted" \/ <<row, row'>> \in Flow]_row
  BY <1>2 DEF WInv, Alone, WorkerAlone, Working, Ingesting, Process, Claim, Fetch, Clear,
     Upsert, Complete, RecordFailure, Exists, stores
<1>3. ASSUME NEW q \in Requests, Delete(q)
      PROVE  [row' = "deleted" \/ <<row, row'>> \in Flow]_row
  BY <1>3 DEF Delete, BeginDelete, Erase, Remove, Drop, stores
<1>4. ASSUME NEW q \in Requests, Crash(q)
      PROVE  row' = row
  BY <1>4 DEF Crash, stores
<1>5. CASE DropKnowledgeBase
  BY <1>5 DEF DropKnowledgeBase
<1>6. CASE Land \/ UNCHANGED vars
  BY <1>6 DEF Land, vars, stores
<1> QED
  BY <1>1, <1>2, <1>3, <1>4, <1>5, <1>6 DEF Next

\* With the same proviso a status changes only along the documented arrows: in
\* particular nothing a late or failing request does takes a document out of
\* completed, except its deletion.
THEOREM StatusFlows == ~MayDisconnect => (Spec => StatusFlow)
<1> SUFFICES ASSUME ~MayDisconnect
             PROVE  Spec => StatusFlow
  OBVIOUS
<1>1. WInv /\ [Next]_vars => [row' = "deleted" \/ <<row, row'>> \in Flow]_row
  BY StepFlows
<1> QED
  BY <1>1, InductiveAlone, PTL DEF Spec, StatusFlow

-----------------------------------------------------------------------------
(* A completed document is whole *)

NoDelete == \A q \in Requests : sess[q].pc \notin Deleting

\* What the one ingestion under way has made of the collection.
Prepared ==
    \A q \in Requests :
        /\ sess[q].pc = "upserting" => vectors = {}
        /\ sess[q].pc = "completing" => vectors = Points(sess[q].batch)

Snapshot == row = "completed" => vectors = Points(chunked)

\* As long as no delete was begun.
Whole == deletes = "none" => NoDelete /\ Prepared /\ Snapshot

LEMMA InitWhole == Init => Whole
BY DEF Init, Idle, Whole, NoDelete, Prepared, Snapshot, Deleting

\* Work that begins beside a delete is noted.
LEMMA NotedWorkNone ==
    ASSUME NotedWork = "none"
    PROVE  deletes = "none"
BY DEF NotedWork

LEMMA UploadWhole ==
    ASSUME WInv, Whole, NEW q \in Requests, Upload(q)
    PROVE  Whole'
<1> USE DEF WInv, TypeOK, Sessions, Whole, NoDelete, Prepared, Snapshot, Points, Deleting,
        Goto, Answer, Idle
<1>1. CASE Create(q)
  BY <1>1, NotedWorkNone DEF Create
<1>2. CASE Put(q)
  BY <1>2 DEF Put
<1>3. CASE Mark(q)
  BY <1>3 DEF Mark
<1>4. CASE Refresh(q)
  BY <1>4 DEF Refresh, stores
<1>5. CASE Unwind(q)
  BY <1>5 DEF Unwind
<1>6. CASE UploadFailed(q)
  BY <1>6 DEF UploadFailed
<1> QED
  BY <1>1, <1>2, <1>3, <1>4, <1>5, <1>6 DEF Upload

LEMMA ProcessWhole ==
    ASSUME WInv, Whole, NEW q \in Requests, Process(q)
    PROVE  Whole'
<1> USE DEF WInv, TypeOK, Sessions, Alone, WorkerAlone, IngesterAlone, Working, Ingesting,
        Whole, NoDelete, Prepared, Snapshot, Points, Deleting, Goto, Answer, Idle
<1>1. CASE Claim(q)
  BY <1>1, NotedWorkNone DEF Claim
<1>2. CASE Fetch(q)
  BY <1>2 DEF Fetch, stores
<1>3. CASE Clear(q)
  BY <1>3 DEF Clear
<1>4. CASE Upsert(q)
  BY <1>4 DEF Upsert
<1>5. CASE Complete(q)
  BY <1>5 DEF Complete
<1>6. CASE RecordFailure(q)
  BY <1>6 DEF RecordFailure
<1> QED
  BY <1>1, <1>2, <1>3, <1>4, <1>5, <1>6 DEF Process

\* A delete is noted when it begins, and goes on only when it was noted.
LEMMA DeleteWhole ==
    ASSUME WInv, Whole, NEW q \in Requests, Delete(q)
    PROVE  Whole'
<1>1. CASE BeginDelete(q)
  BY <1>1 DEF BeginDelete, NotedDelete, Whole
<1>2. CASE Erase(q) \/ Remove(q) \/ Drop(q)
  BY <1>2 DEF Erase, Remove, Drop, Whole, NoDelete, Deleting
<1> QED
  BY <1>1, <1>2 DEF Delete

LEMMA NextWhole == WInv /\ Whole /\ [Next]_vars => Whole'
<1> SUFFICES ASSUME WInv, Whole, [Next]_vars
             PROVE  Whole'
  OBVIOUS
<1> USE DEF Whole, NoDelete, Prepared, Snapshot, Points
<1>1. CASE UNCHANGED vars
  BY <1>1 DEF vars, stores
<1>2. ASSUME NEW q \in Requests, Crash(q)
      PROVE  Whole'
  BY <1>2 DEF WInv, TypeOK, Sessions, Deleting, Crash, Answer, Idle, stores
<1>3. CASE DropKnowledgeBase
  BY <1>3 DEF DropKnowledgeBase, Exists
<1>4. CASE Land
  BY <1>4 DEF Land
<1> QED
  BY <1>1, <1>2, <1>3, <1>4, UploadWhole, ProcessWhole, DeleteWhole DEF Next

\* With the same proviso the collection and the snapshot of a completed document
\* agree, after any number of failed, interrupted and repeated ingestions.
THEOREM WholeDocuments == ~MayDisconnect => (Spec => []CompletedIsWhole)
<1> SUFFICES ASSUME ~MayDisconnect
             PROVE  Spec => []CompletedIsWhole
  OBVIOUS
<1>1. Whole => CompletedIsWhole
  BY DEF Whole, Snapshot, CompletedIsWhole
<1>2. WInv /\ Whole /\ [Next]_vars => Whole'
  BY NextWhole
<1> QED
  BY <1>1, <1>2, InitWhole, InductiveAlone, PTL DEF Spec

-----------------------------------------------------------------------------
(* A deleted document leaves nothing behind *)

\* Nobody stores the file or its points, now or later.
Resting ==
    /\ \A q \in Requests : sess[q].pc \notin Uploading \cup Ingesting
    /\ "put" \notin late

\* A delete has the document for itself, and has done what its phase says.
Erased ==
    \A q \in Requests :
        /\ sess[q].pc \in Deleting => Resting
        /\ sess[q].pc \in {"removing", "dropping"} => vectors = {}
        /\ sess[q].pc = "dropping" => ~object

\* The row went after everything else, and no new work can begin on it.
Gone == row = "deleted" /\ kb => Resting /\ ~object /\ vectors = {} /\ chunked = NoBatch

\* As long as nothing ran beside a delete.
Left == deletes # "overlapping" => Erased /\ Gone

LEMMA InitLeft == Init => Left
BY DEF Init, Idle, Left, Erased, Gone, Deleting

LEMMA NotedWorkApart ==
    ASSUME NotedWork # "overlapping"
    PROVE  /\ deletes # "overlapping"
           /\ \A q \in Requests : sess[q].pc \notin Deleting
BY DEF NotedWork, Busy

LEMMA NotedDeleteApart ==
    ASSUME NotedDelete # "overlapping"
    PROVE  deletes # "overlapping" /\ Resting
BY DEF NotedDelete, Busy, Resting

\* An upload goes on: then nobody deletes and the row is not gone.
LEMMA UploadLeft ==
    ASSUME TypeOK, Left, NEW q \in Requests, Upload(q)
    PROVE  Left'
<1> USE DEF TypeOK, Sessions, Left, Erased, Gone, Resting, Uploading, Ingesting, Deleting,
        Goto, Answer, Idle
<1>1. CASE Create(q)
  BY <1>1, NotedWorkApart DEF Create
<1>2. CASE Put(q)
  BY <1>2 DEF Put
<1>3. CASE Mark(q)
  BY <1>3 DEF Mark
<1>4. CASE Refresh(q)
  BY <1>4 DEF Refresh, stores
<1>5. CASE Unwind(q)
  BY <1>5 DEF Unwind
<1>6. CASE UploadFailed(q)
  BY <1>6 DEF UploadFailed
<1> QED
  BY <1>1, <1>2, <1>3, <1>4, <1>5, <1>6 DEF Upload

LEMMA ProcessLeft ==
    ASSUME TypeOK, Left, NEW q \in Requests, Process(q)
    PROVE  Left'
<1> USE DEF TypeOK, Sessions, Left, Erased, Gone, Resting, Uploading, Ingesting, Deleting,
        Goto, Answer, Idle
<1>1. CASE Claim(q)
  BY <1>1, NotedWorkApart DEF Claim
<1>2. CASE Fetch(q)
  BY <1>2 DEF Fetch, stores
<1>3. CASE Clear(q)
  BY <1>3 DEF Clear
<1>4. CASE Upsert(q)
  BY <1>4 DEF Upsert
<1>5. CASE Complete(q)
  BY <1>5 DEF Complete
<1>6. CASE RecordFailure(q)
  BY <1>6 DEF RecordFailure
<1> QED
  BY <1>1, <1>2, <1>3, <1>4, <1>5, <1>6 DEF Process

LEMMA DeleteLeft ==
    ASSUME TypeOK, Left, NEW q \in Requests, Delete(q)
    PROVE  Left'
<1> USE DEF TypeOK, Sessions, Left, Erased, Gone, Resting, Uploading, Ingesting, Deleting,
        Goto, Answer, Idle
<1>1. CASE BeginDelete(q)
  BY <1>1, NotedDeleteApart DEF BeginDelete, stores
<1>2. CASE Erase(q)
  BY <1>2 DEF Erase
<1>3. CASE Remove(q)
  BY <1>3 DEF Remove, TimedOut
<1>4. CASE Drop(q)
  BY <1>4 DEF Drop
<1> QED
  BY <1>1, <1>2, <1>3, <1>4 DEF Delete

LEMMA NextLeft == TypeOK /\ Left /\ [Next]_vars => Left'
<1> SUFFICES ASSUME TypeOK, Left, [Next]_vars
             PROVE  Left'
  OBVIOUS
<1> USE DEF Left, Erased, Gone, Resting
<1>1. CASE UNCHANGED vars
  BY <1>1 DEF vars, stores
<1>2. ASSUME NEW q \in Requests, Crash(q)
      PROVE  Left'
  BY <1>2 DEF TypeOK, Sessions, Crash, Answer, Idle, stores, Uploading, Ingesting, Deleting
<1>3. CASE DropKnowledgeBase
  BY <1>3 DEF DropKnowledgeBase
<1>4. CASE Land
  <2>1. PICK call \in late : object' = (call = "put") /\ late' = late \ {call}
    BY <1>4 DEF Land
  <2>2. call # "put" => ~object'
    BY <2>1
  <2>3. UNCHANGED <<kb, row, chunked, vectors, sess, deletes>>
    BY <1>4 DEF Land
  <2>4. late' \subseteq late
    BY <2>1
  <2>5. Resting => Resting' /\ ~object'
    BY <2>2, <2>3, <2>4
  <2> QED
    BY <2>3, <2>5 DEF Deleting
<1> QED
  BY <1>1, <1>2, <1>3, <1>4, UploadLeft, ProcessLeft, DeleteLeft DEF Next

\* However many requests there are, whatever fails and however often a delete has to be
\* repeated: a document whose deletes had it for themselves leaves neither file nor
\* points nor chunks (DocumentService.delete takes the row last).
THEOREM DeletionIsWhole == Spec => []DeletedLeavesNothing
<1>1. Left => DeletedLeavesNothing
  BY DEF Left, Gone, DeletedLeavesNothing
<1>2. TypeOK /\ Left /\ [Next]_vars => Left'
  BY NextLeft
<1> QED
  BY <1>1, <1>2, InitLeft, TypeCorrect, PTL DEF Spec
=============================================================================
